----------------------------- MODULE Evaluation -----------------------------
(***************************************************************************)
(* The offline benches that judge prompts (evaluation.py of coach_engine,  *)
(* feedback_engine, session_engine and scene_engine).  A bench sends fixed *)
(* samples to the model, holds each answer against hard rules, may ask a   *)
(* second model (the judge) for its opinion, folds all of it into a row,   *)
(* and replays the rows so far into a file of one line each.               *)
(*                                                                         *)
(* Three benches take one sample after the other and write after each; the *)
(* one of scenes has up to max_concurrency samples under way and writes    *)
(* when asyncio.gather has returned.  A text is what the rules read of it: *)
(* numbers of words, sentences, lines or question marks, and whether what  *)
(* the rules look for is in it.  Hashes and models that a row carries      *)
(* along are left out.                                                     *)
(*                                                                         *)
(* write_text truncates the file and then fills it: two steps, and between *)
(* them, as at any other time, the process may be killed.                  *)
(***************************************************************************)
EXTENDS Naturals, Sequences, FiniteSets

CONSTANTS
  Samples,      \* the samples of one file, in its order
  Outputs,      \* Outputs[e]: what the model of engine e may answer
  Concurrency,  \* max_concurrency of the bench of scenes
  OldRows       \* what the file holds before the bench runs

Benches == {"coach", "feedback", "review", "scene"}
Numbers == 1..Len(Samples)

(* Of a sample: the words of the learner's message and what is expected of *)
(* the picture.  Of an output: `sound' errors are of the closed set, have  *)
(* both texts and a short explanation; `quoted' ones are in the learner's  *)
(* message and `named' ones in the grammar text, of so many chars, lines.  *)
Sample == [tokens : Nat, expected : {"answered", "unsupported_image"}]

CoachReply ==
  [foreign : BOOLEAN, words : Nat, questions : Nat, meta : BOOLEAN, echoes : BOOLEAN]
FeedbackResult ==
  [errors : Nat, sound : BOOLEAN, quoted : BOOLEAN, chars : Nat, lines : Nat, named : BOOLEAN,
   blank : BOOLEAN, sentences : Nat, foreign : BOOLEAN, useful : Nat, phrases : BOOLEAN]
ReviewCopy == [chinese : BOOLEAN, fits : BOOLEAN, leaksId : BOOLEAN, unrelated : BOOLEAN]
SceneResult ==
  [meta : BOOLEAN, opener : Nat, role : Nat, scene : BOOLEAN, anchors : BOOLEAN,
   vocab : BOOLEAN, valuable : BOOLEAN, confidence : 0..100]

ASSUME BenchAssumption ==
  /\ Samples \in Seq(Sample)
  /\ DOMAIN Outputs = Benches
  /\ Outputs["coach"] \subseteq CoachReply
  /\ Outputs["feedback"] \subseteq FeedbackResult
  /\ Outputs["review"] \subseteq ReviewCopy
  /\ Outputs["scene"] \subseteq SceneResult
  /\ Concurrency \in Nat

VARIABLES
  bench,    \* whose bench it is, and whether a judge was given
  sample,   \* sample[n]: how far the n-th sample is, and its row
  results,  \* the rows of the list to be returned
  file,     \* what the output file holds
  batch     \* how far the batch is

benchVars == <<bench, sample, results, file, batch>>

-----------------------------------------------------------------------------
(* The hard rules, in the order in which the first broken one is reported. *)
CoachRules(reply, n) ==
  << ~reply.foreign,
     reply.words \in 1..80,
     reply.questions \in 1..2,
     ~reply.meta,
     Samples[n].tokens >= 4 => ~reply.echoes >>

FeedbackRules(feedback) ==
  << feedback.errors <= 3 /\ feedback.sound,
     feedback.quoted,
     /\ feedback.chars \in 1..320
     /\ feedback.errors > 0 => feedback.lines = feedback.errors /\ feedback.named,
     ~feedback.blank /\ feedback.sentences <= 2 /\ ~feedback.foreign,
     feedback.useful \in 2..4 /\ feedback.phrases >>

(* A copy of another structure never comes out of the summarizer.          *)
ReviewRules(copy) == << TRUE, copy.chinese, copy.fits, ~copy.leaksId, ~copy.unrelated >>

SceneRules(output) ==
  << ~output.meta, output.opener <= 20, output.role <= 4,
     output.scene, output.anchors, output.vocab, output.valuable >>

Rules(output, n) ==
  CASE bench.engine = "coach"    -> CoachRules(output, n)
    [] bench.engine = "feedback" -> FeedbackRules(output)
    [] bench.engine = "review"   -> ReviewRules(output)
    [] bench.engine = "scene"    -> SceneRules(output)

Labels ==
  [coach    |-> <<"english", "length", "follow_up", "meta_leak", "no_echo">>,
   feedback |-> <<"structure", "quotes", "grammar", "more_natural", "useful_words">>,
   review   |-> <<"structure", "chinese", "length", "scene_id", "topic">>,
   scene    |-> <<"meta_opener", "long_opener", "long_role",
                  "scene", "anchors", "vocab", "vocab_value">>]

Broken(rules) == {i \in DOMAIN rules : ~rules[i]}
FirstBroken(rules) == CHOOSE i \in Broken(rules) : \A j \in Broken(rules) : i <= j

(* Of a scene, only the first three rules are called hard checks.          *)
HardChecks(rules) ==
  Broken(rules) \cap (IF bench.engine = "scene" THEN 1..3 ELSE DOMAIN rules) = {}

-----------------------------------------------------------------------------
(* The row of an answer before the judge has spoken, which is the one      *)
(* without a judge.                                                        *)
Folded(n, output) ==
  LET rules == Rules(output, n)
  IN  [outcome |-> "answered", hard |-> HardChecks(rules), judge |-> "none",
       final |-> Broken(rules) = {},
       reason |-> IF Broken(rules) = {} THEN ""
                  ELSE Labels[bench.engine][FirstBroken(rules)]]

GracefulFailure ==
  [outcome |-> "graceful_failure", hard |-> FALSE, judge |-> "none",
   final |-> FALSE, reason |-> "graceful_failure"]

(* A picture may be there to be refused.                                   *)
Refusal(n) ==
  LET expected == Samples[n].expected = "unsupported_image"
  IN  [outcome |-> "unsupported_image", hard |-> expected, judge |-> "none",
       final |-> expected, reason |-> IF expected THEN "" ELSE "unsupported_image"]

(* A slip: what the judge says is the last word.                           *)
JudgedAlone(row, says, reason) ==
  [row EXCEPT !.judge = says,
              !.final = says # "veto",
              !.reason = IF says = "veto" THEN reason ELSE ""]

Judged(row, says, reason) ==
  [row EXCEPT !.judge = says,
              !.final = row.final /\ says # "veto",
              !.reason = IF row.reason = "" /\ says = "veto" THEN reason ELSE row.reason]

(* The judge may veto without saying why.                                  *)
Verdicts == [says : {"pass", "veto"}, reason : {"", "judge"}]

GoesToJudge(output) ==
  /\ bench.judge
  /\ bench.engine = "coach" => output.words > 0
  /\ bench.engine = "scene" => output.confidence >= 65

NoRow == [outcome |-> "none", hard |-> FALSE, judge |-> "none", final |-> FALSE, reason |-> ""]

BenchInit ==
  /\ bench \in [engine : Benches, judge : BOOLEAN]
  /\ bench.engine = "review" => ~bench.judge
  /\ sample = [n \in Numbers |-> [at |-> "waiting", row |-> NoRow]]
  /\ results = <<>>
  /\ file = OldRows
  /\ batch = "running"

Concurrent == bench.engine = "scene"
Places == IF Concurrent /\ Concurrency > 1 THEN Concurrency ELSE 1
InFlight == {n \in Numbers : sample[n].at \in {"asking", "judging"}}

SampleGoes(n, from, to, row) ==
  /\ batch = "running" /\ sample[n].at = from
  /\ sample' = [sample EXCEPT ![n] = [at |-> to, row |-> row]]

(* The semaphore serves its waiters in order.                              *)
TakePlace(n) ==
  /\ Concurrent
  /\ \A m \in 1..(n - 1) : sample[m].at # "waiting"
  /\ Cardinality(InFlight) < Places
  /\ SampleGoes(n, "waiting", "asking", NoRow)
  /\ UNCHANGED <<bench, results, file, batch>>

(* The loop writes a row before it begins the next sample.                 *)
NextSample(n) ==
  /\ ~Concurrent /\ n = Len(results) + 1
  /\ SampleGoes(n, "waiting", "asking", NoRow)
  /\ UNCHANGED <<bench, results, file, batch>>

Answered(n) ==
  /\ \E output \in Outputs[bench.engine] :
       SampleGoes(n, "asking", IF GoesToJudge(output) THEN "judging" ELSE "done",
                  Folded(n, output))
  /\ UNCHANGED <<bench, results, file, batch>>

(* The provider fails, or its answer cannot be parsed.                     *)
AnswerFails(n) ==
  /\ SampleGoes(n, "asking", "done", GracefulFailure)
  /\ UNCHANGED <<bench, results, file, batch>>

Refused(n) ==
  /\ Concurrent
  /\ SampleGoes(n, "asking", "done", Refusal(n))
  /\ UNCHANGED <<bench, results, file, batch>>

JudgeSpeaks(n) ==
  /\ \E verdict \in Verdicts :
       SampleGoes(n, "judging", "done",
                  Judged(sample[n].row, verdict.says, verdict.reason))
  /\ UNCHANGED <<bench, results, file, batch>>

(* The loop notes that the judge failed, and the rules decide.             *)
JudgeFails(n) ==
  /\ ~Concurrent
  /\ SampleGoes(n, "judging", "done", Judged(sample[n].row, "error", ""))
  /\ UNCHANGED <<bench, results, file, batch>>

(* The bench of scenes has nobody to catch it: gather raises it, and what  *)
(* the other samples found or are about to find is lost.                   *)
JudgeRaises(n) ==
  /\ Concurrent
  /\ batch = "running" /\ sample[n].at = "judging"
  /\ batch' = "raised"
  /\ UNCHANGED <<bench, sample, results, file>>

(* The next row joins the list, and the file is opened for writing.        *)
RowJoins ==
  /\ batch = "running"
  /\ results' = Append(results, sample[Len(results) + 1].row)
  /\ file' = <<>>
  /\ batch' = "writing"
  /\ UNCHANGED <<bench, sample>>

AppendRow ==
  /\ ~Concurrent
  /\ Len(results) < Len(Samples) /\ sample[Len(results) + 1].at = "done"
  /\ RowJoins

(* gather returns the rows in the order of the samples.                    *)
CollectRow ==
  /\ Concurrent
  /\ Len(results) < Len(Samples) /\ \A n \in Numbers : sample[n].at = "done"
  /\ RowJoins

WriteFile ==
  /\ batch = "writing"
  /\ file' = results
  /\ batch' = "running"
  /\ UNCHANGED <<bench, sample, results>>

Return ==
  /\ batch = "running" /\ Len(results) = Len(Samples)
  /\ batch' = "returned"
  /\ UNCHANGED <<bench, sample, results, file>>

Killed ==
  /\ batch \in {"running", "writing"}
  /\ batch' = "killed"
  /\ UNCHANGED <<bench, sample, results, file>>

SampleStep(n) ==
  \/ TakePlace(n) \/ NextSample(n)
  \/ Answered(n) \/ AnswerFails(n) \/ Refused(n)
  \/ JudgeSpeaks(n) \/ JudgeFails(n) \/ JudgeRaises(n)

BenchNext ==
  (\E n \in Numbers : SampleStep(n)) \/ AppendRow \/ CollectRow \/ WriteFile \/ Return \/ Killed

BenchSpec == BenchInit /\ [][BenchNext]_benchVars

-----------------------------------------------------------------------------
Reasons ==
  {"", "judge", "graceful_failure", "unsupported_image"}
    \cup UNION {{Labels[e][i] : i \in DOMAIN Labels[e]} : e \in Benches}

ResultRow ==
  [outcome : {"none", "answered", "unsupported_image", "graceful_failure"},
   hard : BOOLEAN, judge : {"none", "pass", "veto", "error"}, final : BOOLEAN, reason : Reasons]

SampleState == [at : {"waiting", "asking", "judging", "done"}, row : ResultRow]

BenchTypeOK ==
  /\ bench \in [engine : Benches, judge : BOOLEAN]
  /\ sample \in [Numbers -> SampleState]
  /\ results \in Seq(ResultRow) /\ Len(results) <= Len(Samples)
  /\ batch \in {"running", "writing", "returned", "raised", "killed"}

(* Each row of the list is the one of its sample, in the order of the      *)
(* samples, whichever order they were answered in.                         *)
RowsInOrder ==
  \A n \in DOMAIN results : sample[n].at = "done" /\ results[n] = sample[n].row

(* A sample that failed or broke a rule shows, whatever the judge says of  *)
(* it: the judge and its failure can only take a pass away or leave it.  A *)
(* pass gives no reason, and what does not pass gives one, unless the      *)
(* judge kept it to itself.  A picture that is refused passes only where   *)
(* that is expected.                                                       *)
RowsTrue ==
  \A n \in Numbers :
    LET row == sample[n].row
    IN  /\ row.final => row.hard /\ row.reason = "" /\ row.judge # "veto"
        /\ sample[n].at = "done" /\ ~row.final => row.reason # "" \/ row.judge = "veto"
        /\ row.outcome = "graceful_failure" => ~row.final /\ row.judge = "none"
        /\ row.outcome = "unsupported_image" =>
             (row.final <=> Samples[n].expected = "unsupported_image")
        /\ row.judge = "error" /\ ~Concurrent => (row.final <=> row.hard)

(* What is put to the judge is what the rules alone have made of it.       *)
DraftsKept ==
  \A n \in Numbers :
    LET row == sample[n].row
    IN  sample[n].at = "judging" =>
          /\ row.outcome = "answered" /\ row.judge = "none"
          /\ ~row.final => row.reason # ""
          /\ ~Concurrent => (row.final <=> row.hard)

(* At most so many calls are under way as the semaphore has places, and no *)
(* sample is overtaken on its way to one.                                  *)
PlacesKept ==
  /\ Cardinality(InFlight) <= Places
  /\ \A n \in Numbers : sample[n].at # "waiting" => \A m \in 1..n : sample[m].at # "waiting"

(* What the file holds are the rows of the list, or what it held before    *)
(* the first of them: only a kill in the middle of a write leaves it       *)
(* empty.  Of the benches in sequence, only the sample done last may be    *)
(* missing; the file of scenes is as it was until all of them are done.    *)
SamplesKept ==
  /\ \/ file = (IF results = <<>> THEN OldRows ELSE results)
     \/ file = <<>> /\ batch \in {"writing", "killed"}
  /\ batch = "writing" => results # <<>>
  /\ ~Concurrent => \A n \in Numbers : sample[n].at # "waiting" => n <= Len(results) + 1
  /\ Concurrent /\ results # <<>> => \A n \in Numbers : sample[n].at = "done"
  /\ batch = "raised" => Concurrent /\ file = OldRows
  /\ batch = "returned" => file = results \/ Samples = <<>>

(* What a bench may be relied on for: its rows tell the truth about the    *)
(* samples, and its file keeps them.                                       *)
BenchInv ==
  BenchTypeOK /\ RowsInOrder /\ RowsTrue /\ DraftsKept /\ PlacesKept /\ SamplesKept
=============================================================================
