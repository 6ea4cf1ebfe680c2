----------------------------- MODULE ModelCalls -----------------------------
(***************************************************************************)
(* One call of an engine to its models: the primary provider, retries with *)
(* a backoff, then the fallback provider, within a deadline.               *)
(*                                                                         *)
(*   the chain of attempts  src/api/integrations/llm/resilience.py         *)
(*   the providers          src/api/integrations/llm/runtime.py            *)
(*   the engines            src/api/modules/coach_engine/agent.py,         *)
(*                          feedback_engine/agent.py, scene_engine/agent.py, *)
(*                          session_engine/review_summarizer.py            *)
(*   the HTTP client        src/api/integrations/llm/openai.py,            *)
(*                          src/api/integrations/llm/streaming.py          *)
(*   the usage rows         src/api/db/llm_usage_db.py                     *)
(*                                                                         *)
(* Time passes inside the calls and the sleeps only.                       *)
(***************************************************************************)
EXTENDS Naturals, Sequences, FiniteSets

CONSTANTS
  Engines,    \* of "coach", "stream", "feedback", "review" and "scene"
  Retries,    \* llm_max_retries_per_provider
  Backoff,    \* llm_retry_backoff_seconds
  Deadline,   \* llm_request_deadline_seconds, 0 for none
  Timeout,    \* the longest that a provider's call may take
  DeltasKept  \* deltas of a stream that are told apart (a bound)

ASSUME CallsAssumption ==
  /\ Engines \subseteq {"coach", "stream", "feedback", "review", "scene"}
  /\ {Retries, Backoff, Deadline, DeltasKept} \subseteq Nat /\ Timeout \in Nat \ {0}

VARIABLES
  engine,    \* which engine calls
  real,      \* the slots with a real provider; mock runtime: {"mock"}
  elapsed,   \* since the chain began
  call,      \* where the chain is
  failures,  \* the failures it has collected
  deltas,    \* what has been passed on of an open stream
  usage,     \* usage rows: on their way, written, lost
  billed,    \* history: completions that came with a usage, and those of
             \* them that had no choices
  starts     \* history: when each call began

callVars == <<engine, real, elapsed, call, failures, deltas, usage, billed, starts>>

Ended == {"answered", "raised", "cancelled"}

(* resolve_engine_providers: the fallback slot alone is promoted, and used *)
(* once; two mocks are two providers.                                      *)
ProviderCount == IF real = {"mock"} THEN 2 ELSE Cardinality(real)

CallsInit ==
  /\ engine \in Engines
  /\ real \in (SUBSET {"primary", "fallback"})
       \cup (IF engine \in {"feedback", "review"} THEN {} ELSE {{"mock"}})
  /\ elapsed = 0
  /\ call = [pc |-> IF real = {} THEN "raised" ELSE "next",
             attempt |-> 1, retry |-> 0, response |-> "none",
             error |-> IF real = {} THEN "configuration" ELSE "none"]
  /\ failures = <<>>
  /\ deltas = 0
  /\ usage = [sent |-> 0, rows |-> 0, lost |-> 0]
  /\ billed = [calls |-> 0, choiceless |-> 0]
  /\ starts = <<>>

-----------------------------------------------------------------------------
(* What a provider may come back with (external).  A garbled answer is a   *)
(* text, but not the JSON asked for; a choiceless one is well formed but   *)
(* has no choices, an empty one a choice without a text; a broken one is   *)
(* not JSON at all.  A gateway may answer a request for a stream with the  *)
(* whole text.                                                             *)
Responses ==
  IF real = {"mock"} THEN {"text"}
  ELSE {"text", "empty", "choiceless", "broken", "status", "transport"}
         \cup (IF engine = "stream" THEN {"frames"} ELSE {})
         \cup (IF engine \in {"feedback", "review", "scene"} THEN {"garbled"} ELSE {})
         \cup (IF engine = "scene" THEN {"unfit"} ELSE {})

(* What has to be paid for.  A stream of frames tells it at its end.       *)
IsBilled(response) ==
  real # {"mock"} /\ response \in {"text", "empty", "choiceless", "garbled", "unfit"}

BilledWith(response) ==
  IF ~IsBilled(response) THEN billed
  ELSE [calls      |-> billed.calls + 1,
        choiceless |-> billed.choiceless + (IF response = "choiceless" THEN 1 ELSE 0)]

(* The usage is recorded before the text is looked at, but not before the  *)
(* choices are.                                                            *)
IsRecorded(response) ==
  real # {"mock"} /\ response \in {"text", "empty", "garbled", "unfit"}

(* Which error an engine makes of it, if any.                              *)
ErrorOf(response) ==
  IF response \in {"text", "frames"} THEN "none"
  ELSE IF response = "unfit" THEN "unsupported"
  ELSE IF engine \in {"feedback", "review"}
    THEN IF response = "status" THEN "status" ELSE "value"
    ELSE "provider"

Retryable(error) == error \in {"provider", "value"}

DeadlineReached == Deadline > 0 /\ elapsed >= Deadline

NextProvider(c) == [c EXCEPT !.pc = "next", !.attempt = @ + 1, !.retry = 0]

-----------------------------------------------------------------------------
(* A slip: the deadline is not looked at between providers.                *)
BeginAlways ==
  /\ call.pc = "next"
  /\ IF call.attempt > ProviderCount
       THEN call' = [call EXCEPT !.pc = "exhausted"] /\ UNCHANGED starts
       ELSE call' = [call EXCEPT !.pc = "calling"] /\ starts' = Append(starts, elapsed)
  /\ UNCHANGED <<engine, real, elapsed, failures, deltas, usage, billed>>

Begin ==
  /\ call.pc = "next"
  /\ IF call.attempt > ProviderCount \/ DeadlineReached
       THEN call' = [call EXCEPT !.pc = "exhausted"] /\ UNCHANGED starts
       ELSE call' = [call EXCEPT !.pc = "calling"] /\ starts' = Append(starts, elapsed)
  /\ UNCHANGED <<engine, real, elapsed, failures, deltas, usage, billed>>

(* The request is posted; its answer, or the opened stream, comes back.    *)
Respond ==
  /\ call.pc = "calling"
  /\ \E response \in Responses, took \in 0..Timeout :
       /\ elapsed' = elapsed + took
       /\ call' = [call EXCEPT !.pc = "heard", !.response = response]
       /\ billed' = BilledWith(response)
       /\ usage' = IF IsRecorded(response) THEN [usage EXCEPT !.sent = @ + 1] ELSE usage
  /\ UNCHANGED <<engine, real, failures, deltas, starts>>

Succeed ==
  /\ call.pc = "heard" /\ ErrorOf(call.response) = "none"
  /\ call' = [call EXCEPT !.pc = IF engine = "stream" THEN "open" ELSE "answered"]
  /\ UNCHANGED <<engine, real, elapsed, failures, deltas, usage, billed, starts>>

(* Retry, give this provider up, or both for want of time.                 *)
Fail ==
  LET error == ErrorOf(call.response)
  IN  /\ call.pc = "heard" /\ error # "none"
      /\ failures' = Append(failures, [by |-> call.attempt, error |-> error])
      /\ call' = IF Retryable(error) /\ ~DeadlineReached /\ call.retry < Retries
                   THEN [call EXCEPT !.pc = "backoff"]
                   ELSE NextProvider(call)
      /\ UNCHANGED <<engine, real, elapsed, deltas, usage, billed, starts>>

(* After the sleep the call begins, without another look at the clock.     *)
Retry ==
  /\ call.pc = "backoff"
  /\ elapsed' = elapsed + Backoff * (call.retry + 1)
  /\ call' = [call EXCEPT !.pc = "calling", !.retry = @ + 1]
  /\ starts' = Append(starts, elapsed')
  /\ UNCHANGED <<engine, real, failures, deltas, usage, billed>>

Errors == {failures[i].error : i \in DOMAIN failures}

(* _compose_scene_failures; the others raise the last error, as one of the *)
(* provider if it is not one of the application's own.                     *)
FinalError == IF Errors = {"unsupported"} THEN "unsupported" ELSE "provider"

Exhaust ==
  /\ call.pc = "exhausted"
  /\ call' = [call EXCEPT !.pc = "raised", !.error = FinalError]
  /\ UNCHANGED <<engine, real, elapsed, failures, deltas, usage, billed, starts>>

-----------------------------------------------------------------------------
(* The open stream: deltas, then perhaps a usage, then the end.            *)
Delta ==
  /\ call.pc = "open"
  /\ deltas < DeltasKept /\ deltas' = deltas + 1
  /\ UNCHANGED <<engine, real, elapsed, call, failures, usage, billed, starts>>

StreamEnds ==
  /\ call.pc = "open"
  /\ call' = [call EXCEPT !.pc = "answered"]
  /\ \E told \in (IF call.response = "frames" THEN BOOLEAN ELSE {FALSE}) :
       /\ usage' = IF told THEN [usage EXCEPT !.sent = @ + 1] ELSE usage
       /\ billed' = IF told THEN [billed EXCEPT !.calls = @ + 1] ELSE billed
  /\ UNCHANGED <<engine, real, elapsed, failures, deltas, starts>>

StreamBreaks ==
  /\ call.pc = "open" /\ call.response = "frames"
  /\ call' = [call EXCEPT !.pc = "raised", !.error = "transport"]
  /\ UNCHANGED <<engine, real, elapsed, failures, deltas, usage, billed, starts>>

(* The caller has gone: the call, the sleep or the stream is cancelled.    *)
CancelCall ==
  /\ call.pc \in {"calling", "backoff", "open"}
  /\ call' = [call EXCEPT !.pc = "cancelled"]
  /\ UNCHANGED <<engine, real, elapsed, failures, deltas, usage, billed, starts>>

(* The row is written by a thread of its own; a failure there is logged.   *)
WriteUsage ==
  /\ usage.sent > 0
  /\ \E column \in {"rows", "lost"} :
       usage' = [usage EXCEPT !.sent = @ - 1, ![column] = @ + 1]
  /\ UNCHANGED <<engine, real, elapsed, call, failures, deltas, billed, starts>>

ChainStep ==
  \/ Begin \/ Respond \/ Succeed \/ Fail \/ Retry \/ Exhaust
  \/ Delta \/ StreamEnds \/ StreamBreaks

CallsNext == ChainStep \/ CancelCall \/ WriteUsage

CallsSpec == CallsInit /\ [][CallsNext]_callVars

-----------------------------------------------------------------------------
MaxCalls == 2 * (Retries + 1)

CallsTypeOK ==
  /\ engine \in Engines
  /\ call.pc \in {"next", "calling", "heard", "backoff", "exhausted", "open"} \cup Ended
  /\ call.attempt \in 1..3 /\ call.retry \in 0..Retries
  /\ Len(failures) <= MaxCalls /\ Len(starts) <= MaxCalls
  /\ deltas \in 0..DeltasKept

(* How far the chain may go over its budget: a call may begin as late as   *)
(* one backoff after the deadline, and last until its own timeout.         *)
BudgetOverrun ==
  Deadline > 0 => elapsed < Deadline + Backoff * Retries + Timeout

(* The failures of one provider.                                           *)
FailuresOf(p) == {i \in DOMAIN failures : failures[i].by = p}

(* A provider is given up after its last retry, or for an error that would *)
(* come again.                                                             *)
GivenUp(p) ==
  /\ FailuresOf(p) # {}
  /\ \/ Cardinality(FailuresOf(p)) = Retries + 1
     \/ \E i \in FailuresOf(p) :
          (\A j \in FailuresOf(p) : j <= i) /\ ~Retryable(failures[i].error)

(* Nobody gives up early: when the chain fails, each provider has been     *)
(* asked, and as often as its errors were worth it, unless time was up.    *)
FailureEarned ==
  call.pc = "raised" /\ call.error # "configuration" /\ call.error # "transport" =>
    DeadlineReached \/ \A p \in 1..ProviderCount : GivenUp(p)

(* An image is called unfit only if no provider failed for another reason. *)
UnfitMeansUnfit == call.error = "unsupported" => Errors = {"unsupported"}

(* What has been paid for is accounted for, also when the answer could not *)
(* be used, or the row not written: all but the answers without choices.   *)
BilledIsRecorded ==
  usage.sent + usage.rows + usage.lost + billed.choiceless = billed.calls

(* Nothing is asked again once the learner has read the first words.       *)
NoSecondVoice == deltas > 0 => call.pc \in {"open"} \cup Ended

(* What the runs check of a chain of calls, part by part.                  *)
CallsInv ==
  /\ CallsTypeOK
  /\ BudgetOverrun
  /\ FailureEarned
  /\ UnfitMeansUnfit
  /\ BilledIsRecorded
  /\ NoSecondVoice

-----------------------------------------------------------------------------
(* What the documents say and the code does not keep.                      *)

(* "超时后不再发起后续尝试": no attempt begins after the deadline          *)
(* (src/api/integrations/llm/resilience.py, run_llm_with_failover).        *)
NoLateAttempt == Deadline > 0 => \A i \in DOMAIN starts : starts[i] < Deadline

(* The ledger records what each call has consumed (docstring of            *)
(* src/api/db/llm_usage_db.py).                                            *)
EveryCallRecorded == usage.sent + usage.rows + usage.lost = billed.calls
=============================================================================
