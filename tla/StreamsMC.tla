----------------------------- MODULE StreamsMC -----------------------------
(***************************************************************************)
(* Small instances for TLC of what a streamed reply is made of (the stream *)
(* itself, the calls of the models below it, the readers of its bytes), of *)
(* what is left of it afterwards (the learner's profile, the page of past  *)
(* sessions), and of the benches its prompts are tried on.  One of them    *)
(* moves at a time: they share no state, and ReplyStreams has what it      *)
(* makes of a call as a choice.                                            *)
(***************************************************************************)
EXTENDS ReplyStreamsMC, ModelCalls, StreamFrames, LearnerProfile, HistoryPages, Evaluation

(* Events as they are sent to the two readers; "w" takes two bytes.        *)
Sends(kind, text) == [kind |-> kind, text |-> text]

SmallScripts ==
  [provider |->
     { << Sends("delta", <<"a", "w">>), Sends("delta", <<"w">>), Sends("done", <<>>) >>,
       << Sends("delta", <<"w">>), Sends("delta", <<"a">>) >> },
   browser |->
     { << Sends("feedback", <<"w">>), Sends("delta", <<"w", "a">>), Sends("session", <<"a", "w">>) >>,
       << Sends("delta", <<"w">>), Sends("error", <<"w">>) >> }]

(* Feedback: an error twice, one outside the closed set, and no level.     *)
Says(scene, errors, level) == [scene |-> scene, errors |-> errors, level |-> level]

Cafe   == Says("cafe", <<"tense", "odd">>, 1)
Gym    == Says("gym", <<"tense", "tense">>, 3)
Street == Says("street", <<"article">>, 2)
Quiet  == Says("cafe", <<>>, 0)

SmallSignals == {Cafe, Gym, Street, Quiet}
SmallPasts == {<<>>, <<Cafe, Gym, Street>>}

(* Three samples, the second one there to be refused.                      *)
ThreeSamples ==
  << [tokens |-> 3, expected |-> "answered"],
     [tokens |-> 4, expected |-> "unsupported_image"],
     [tokens |-> 4, expected |-> "answered"] >>

(* Of each engine a good answer and some that break one rule or two, at    *)
(* the bounds of the numbers.                                              *)
SmallOutputs ==
  LET said == [foreign |-> FALSE, words |-> 80, questions |-> 2, meta |-> FALSE, echoes |-> FALSE]
      notes ==
        [errors |-> 3, sound |-> TRUE, quoted |-> TRUE, chars |-> 320, lines |-> 3, named |-> TRUE,
         blank |-> FALSE, sentences |-> 2, foreign |-> FALSE, useful |-> 4, phrases |-> TRUE]
      copy == [chinese |-> TRUE, fits |-> TRUE, leaksId |-> FALSE, unrelated |-> FALSE]
      picture == [meta |-> FALSE, opener |-> 20, role |-> 4, scene |-> TRUE, anchors |-> TRUE,
                  vocab |-> TRUE, valuable |-> TRUE, confidence |-> 65]
  IN  [coach |-> {said, [said EXCEPT !.echoes = TRUE],
                  [said EXCEPT !.words = 0, !.questions = 0], [said EXCEPT !.words = 81]},
       feedback |-> {notes, [notes EXCEPT !.errors = 0, !.lines = 0, !.chars = 321],
                     [notes EXCEPT !.quoted = FALSE, !.named = FALSE],
                     [notes EXCEPT !.useful = 5]},
       review |-> {copy, [copy EXCEPT !.fits = FALSE],
                   [copy EXCEPT !.chinese = FALSE, !.unrelated = TRUE]},
       scene |-> {picture, [picture EXCEPT !.confidence = 64],
                  [picture EXCEPT !.opener = 21], [picture EXCEPT !.anchors = FALSE]}]

OneOldRow == << [outcome |-> "answered", hard |-> TRUE, judge |-> "pass",
                 final |-> TRUE, reason |-> ""] >>

VARIABLE part

partVars == <<vars, callVars, frameVars, learnerVars, pageVars, benchVars, part>>

PartInit ==
  /\ part \in {"stream", "calls", "frames", "profile", "pages", "bench"}
  /\ Init /\ CallsInit /\ FramesInit /\ LearnerInit /\ PagesInit /\ BenchInit
  /\ part # "calls" => engine = "coach" /\ real = {"mock"}
  /\ part # "frames" => /\ sent = << Sends("delta", <<"w">>), Sends("error", <<"w">>) >>
                        /\ unread = Encoded(sent, <<>>)
  /\ part # "profile" => counted = <<>>
  /\ part # "pages" => touched = [s \in Sessions |-> 0]
  /\ part # "bench" => bench = [engine |-> "coach", judge |-> FALSE]

PartNext ==
  /\ UNCHANGED part
  /\ \/ part = "stream" /\ Next
     \/ part = "calls" /\ CallsNext
     \/ part = "frames" /\ FramesNext
     \/ part = "profile" /\ LearnerNext
     \/ part = "pages" /\ PagesNext
     \/ part = "bench" /\ BenchNext
     \/ part # "stream" /\ UNCHANGED partVars
  /\ part # "stream" => UNCHANGED vars
  /\ part # "calls" => UNCHANGED callVars
  /\ part # "frames" => UNCHANGED frameVars
  /\ part # "profile" => UNCHANGED learnerVars
  /\ part # "pages" => UNCHANGED pageVars
  /\ part # "bench" => UNCHANGED benchVars

PartSpec == PartInit /\ [][PartNext]_partVars /\ Fairness
=============================================================================
