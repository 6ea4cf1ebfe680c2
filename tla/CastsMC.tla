------------------------------ MODULE CastsMC ------------------------------
(***************************************************************************)
(* Small instances of SessionService for TLC, with the requests that meet  *)
(* in each: a reply and two closeouts, or a closeout and two bootstraps.   *)
(* The rest of them never begins.                                          *)
(***************************************************************************)
EXTENDS SessionServiceMC

CONSTANTS r1, c1, c2, b1, b2

VARIABLE scenario

castVars == <<vars, scenario>>

Cast ==
  [reviews |-> {r1, c1, c2}, ends |-> {r1, c1, c2}, overlap |-> {c1, b1, b2}][scenario]

CastEnded ==
  /\ \A r \in Replies \cap Cast : ReplyEnded(r)
  /\ \A c \in Closeouts \cap Cast : CloseoutEnded(c)
  /\ \A b \in Bootstraps \cap Cast : BootstrapEnded(b)

CastInit == Init /\ scenario \in {"reviews", "ends", "overlap"}

(* Where only the end of the requests is looked at, every review has the   *)
(* feedback of its turn: what is in the rows stops nobody.                 *)
FeedbackGiven ==
  /\ \A r \in Replies : reply'[r].review.updatedAt = r => reply'[r].review.feedback = r
  /\ \A c \in Closeouts : closeout'[c].review.updatedAt = c => closeout'[c].review.feedback = c

CastNext ==
  /\ UNCHANGED scenario
  /\ \/ \E r \in Replies \cap Cast : ReplyStep(r) /\ UNCHANGED voiceVars
     \/ \E c \in Closeouts \cap Cast : CloseoutStep(c) /\ UNCHANGED replyVars
     \/ \E b \in Bootstraps \cap Cast : BootstrapStep(b) /\ UNCHANGED replyVars
     \/ CastEnded /\ UNCHANGED vars
  /\ scenario = "ends" => FeedbackGiven

(* The event loop runs every coroutine that is ready; queries and model    *)
(* calls come back, if only with a timeout.                                *)
CastFairness ==
  /\ \A r \in Replies :
       WF_castVars(scenario = "ends" /\ ReplyProgress(r) /\ UNCHANGED <<voiceVars, scenario>>)
  /\ \A c \in Closeouts :
       WF_castVars(scenario = "ends" /\ CloseoutProgress(c) /\ UNCHANGED <<replyVars, scenario>>)

CastSpec == CastInit /\ [][CastNext]_castVars /\ CastFairness

(* Every reply and every closeout comes to an end, although their commits  *)
(* wait for the row lock and any transaction may be rolled back.           *)
EveryRequestEnds == scenario = "ends" => <>CastEnded
=============================================================================
