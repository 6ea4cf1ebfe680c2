------------------------------ MODULE SceneMC ------------------------------
(***************************************************************************)
(* Small instances of what happens to a picture, for TLC: its upload, and  *)
(* the analysis of its scene.  The two share no state and move one at a    *)
(* time.  Of the analysis there are two instances: one where analyses fail *)
(* and are tried again, and always find the same; and one where processes  *)
(* end as well, and jobs find something else than analyses inline.         *)
(***************************************************************************)
EXTENDS SceneAnalysisMC, MediaUpload

VARIABLE part

partVars == <<vars, mediaVars, part>>

NoRetry == [c \in Clients |-> 0]

OneResult  == INSTANCE SceneAnalysis WITH Results <- CafeOnly, MayBreak <- FALSE
TwoResults == INSTANCE SceneAnalysis WITH Retries <- NoRetry

PartInit ==
  /\ part \in {"failures", "results", "upload"}
  /\ MediaInit
  /\ IF part = "results" THEN TwoResults!Init ELSE OneResult!Init
  /\ part # "failures" => row = NoRow

TwoMinds ==
  /\ \A c \in Clients : client'[c].pc = "storing" => client'[c].found = Cafe
  /\ \A j \in Jobs : job'[j].pc = "saving" => job'[j].want = Ready(Bar)

PartNext ==
  /\ UNCHANGED part
  /\ \/ part = "failures" /\ OneResult!Next /\ UNCHANGED mediaVars
     \/ part = "results" /\ TwoResults!Next /\ TwoMinds /\ UNCHANGED mediaVars
     \/ part = "upload" /\ (MediaNext \/ UNCHANGED mediaVars) /\ UNCHANGED vars

(* The fairness of SceneAnalysis, where nothing breaks.                    *)
PartSpec == PartInit /\ [][PartNext]_partVars /\ (part = "failures" => OneResult!Fairness)

(* There a row does not stay pending: a client that polls sees an end.     *)
PendingEnds == part = "failures" => OneResult!PendingResolved
=============================================================================
