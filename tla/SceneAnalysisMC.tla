-------------------------- MODULE SceneAnalysisMC --------------------------
(***************************************************************************)
(* Small instances of SceneAnalysis for TLC.                               *)
(***************************************************************************)
EXTENDS SceneAnalysis

CONSTANTS cafe, bar, street, cups

CONSTANT patient  \* starts again, and its jobs have no retry; the others the
                  \* other way round

(* Results that differ in one column only, as answers of a model may.      *)
Cafe == [k \in Columns |-> IF k = "scene" THEN cafe ELSE cups]
Bar == [k \in Columns |-> IF k = "scene" THEN bar ELSE cups]
CafeAndBar == {Cafe, Bar}
CafeOnly == {Cafe}
Street == [k \in Columns |-> IF k = "scene" THEN street ELSE cups]

OneRestart == [c \in Clients |-> IF c = patient THEN 1 ELSE 0]
OneRetry == [c \in Clients |-> IF c = patient THEN 0 ELSE 1]
=============================================================================
