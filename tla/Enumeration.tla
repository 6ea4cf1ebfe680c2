---------------------------- MODULE Enumeration ----------------------------
(***************************************************************************)
(* Sorting: the rows of a query in their order (HistoryPages), a sequence  *)
(* of levels from low to high (LearnerProfile).                            *)
(***************************************************************************)
EXTENDS Naturals, FiniteSets

(* The members of the finite set S in the strict order R, a set of pairs:  *)
(* each at the place that the number of those before it gives.             *)
Enumerated(S, R) ==
  [j \in 1..Cardinality(S) |->
     CHOOSE s \in S : Cardinality({r \in S : <<r, s>> \in R}) = j - 1]
=============================================================================
