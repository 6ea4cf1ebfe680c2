----------------------------- MODULE ProfileRow -----------------------------
(***************************************************************************)
(* The learner profile row of the session's owner and the two halves of    *)
(* its update after a turn: update_for_turn in                             *)
(* src/api/modules/orchestration/profile_branch.py.  The read and the      *)
(* write are different transactions, so concurrent turns can lose each     *)
(* other's contribution (accepted by the comment there).                   *)
(*                                                                         *)
(* What a turn adds is abstracted to the turn itself.                      *)
(***************************************************************************)
EXTENDS SessionStore

CONSTANT Member   \* TRUE: the owner is a signed-in user, FALSE: a visitor

ASSUME MemberAssumption == Member \in BOOLEAN

VARIABLES
  profile,       \* the turns the stored profile has counted
  seen           \* seen[t]: the profile that turn t has read and will add to

profileVars == <<profile, seen>>

ProfileInit ==
  /\ profile = {}
  /\ seen = [t \in Turns |-> {}]

(* Profiles are kept for signed-in users only.                             *)
ReadProfile(t) ==
  /\ Member
  /\ seen' = [seen EXCEPT ![t] = profile]
  /\ UNCHANGED profile

(* The whole row is replaced by what was read plus this turn.              *)
WriteProfile(t) ==
  /\ profile' = seen[t] \cup {t}
  /\ UNCHANGED seen

=============================================================================
