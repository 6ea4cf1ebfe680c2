-------------------------- MODULE SessionServiceMC --------------------------
(***************************************************************************)
(* Small instances of SessionService for TLC.                              *)
(***************************************************************************)
EXTENDS SessionService

CONSTANTS silent, hi, coffee, sure

(* A voice conversation: the opener, a question and its answer.            *)
Talk ==
  << [role |-> "assistant", text |-> hi],
     [role |-> "user", text |-> coffee],
     [role |-> "assistant", text |-> sure] >>

(* Every closeout sends the same transcript: the second is a retry.        *)
SameTalk == [c \in Closeouts |-> Talk]

(* The last closeout sends only a line of the assistant.                   *)
TalkAndSilence ==
  [c \in Closeouts |-> IF c = silent THEN SubSeq(Talk, 1, 1) ELSE Talk]
=============================================================================
