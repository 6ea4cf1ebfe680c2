------------------------------ MODULE TurnLog ------------------------------
(***************************************************************************)
(* What the message history of one practice session promises its clients,  *)
(* whatever the database and the interleaving of requests do:              *)
(*                                                                         *)
(*   - the history only grows, by whole blocks, each the contribution of   *)
(*     one request, and no request contributes twice;                      *)
(*   - a request that was refused contributed nothing, and a request is    *)
(*     answered only after its block has been stored;                      *)
(*   - a request whose block is stored may still lose its answer.          *)
(*                                                                         *)
(* SessionService implements this module.                                  *)
(***************************************************************************)
EXTENDS Sequences

CONSTANTS
  Requests,      \* the requests that may add to the history
  Blocks,        \* Blocks[q]: the sequences of messages q may contribute
  First          \* the history of a new session: its opening line

VARIABLES
  log,           \* the messages of the session, in order
  outcome        \* outcome[q]: what became of request q

logVars == <<log, outcome>>

Outcome == {"open", "stored", "answered", "refused", "unanswered"}

Init ==
  /\ log = <<First>>
  /\ outcome = [q \in Requests |-> "open"]

Becomes(q, from, to) ==
  /\ outcome[q] = from
  /\ outcome' = [outcome EXCEPT ![q] = to]

(* The whole block of q is appended in one step. *)
Store(q) ==
  /\ Becomes(q, "open", "stored")
  /\ \E block \in Blocks[q] : log' = log \o block

(* The client of q learns that nothing was stored. *)
Refuse(q) == Becomes(q, "open", "refused") /\ UNCHANGED log

Answer(q) == Becomes(q, "stored", "answered") /\ UNCHANGED log

(* The block of q is stored, and its client is told of an error. *)
LoseAnswer(q) == Becomes(q, "stored", "unanswered") /\ UNCHANGED log

Next == \E q \in Requests : Store(q) \/ Refuse(q) \/ Answer(q) \/ LoseAnswer(q)

Spec == Init /\ [][Next]_logVars
=============================================================================
