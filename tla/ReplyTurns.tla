----------------------------- MODULE ReplyTurns -----------------------------
(***************************************************************************)
(* Text replies: run_reply_turn in                                         *)
(* src/api/modules/orchestration/reply_flow.py, with the retry loop of     *)
(* save_reply_turn in src/api/db/session_db.py around the transaction.     *)
(*                                                                         *)
(* Many replies to one session may be in progress at the same time; each   *)
(* is a coroutine that gives way at every query and every model call.      *)
(***************************************************************************)
EXTENDS ProfileRow

VARIABLE reply   \* reply[r]: how far reply r has got

replyVars == <<reply>>

(***************************************************************************)
(*   generating  the models are at work                                    *)
(*   built       the two messages and the review are ready to be saved     *)
(*   loaded      the transaction is open                                   *)
(*   saved       the transaction has committed                             *)
(*   profiling   the learner profile has been read                         *)
(* and the ends: answered with the session; failed before the commit (the  *)
(* coach, or an error of the database); conflict, when both attempts met a *)
(* constraint; lost, stored but answered with an error.                    *)
(***************************************************************************)
ReplyEnds == {"answered", "failed", "conflict", "lost"}
ReplyPc == {"generating", "built", "loaded", "saved", "profiling"} \cup ReplyEnds

Attempts == 2

ReplyState == [pc : ReplyPc, attempt : 1..Attempts, hasCopy : BOOLEAN, review : ReviewRow]

NewReply == [pc |-> "generating", attempt |-> 1, hasCopy |-> FALSE, review |-> NoReview]

ReplyInit == reply = [r \in Replies |-> NewReply]

ReplyGoes(r, from, to) ==
  /\ reply[r].pc = from
  /\ reply' = [reply EXCEPT ![r].pc = to]

(* The learner's line and the coach's. *)
ReplyBlock(r) ==
  << [role |-> "user", text |-> r, by |-> r],
     [role |-> "assistant", text |-> r, by |-> r] >>

(* The review is built; the learner's latest line is the reply's own.      *)
BuildReply(r, degraded, hasCopy) ==
  reply' = [reply EXCEPT ![r].pc = "built", ![r].hasCopy = hasCopy,
                         ![r].review = BuiltReview(r, <<r>>, degraded, hasCopy)]

(* A slip: the profile is updated as soon as there is feedback.            *)
ProfileBeforeSave(r) ==
  /\ reply[r].pc = "generating"
  /\ \E degraded, summarized \in BOOLEAN :
       BuildReply(r, degraded, ~degraded /\ summarized)
  /\ profile' = IF Member THEN profile \cup {r} ELSE profile
  /\ UNCHANGED <<storeVars, seen>>

(***************************************************************************)
(* The coach has answered.  Feedback that failed is replaced by a          *)
(* placeholder, and then no review copy is asked for; a copy that fails or *)
(* times out is left out.                                                  *)
(***************************************************************************)
GenerateReply(r) ==
  /\ reply[r].pc = "generating"
  /\ \E degraded, summarized \in BOOLEAN :
       BuildReply(r, degraded, ~degraded /\ summarized)
  /\ UNCHANGED <<storeVars, profileVars>>

(* The coach failed or said nothing: the turn is given up, unsaved.        *)
CoachFails(r) ==
  /\ ReplyGoes(r, "generating", "failed")
  /\ UNCHANGED <<storeVars, profileVars>>

BeginSave(r) ==
  /\ ReplyGoes(r, "built", "loaded")
  /\ LoadReplyTurn(r)
  /\ UNCHANGED profileVars

CommitSave(r) ==
  /\ ReplyGoes(r, "loaded", "saved")
  /\ CommitReplyTurn(r, ReplyBlock(r), reply[r].hasCopy, reply[r].review)
  /\ UNCHANGED profileVars

(* A slip: the retry keeps the position that has just been refused.        *)
RetryWithoutReload(r) ==
  /\ reply[r].pc = "loaded"
  /\ TurnViolatesUnique(r, ReplyBlock(r))
  /\ reply[r].attempt < Attempts
  /\ reply' = [reply EXCEPT ![r].attempt = @ + 1]
  /\ Rollback(r)
  /\ UNCHANGED profileVars

(* The first IntegrityError starts a second transaction from scratch.      *)
RetrySave(r) ==
  /\ reply[r].pc = "loaded"
  /\ TurnViolatesUnique(r, ReplyBlock(r))
  /\ reply[r].attempt < Attempts
  /\ reply' = [reply EXCEPT ![r].pc = "built", ![r].attempt = @ + 1]
  /\ Rollback(r)
  /\ UNCHANGED profileVars

(* The second one is answered as a conflict of state.                      *)
GiveUpSave(r) ==
  /\ ReplyGoes(r, "loaded", "conflict")
  /\ TurnViolatesUnique(r, ReplyBlock(r))
  /\ reply[r].attempt = Attempts
  /\ Rollback(r)
  /\ UNCHANGED profileVars

(* Saved and read back; the profile is next.                               *)
ReadReplyProfile(r) ==
  /\ ReplyGoes(r, "saved", "profiling")
  /\ ReadProfile(r)
  /\ UNCHANGED storeVars

WriteReplyProfile(r) ==
  /\ ReplyGoes(r, "profiling", "answered")
  /\ WriteProfile(r)
  /\ UNCHANGED storeVars

(* A visitor has no profile, and a profile that cannot be read or written  *)
(* is let go.                                                              *)
SkipReplyProfile(r) ==
  /\ ReplyGoes(r, "saved", "answered") \/ ReplyGoes(r, "profiling", "answered")
  /\ UNCHANGED <<storeVars, profileVars>>

(* An error of the database or the end of the server before the commit ... *)
ReplyFails(r) ==
  /\ ReplyGoes(r, "built", "failed") \/ ReplyGoes(r, "loaded", "failed")
  /\ Rollback(r)
  /\ UNCHANGED profileVars

(* ... or after it: the acknowledgement of the commit is lost, or the      *)
(* stored session cannot be read back, or the server ends.                 *)
ReplyLoses(r) ==
  /\ ReplyGoes(r, "saved", "lost") \/ ReplyGoes(r, "profiling", "lost")
  /\ UNCHANGED <<storeVars, profileVars>>

ReplyProgress(r) ==
  \/ GenerateReply(r) \/ CoachFails(r)
  \/ BeginSave(r) \/ CommitSave(r) \/ RetrySave(r) \/ GiveUpSave(r)
  \/ ReadReplyProfile(r) \/ WriteReplyProfile(r) \/ SkipReplyProfile(r)

ReplyStep(r) == ReplyProgress(r) \/ ReplyFails(r) \/ ReplyLoses(r)

ReplyEnded(r) == reply[r].pc \in ReplyEnds

=============================================================================
