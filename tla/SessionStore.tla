---------------------------- MODULE SessionStore ----------------------------
(***************************************************************************)
(* The rows of one practice session and the transactions that change them: *)
(* src/api/db/session_db.py on PostgreSQL (READ COMMITTED).                *)
(*                                                                         *)
(* A transaction reads rows when it opens and writes them when SQLAlchemy  *)
(* flushes, just before COMMIT.  Whatever another transaction commits in   *)
(* between is not seen, except by a unique constraint.  Each transaction   *)
(* is therefore two steps or more: Load... records in tx what it has read, *)
(* Commit... applies its writes to the rows as they are by then.  The      *)
(* reads of one Load step are separate queries in the code: they may see   *)
(* different commits, but one that appends messages in between makes the   *)
(* transaction fail on (session_id, position) whichever of them saw it.    *)
(*                                                                         *)
(* SQLAlchemy leaves out of an UPDATE the columns whose new value equals   *)
(* the one it loaded.  Unless says so.                                     *)
(*                                                                         *)
(* Time stamps, display names and what the models have written of a turn   *)
(* are abstracted to the turn they come from, message texts to members of  *)
(* a set.  Columns that are the same whatever is written are left out.     *)
(***************************************************************************)
EXTENDS Integers, Sequences, FiniteSetsExt

CONSTANTS
  Replies,       \* text reply requests
  Closeouts,     \* voice/complete requests
  Bootstraps,    \* voice/bootstrap requests
  Words,         \* texts of transcript lines and of the opener
  Opener,        \* the opening line of the session
  NoOne          \* no request

Turns    == Replies \cup Closeouts
Requests == Turns \cup Bootstraps
Author   == Turns \cup {NoOne}
Text     == Words \cup Replies

ASSUME StoreAssumption ==
  /\ Replies \cap Closeouts = {}
  /\ Turns \cap Bootstraps = {}
  /\ NoOne \notin Requests
  /\ Opener \in Words
  /\ Words \cap Replies = {}

Message == [role : {"user", "assistant"}, text : Text, by : Author]
SessionRow == [names : Author, updatedAt : Author]

(* The highlight of a review is its copy's or quotes a line of the learner; *)
(* the next try is its copy's, or NoOne: the scene's; the feedback is the  *)
(* model's, or NoOne: the placeholder.                                     *)
Quote     == {NoOne} \cup {<<text>> : text \in Text}
Highlight == Turns \cup Quote
ReviewRow == [highlight : Highlight, nextTry : Author, feedback : Author, updatedAt : Author]

FactRow == [status : {"none", "active", "completed"}, generation : Nat]
TxView  == [next : Nat, review : ReviewRow, head : SessionRow, fact : FactRow]

VARIABLES
  messages,      \* message rows: from position to message
  head,          \* session row: turn its display names / updated_at are from
  review,        \* review row, updatedAt is NoOne when absent
  fact,          \* voice fact row, status "none" when absent
  rowLock,       \* the request whose open transaction has updated the session row
  tx,            \* tx[q]: what the open transaction of request q has read
  stored         \* history: the turns whose transaction has committed

storeVars == <<messages, head, review, fact, rowLock, tx, stored>>

NoHead == [names |-> NoOne, updatedAt |-> NoOne]
NoFact == [status |-> "none", generation |-> 0]
NoReview == [highlight |-> NoOne, nextTry |-> NoOne, feedback |-> NoOne, updatedAt |-> NoOne]
NoView == [next |-> 0, review |-> NoReview, head |-> NoHead, fact |-> NoFact]
OpeningMessage == [role |-> "assistant", text |-> Opener, by |-> NoOne]

(* The session has just been created by start, with its opening line.      *)
StoreInit ==
  /\ messages = [i \in {0} |-> OpeningMessage]
  /\ head = NoHead
  /\ review = NoReview
  /\ fact = NoFact
  /\ rowLock = NoOne
  /\ tx = [q \in Requests |-> NoView]
  /\ stored = {}

-----------------------------------------------------------------------------
(* Reads.                                                                  *)

MaxPosition == Max(DOMAIN messages \cup {-1})

(* The messages in the order of their positions. *)
LoadMessages == [i \in 1..(MaxPosition + 1) |-> messages[i - 1]]

(* An UPDATE writes the column only when it is to change what was loaded.  *)
Unless(current, loaded, new) == IF new = loaded THEN current ELSE new

-----------------------------------------------------------------------------
(* The unique constraints: (session_id, position) of messages and the      *)
(* primary keys of the review and voice fact rows.                         *)

Positions(first, block) == first..(first + Len(block) - 1)

PositionTaken(q, block) == Positions(tx[q].next, block) \cap DOMAIN messages # {}
ReviewInserted(q) == tx[q].review.updatedAt = NoOne /\ review.updatedAt # NoOne
FactInserted(q) == tx[q].fact.status = "none" /\ fact.status # "none"

(* A slip: the message table has no unique constraint.                     *)
OnlyReviewUnique(q, block) == block # <<>> /\ ReviewInserted(q)

TurnViolatesUnique(q, block) == PositionTaken(q, block) \/ ReviewInserted(q)

(* A slip: the lines of the block are added last first.                    *)
InsertReversed(q, block) ==
  LET new == Positions(tx[q].next, block)
  IN  [i \in DOMAIN messages \cup new |->
         IF i \in new THEN block[Len(block) - (i - tx[q].next)] ELSE messages[i]]

(* The message table once transaction q has added block to it. *)
Insert(q, block) ==
  LET new == Positions(tx[q].next, block)
  IN  [i \in DOMAIN messages \cup new |->
         IF i \in new THEN block[i - tx[q].next + 1] ELSE messages[i]]

-----------------------------------------------------------------------------
(* The review that is built for turn t: of the model's copy if there is    *)
(* one, else of templates, one of which quotes the learner's latest line.  *)
BuiltReview(t, quote, degraded, hasCopy) ==
  [highlight |-> IF hasCopy THEN t ELSE quote,
   nextTry   |-> IF hasCopy THEN t ELSE NoOne,
   feedback  |-> IF degraded THEN NoOne ELSE t,
   updatedAt |-> t]

(* The review row after transaction q has written new over what it loaded; *)
(* no other turn has the same time.                                        *)
UpdatedReview(q, new) ==
  [highlight |-> Unless(review.highlight, tx[q].review.highlight, new.highlight),
   nextTry   |-> Unless(review.nextTry, tx[q].review.nextTry, new.nextTry),
   feedback  |-> Unless(review.feedback, tx[q].review.feedback, new.feedback),
   updatedAt |-> new.updatedAt]

-----------------------------------------------------------------------------
(* save_reply_turn: one attempt.                                           *)

LoadReplyTurn(r) ==
  /\ tx' = [tx EXCEPT ![r].next = MaxPosition + 1,
                      ![r].review = review]
  /\ UNCHANGED <<messages, head, review, fact, rowLock, stored>>

(* A slip: without a review copy no review is saved.                       *)
CommitWithoutReview(r, block, hasCopy, new) ==
  /\ rowLock = NoOne
  /\ ~TurnViolatesUnique(r, block)
  /\ messages' = Insert(r, block)
  /\ head' = [names |-> IF hasCopy THEN r ELSE head.names, updatedAt |-> r]
  /\ review' = IF hasCopy THEN UpdatedReview(r, new) ELSE review
  /\ stored' = stored \cup {r}
  /\ UNCHANGED <<fact, rowLock, tx>>

(* The flush updates the session row, so it waits for the row's lock.      *)
CommitReplyTurn(r, block, hasCopy, new) ==
  /\ rowLock = NoOne
  /\ ~TurnViolatesUnique(r, block)
  /\ messages' = Insert(r, block)
  /\ head' = [names |-> IF hasCopy THEN r ELSE head.names, updatedAt |-> r]
  /\ review' = UpdatedReview(r, new)
  /\ stored' = stored \cup {r}
  /\ UNCHANGED <<fact, rowLock, tx>>

-----------------------------------------------------------------------------
(* finalize_voice_session: the session row is loaded, updated from the     *)
(* caller's snapshot and flushed; then the other rows are read; then the   *)
(* rest is written and everything commits.                                 *)

LoadHead(c) ==
  /\ tx' = [tx EXCEPT ![c].head = head]
  /\ UNCHANGED <<messages, head, review, fact, rowLock, stored>>

(* The first flush.  The row is locked if any column is to change; the     *)
(* uncommitted values stay invisible to everyone else.                     *)
FlushHead(c, snapshot) ==
  /\ IF snapshot = tx[c].head
       THEN UNCHANGED rowLock
       ELSE rowLock = NoOne /\ rowLock' = c
  /\ UNCHANGED <<messages, head, review, fact, tx, stored>>

LoadFinalize(c) ==
  /\ tx' = [tx EXCEPT ![c] = [next |-> MaxPosition + 1, review |-> review,
                              head |-> @.head, fact |-> fact]]
  /\ UNCHANGED <<messages, head, review, fact, rowLock, stored>>

FinalizeViolatesUnique(c, block) == TurnViolatesUnique(c, block) \/ FactInserted(c)

(* A slip: completing the voice session clears its generation.             *)
FactForgettingGeneration(q, new) ==
  [status     |-> Unless(fact.status, tx[q].fact.status, new.status),
   generation |-> IF new.status = "completed" THEN 0 ELSE new.generation]

(* The fact row after transaction q has written new over what it loaded.   *)
UpdatedFact(q, new) ==
  [status     |-> Unless(fact.status, tx[q].fact.status, new.status),
   generation |-> Unless(fact.generation, tx[q].fact.generation, new.generation)]

(* A slip: the time of the session row stays that of the snapshot.         *)
CommitKeepingTime(c, block, snapshot, generation, new) ==
  /\ rowLock \in {NoOne, c}
  /\ ~FinalizeViolatesUnique(c, block)
  /\ messages' = Insert(c, block)
  /\ head' = [names     |-> Unless(head.names, tx[c].head.names, snapshot.names),
              updatedAt |-> Unless(head.updatedAt, tx[c].head.updatedAt, snapshot.updatedAt)]
  /\ review' = UpdatedReview(c, new)
  /\ fact' = UpdatedFact(c, [status |-> "completed", generation |-> generation])
  /\ rowLock' = NoOne
  /\ stored' = stored \cup {c}
  /\ UNCHANGED tx

CommitFinalize(c, block, snapshot, generation, new) ==
  /\ rowLock \in {NoOne, c}
  /\ ~FinalizeViolatesUnique(c, block)
  /\ messages' = Insert(c, block)
  /\ head' = [names     |-> Unless(head.names, tx[c].head.names, snapshot.names),
              updatedAt |-> c]
  /\ review' = UpdatedReview(c, new)
  /\ fact' = UpdatedFact(c, [status |-> "completed", generation |-> generation])
  /\ rowLock' = NoOne
  /\ stored' = stored \cup {c}
  /\ UNCHANGED tx

-----------------------------------------------------------------------------
(* save_voice_session_fact, called by a bootstrap.                         *)

LoadFact(b) ==
  /\ tx' = [tx EXCEPT ![b].fact = fact]
  /\ UNCHANGED <<messages, head, review, fact, rowLock, stored>>

CommitFact(b, generation) ==
  /\ ~FactInserted(b)
  /\ fact' = UpdatedFact(b, [status |-> "active", generation |-> generation])
  /\ UNCHANGED <<messages, head, review, rowLock, tx, stored>>

-----------------------------------------------------------------------------
(* A slip: a failed transaction is left open.                              *)
KeepOpen(q) == UNCHANGED storeVars

(* Any transaction may be rolled back: by a constraint, by a deadlock that *)
(* PostgreSQL breaks, or with its connection.                              *)
Rollback(q) ==
  /\ rowLock' = IF rowLock = q THEN NoOne ELSE rowLock
  /\ UNCHANGED <<messages, head, review, fact, tx, stored>>

=============================================================================
