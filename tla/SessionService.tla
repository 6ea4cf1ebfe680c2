--------------------------- MODULE SessionService ---------------------------
(***************************************************************************)
(* One practice session with everything that may change it while it lives: *)
(* text replies, voice bootstraps and voice closeouts, all in progress at  *)
(* once, against the same rows.                                            *)
(***************************************************************************)
EXTENDS ReplyTurns, VoiceSessions

vars == <<storeVars, profileVars, replyVars, voiceVars>>

Init == StoreInit /\ ProfileInit /\ ReplyInit /\ VoiceInit

AllEnded ==
  /\ \A r \in Replies : ReplyEnded(r)
  /\ \A c \in Closeouts : CloseoutEnded(c)
  /\ \A b \in Bootstraps : BootstrapEnded(b)

(* The service may stand still once every request has come to its end. *)
Finished == AllEnded /\ UNCHANGED vars

Next ==
  \/ \E r \in Replies : ReplyStep(r) /\ UNCHANGED voiceVars
  \/ \E c \in Closeouts : CloseoutStep(c) /\ UNCHANGED replyVars
  \/ \E b \in Bootstraps : BootstrapStep(b) /\ UNCHANGED replyVars
  \/ Finished

Spec == Init /\ [][Next]_vars

-----------------------------------------------------------------------------
TypeOK ==
  /\ DOMAIN messages \in SUBSET Nat
  /\ messages \in [DOMAIN messages -> Message]
  /\ head \in SessionRow
  /\ review \in ReviewRow
  /\ fact \in FactRow
  /\ rowLock \in Author
  /\ tx \in [Requests -> TxView]
  /\ stored \in SUBSET Turns
  /\ profile \in SUBSET Turns
  /\ seen \in [Turns -> SUBSET Turns]
  /\ reply \in [Replies -> ReplyState]
  /\ closeout \in [Closeouts -> CloseoutState]
  /\ bootstrap \in [Bootstraps -> BootstrapState]
  /\ revoked \in SUBSET Bootstraps
  /\ crossed \in BOOLEAN

-----------------------------------------------------------------------------
(* The message history.                                                    *)

(* The positions of a session's messages are 0, 1, 2, ... without a gap,   *)
(* although each request computes its own from a maximum it read before    *)
(* others committed (save_reply_turn, finalize_voice_session).             *)
PositionsContiguous == MaxPosition \in Nat /\ DOMAIN messages = 0..MaxPosition

(* No step changes or removes a message row that is there: saves append.   *)
AppendOnly ==
  [][\A i \in DOMAIN messages : i \in DOMAIN messages' /\ messages'[i] = messages[i]]_vars

PositionsBy(t) == {i \in DOMAIN messages : messages[i].by = t}

(* A reply's two lines are both in the history, next to each other and in  *)
(* order, once and only once, if its save has committed; neither is if it  *)
(* has not, however the save was retried.                                  *)
RepliesWhole ==
  \A r \in Replies :
    IF r \in stored
      THEN \E i \in DOMAIN messages :
             /\ PositionsBy(r) = {i, i + 1}
             /\ messages[i] = ReplyBlock(r)[1]
             /\ messages[i + 1] = ReplyBlock(r)[2]
      ELSE PositionsBy(r) = {}

(* What a client is told about its reply is true: an answered or a lost    *)
(* reply is stored, one that failed or met a conflict is not.              *)
ReplyOutcomeTrue ==
  \A r \in Replies :
    /\ reply[r].pc \in {"saved", "profiling", "answered", "lost"} => r \in stored
    /\ reply[r].pc \in {"failed", "conflict"} => r \notin stored

(* The message history is kept because every open transaction has read a   *)
(* position that is at most the next free one, and because a reply counts  *)
(* as stored from its commit on and a closeout appends only lines of its   *)
(* own: an inductive invariant, from which the history properties follow.  *)
ReadPositionsBounded == \A q \in Requests : tx[q].next \in 0..(MaxPosition + 1)

StoredSinceCommit ==
  \A r \in Replies :
    r \in stored <=> reply[r].pc \in {"saved", "profiling", "answered", "lost"}

FreshLinesOwn ==
  \A c \in Closeouts :
    \A i \in DOMAIN closeout[c].fresh : closeout[c].fresh[i].by = c

HistoryInv ==
  /\ TypeOK
  /\ PositionsContiguous
  /\ ReadPositionsBounded
  /\ StoredSinceCommit
  /\ FreshLinesOwn
  /\ RepliesWhole

(* The retry is there so that one competing write never costs a learner    *)
(* the reply (comment of save_reply_turn): a conflict is answered only     *)
(* when at least two other turns have been stored.                         *)
ConflictNeedsTwoRivals ==
  \A r \in Replies :
    reply[r].pc = "conflict" => \E s, t \in stored : s # t

(* The review row and the session row always carry the time of the same    *)
(* turn: the history page sorts by the one and shows the other.            *)
ReviewMatchesSession == head.updatedAt = review.updatedAt

(* There is a review exactly when a turn has been stored, and whatever it  *)
(* says was built of turns that have been.                                 *)
ReviewOfStoredTurn ==
  /\ review.updatedAt = NoOne <=> stored = {}
  /\ {review.nextTry, review.feedback, review.updatedAt} \subseteq stored \cup {NoOne}
  /\ review.highlight \in stored \cup Quote

(* An UPDATE names the columns that change what was loaded, so two turns   *)
(* could leave a review of which each has written a part.  Appending to    *)
(* the history keeps them apart: a turn that appends a message is refused  *)
(* once another has.  Unless a closeout that appends nothing has been      *)
(* stored, the review is the one that the turn of its time has built.      *)
Silent(c) == c \in stored /\ closeout[c].fresh = <<>>

ReviewOf(t) == IF t \in Replies THEN reply[t].review ELSE closeout[t].review

ReviewOfOneTurn ==
  IF review.updatedAt = NoOne THEN review = NoReview ELSE review = ReviewOf(review.updatedAt)

MixedOnlyBySilence == (\E c \in Closeouts : Silent(c)) \/ ReviewOfOneTurn

(* A turn that is not stored never counts in the learner's profile, and a  *)
(* visitor has no profile.                                                 *)
ProfileFromStoredTurns == profile \subseteq stored /\ (profile # {} => Member)

(* Behind these stands what the turns in progress carry with them: a       *)
(* closeout counts as stored from its commit on and appends an end of the  *)
(* transcript it was sent; a profile that has been read counts stored      *)
(* turns and belongs to a member; and a reply in its second attempt has    *)
(* met a stored turn, so that what it has read since then is out of date   *)
(* only if there is another.                                               *)
ClosedSinceCommit ==
  \A c \in Closeouts :
    c \in stored <=> closeout[c].pc \in {"saved", "profiling", "answered", "lost"}

BlocksOf ==
  [t \in Turns |->
     IF t \in Replies
       THEN {ReplyBlock(t)}
       ELSE {SubSeq(Transcript(t), i, Len(Transcript(t))) :
               i \in 1..(Len(Transcript(t)) + 1)}]

FreshLinesSent == \A c \in Closeouts : closeout[c].fresh \in BlocksOf[c]

ReadProfilesStored ==
  /\ \A t \in Turns : seen[t] \subseteq stored
  /\ (\E r \in Replies : reply[r].pc = "profiling") => Member
  /\ (\E c \in Closeouts : closeout[c].pc = "profiling") => Member

TwoStored == \E s, t \in stored : s # t

RetriesMetRivals ==
  /\ stored = {} => MaxPosition = 0
  /\ \A r \in Replies :
       /\ reply[r].attempt = Attempts => stored # {}
       /\ reply[r].pc = "loaded" =>
            /\ tx[r].next # 0
            /\ reply[r].attempt = Attempts =>
                 tx[r].review.updatedAt # NoOne /\ (tx[r].next <= MaxPosition => TwoStored)

TurnInv ==
  /\ ClosedSinceCommit
  /\ FreshLinesSent
  /\ ReadProfilesStored
  /\ RetriesMetRivals

(* A turn that has no review copy of its own leaves the display names as   *)
(* they are (comments of save_reply_turn and run_voice_closeout).          *)
NamesKept ==
  [][head'.names # head.names => head'.names = head'.updatedAt]_vars

-----------------------------------------------------------------------------
(* The voice fact.                                                         *)

(* Bootstraps and closeouts may overlap.  As long as each has written the  *)
(* generation that follows from the one it replaced, although what else    *)
(* it had loaded of the row may have been out of date, a think token is    *)
(* not accepted again once its bootstrap has been followed by another one  *)
(* or by a closeout.                                                       *)
RevokedStayRevoked == crossed \/ \A b \in revoked : ~Accepts(b)

(* A closeout sets the status and leaves the generation alone (comment of  *)
(* run_voice_closeout).                                                    *)
CloseoutKeepsGeneration ==
  [][stored' \cap Closeouts # stored \cap Closeouts => fact'.generation = fact.generation]_vars

(* Sending the same transcript again does not store a line twice.          *)
NoLineTwice ==
  \A i, j \in DOMAIN messages :
    Signature(messages[i]) = Signature(messages[j]) => i = j

-----------------------------------------------------------------------------
(* The history as its readers see it, and what became of each turn: the    *)
(* refinement of TurnLog.                                                  *)

TurnOutcome(pc, isStored) ==
  CASE pc \in {"failed", "conflict", "invalid"} -> "refused"
    [] pc = "answered" -> "answered"
    [] pc = "lost" -> "unanswered"
    [] isStored /\ pc \notin {"answered", "lost"} -> "stored"
    [] OTHER -> "open"

History == INSTANCE TurnLog WITH
  Requests <- Turns,
  Blocks   <- BlocksOf,
  First    <- OpeningMessage,
  log      <- LoadMessages,
  outcome  <- [t \in Turns |->
                 TurnOutcome(IF t \in Replies THEN reply[t].pc ELSE closeout[t].pc,
                             t \in stored)]

(* The session implements the promise of TurnLog to its clients.           *)
KeepsHistory == History!Spec

=============================================================================
