---------------------------- MODULE ReplyStreams ----------------------------
(***************************************************************************)
(* Text replies that are streamed: stream_reply_turn in                    *)
(* src/api/modules/orchestration/reply_flow.py under _reply_sse_events in  *)
(* src/api/routes/v1/sessions.py.                                          *)
(*                                                                         *)
(* The coroutine of a stream runs next to two tasks of its own, one for    *)
(* the feedback and one for the review.  It hands each event to the        *)
(* response at a yield.  The client may leave at any time:                 *)
(*                                                                         *)
(*   - while the coroutine awaits something, it is cancelled there, and    *)
(*     cancelled again at every later await (the response runs in a task   *)
(*     group whose scope stays cancelled);                                 *)
(*   - while it is suspended at a yield, it is closed from there by the    *)
(*     event loop, in a task that nobody cancels.                          *)
(*                                                                         *)
(* Once the turn has been generated it is saved as any other reply:        *)
(* ReplyTurns.                                                             *)
(***************************************************************************)
EXTENDS ReplyTurns

CONSTANT MaxDeltas   \* bound: how many pieces of text a coach may send

ASSUME StreamAssumption == MaxDeltas \in Nat

VARIABLE stream      \* stream[r]: how far the stream of reply r has got

streamVars == <<stream>>
vars == <<storeVars, profileVars, replyVars, streamVars>>

(***************************************************************************)
(*   opening     the coach is being asked for a stream                     *)
(*   listening   the feedback task is awaited                              *)
(*   told        suspended at the yield of the feedback event              *)
(*   talking     the next piece of the coach's text is awaited             *)
(*   paused      suspended at the yield of a piece of text                 *)
(*   collecting  the review task is awaited, for a bounded time            *)
(*   saving      save_reply_turn and the profile: see reply[r]             *)
(*   closing     in the finally clause                                     *)
(***************************************************************************)
Place == {"start", "opening", "listening", "told", "talking", "paused",
          "collecting", "saving", "closing", "done"}
Task  == {"none", "running", "ready", "failed", "cancelled"}
Event == {"feedback", "delta", "session", "error"}

StreamState ==
  [at : Place, feedback : Task, review : Task, coach : {"unopened", "open", "closed"},
   sent : Seq(Event), client : {"here", "cancelled", "gone"}]

NewStream ==
  [at |-> "start", feedback |-> "none", review |-> "none", coach |-> "unopened",
   sent |-> <<>>, client |-> "here"]

Init ==
  /\ StoreInit /\ ProfileInit /\ ReplyInit
  /\ stream = [r \in Replies |-> NewStream]

Cancel(task) == IF task = "running" THEN "cancelled" ELSE task

DeltasOf(r) == Cardinality({i \in DOMAIN stream[r].sent : stream[r].sent[i] = "delta"})

(* The turn is given up before anything has been saved. *)
GivesUp(r) == reply' = [reply EXCEPT ![r].pc = "failed"]

-----------------------------------------------------------------------------
(* The session cannot be read.                                             *)
TurnUnreadable(r) ==
  /\ stream[r].at = "start"
  /\ stream' = [stream EXCEPT ![r].at = "done", ![r].sent = <<"error">>]
  /\ GivesUp(r)
  /\ UNCHANGED <<storeVars, profileVars>>

OpenTurn(r) ==
  /\ stream[r].at = "start"
  /\ stream' = [stream EXCEPT ![r].at = "opening", ![r].feedback = "running"]
  /\ UNCHANGED <<storeVars, profileVars, replyVars>>

FeedbackReturns(r) ==
  /\ stream[r].feedback = "running"
  /\ \E result \in {"ready", "failed"} : stream' = [stream EXCEPT ![r].feedback = result]
  /\ UNCHANGED <<storeVars, profileVars, replyVars>>

(* A review that fails, or times out by itself, is no copy.                *)
ReviewReturns(r) ==
  /\ stream[r].review = "running"
  /\ \E result \in {"ready", "failed"} : stream' = [stream EXCEPT ![r].review = result]
  /\ UNCHANGED <<storeVars, profileVars, replyVars>>

CoachOpens(r) ==
  /\ stream[r].at = "opening"
  /\ stream' = [stream EXCEPT ![r].at = "listening", ![r].coach = "open"]
  /\ UNCHANGED <<storeVars, profileVars, replyVars>>

CoachRefuses(r) ==
  /\ stream[r].at = "opening"
  /\ stream' = [stream EXCEPT ![r].at = "done", ![r].feedback = Cancel(@),
                              ![r].sent = Append(@, "error")]
  /\ GivesUp(r)
  /\ UNCHANGED <<storeVars, profileVars>>

(* A slip: a feedback task that fails wakes nobody.                        *)
AwaitGoodFeedback(r) ==
  /\ stream[r].at = "listening"
  /\ stream[r].feedback = "ready"
  /\ stream' = [stream EXCEPT ![r].at = "told", ![r].sent = Append(@, "feedback")]
  /\ UNCHANGED <<storeVars, profileVars, replyVars>>

(* Feedback that failed is replaced by a placeholder and sent all the same. *)
GiveFeedback(r) ==
  /\ stream[r].at = "listening"
  /\ stream[r].feedback \in {"ready", "failed"}
  /\ stream' = [stream EXCEPT ![r].at = "told", ![r].sent = Append(@, "feedback")]
  /\ UNCHANGED <<storeVars, profileVars, replyVars>>

(* No review is asked for on top of a placeholder.                         *)
StartReview(r) ==
  /\ stream[r].at = "told"
  /\ stream' = [stream EXCEPT
       ![r].at = "talking",
       ![r].review = IF stream[r].feedback = "ready" THEN "running" ELSE "none"]
  /\ UNCHANGED <<storeVars, profileVars, replyVars>>

GiveDelta(r) ==
  /\ stream[r].at = "talking"
  /\ DeltasOf(r) < MaxDeltas
  /\ stream' = [stream EXCEPT ![r].at = "paused", ![r].sent = Append(@, "delta")]
  /\ UNCHANGED <<storeVars, profileVars, replyVars>>

Resume(r) ==
  /\ stream[r].at = "paused"
  /\ stream' = [stream EXCEPT ![r].at = "talking"]
  /\ UNCHANGED <<storeVars, profileVars, replyVars>>

(* The coach's stream closes itself, at its end and when it breaks.        *)
CoachEnds(r) ==
  /\ stream[r].at = "talking"
  /\ stream' = [stream EXCEPT ![r].at = "collecting", ![r].coach = "closed"]
  /\ UNCHANGED <<storeVars, profileVars, replyVars>>

CoachBreaks(r) ==
  /\ stream[r].at = "talking"
  /\ stream' = [stream EXCEPT ![r].at = "closing", ![r].coach = "closed"]
  /\ GivesUp(r)
  /\ UNCHANGED <<storeVars, profileVars>>

(* The review task is done, or its time is up and it is cancelled.         *)
CollectReview(r) ==
  /\ stream[r].at = "collecting"
  /\ DeltasOf(r) > 0
  /\ stream' = [stream EXCEPT ![r].at = "saving", ![r].review = Cancel(@)]
  /\ BuildReply(r, stream[r].feedback # "ready", stream[r].review = "ready")
  /\ UNCHANGED <<storeVars, profileVars>>

(* The coach's text is empty, or blank.                                    *)
EmptyReply(r) ==
  /\ stream[r].at = "collecting"
  /\ stream' = [stream EXCEPT ![r].at = "closing", ![r].review = Cancel(@)]
  /\ GivesUp(r)
  /\ UNCHANGED <<storeVars, profileVars>>

(* The turn is saved and counted like any other reply.                     *)
SaveStep(r) ==
  /\ stream[r].at = "saving"
  /\ \/ BeginSave(r) \/ CommitSave(r) \/ RetrySave(r) \/ GiveUpSave(r)
     \/ ReadReplyProfile(r) \/ WriteReplyProfile(r) \/ SkipReplyProfile(r)
  /\ UNCHANGED streamVars

SaveFails(r) ==
  /\ stream[r].at = "saving"
  /\ ReplyFails(r) \/ ReplyLoses(r)
  /\ UNCHANGED streamVars

(* The session event, if there is one, is yielded before the finally.      *)
LeaveTry(r) ==
  /\ stream[r].at = "saving"
  /\ ReplyEnded(r)
  /\ stream' = [stream EXCEPT
       ![r].at = "closing",
       ![r].sent = IF reply[r].pc = "answered" THEN Append(@, "session") ELSE @]
  /\ UNCHANGED <<storeVars, profileVars, replyVars>>

(* The finally clause runs to its end; an error becomes the last event.    *)
Close(r) ==
  /\ stream[r].at = "closing"
  /\ stream' = [stream EXCEPT
       ![r].at = "done",
       ![r].coach = "closed",
       ![r].review = Cancel(@),
       ![r].sent = IF stream[r].client = "here" /\ reply[r].pc # "answered"
                     THEN Append(@, "error")
                     ELSE @]
  /\ UNCHANGED <<storeVars, profileVars, replyVars>>

(* Closing the coach's stream is an await: cancelled there, the coroutine  *)
(* never reaches the cancellation of the review task.                      *)
CloseInterrupted(r) ==
  /\ stream[r].at = "closing"
  /\ stream[r].client = "cancelled"
  /\ stream[r].coach = "open"
  /\ stream' = [stream EXCEPT ![r].at = "done", ![r].coach = "closed"]
  /\ UNCHANGED <<storeVars, profileVars, replyVars>>

-----------------------------------------------------------------------------
(* The client leaves.                                                      *)

(* A slip: a stream that is cancelled in the middle does not close itself. *)
CancelLeavingCoach(r) ==
  /\ stream[r].at \in {"listening", "talking", "collecting"}
  /\ stream[r].client = "here"
  /\ stream' = [stream EXCEPT ![r].at = "closing", ![r].client = "cancelled",
                              ![r].feedback = Cancel(@)]
  /\ GivesUp(r)
  /\ UNCHANGED <<storeVars, profileVars>>

(* An awaited task is cancelled with the coroutine that awaits it, a       *)
(* stream that is being read closes itself; the review task is shielded.   *)
CancelGenerating(r) ==
  /\ stream[r].at \in {"listening", "talking", "collecting"}
  /\ stream[r].client = "here"
  /\ stream' = [stream EXCEPT
       ![r].at = "closing",
       ![r].client = "cancelled",
       ![r].feedback = Cancel(@),
       ![r].coach = IF stream[r].at = "listening" THEN @ ELSE "closed"]
  /\ GivesUp(r)
  /\ UNCHANGED <<storeVars, profileVars>>

(* Before the coach has been opened there is no finally clause to run yet. *)
CancelOpening(r) ==
  /\ stream[r].at \in {"start", "opening"}
  /\ stream' = [stream EXCEPT ![r].at = "done", ![r].client = "cancelled",
                              ![r].feedback = Cancel(@)]
  /\ GivesUp(r)
  /\ UNCHANGED <<storeVars, profileVars>>

(* A slip: the save goes on behind the back of the client that has left.   *)
ShieldSaving(r) ==
  /\ stream[r].at = "saving"
  /\ stream[r].client = "here"
  /\ stream' = [stream EXCEPT ![r].client = "cancelled"]
  /\ UNCHANGED <<storeVars, profileVars, replyVars>>

(* The transaction that is open is rolled back; one that has committed has *)
(* committed.                                                              *)
CancelSaving(r) ==
  /\ stream[r].at = "saving"
  /\ stream[r].client = "here"
  /\ ReplyFails(r) \/ ReplyLoses(r)
  /\ stream' = [stream EXCEPT ![r].at = "closing", ![r].client = "cancelled"]

(* Closed at a yield, by the event loop.                                   *)
LeaveAtYield(r) ==
  /\ stream[r].at \in {"told", "paused"}
  /\ stream' = [stream EXCEPT ![r].at = "closing", ![r].client = "gone"]
  /\ GivesUp(r)
  /\ UNCHANGED <<storeVars, profileVars>>

ClientLeaves(r) ==
  CancelGenerating(r) \/ CancelOpening(r) \/ CancelSaving(r) \/ LeaveAtYield(r)

-----------------------------------------------------------------------------
StreamProgress(r) ==
  \/ TurnUnreadable(r) \/ OpenTurn(r) \/ CoachOpens(r) \/ CoachRefuses(r)
  \/ GiveFeedback(r) \/ StartReview(r) \/ GiveDelta(r) \/ Resume(r)
  \/ CoachEnds(r) \/ CoachBreaks(r) \/ CollectReview(r) \/ EmptyReply(r)
  \/ SaveStep(r) \/ LeaveTry(r) \/ Close(r) \/ CloseInterrupted(r)

AllDone == \A r \in Replies : stream[r].at = "done"

Finished == AllDone /\ UNCHANGED vars

Next ==
  \/ \E r \in Replies :
       \/ StreamProgress(r) \/ SaveFails(r) \/ ClientLeaves(r)
       \/ FeedbackReturns(r) \/ ReviewReturns(r)
  \/ Finished

Spec == Init /\ [][Next]_vars

(* The event loop runs what is ready; model calls have timeouts.           *)
Fairness ==
  \A r \in Replies :
    /\ WF_vars(StreamProgress(r))
    /\ WF_vars(FeedbackReturns(r))
    /\ WF_vars(ReviewReturns(r))

FairSpec == Spec /\ Fairness

-----------------------------------------------------------------------------
(* The records are well formed; a review, and so a copy of one, exists     *)
(* only on top of feedback that did not fail.                              *)
StreamTypeOK ==
  /\ stream \in [Replies -> StreamState]
  /\ reply \in [Replies -> ReplyState]
  /\ \A r \in Replies :
       /\ stream[r].review # "none" => stream[r].feedback = "ready"
       /\ reply[r].hasCopy => stream[r].review = "ready"

(* Once a stream is over no task of its turn is running, neither after an  *)
(* error nor when the client has left, wherever that was (the comments of  *)
(* stream_reply_turn at its except and finally clauses).                   *)
NoTaskLeft ==
  \A r \in Replies :
    stream[r].at = "done" =>
      /\ stream[r].feedback # "running"
      /\ stream[r].review # "running"
      /\ stream[r].coach # "open"

(* What a client has been sent when its stream is over: feedback first,    *)
(* then text, then the session, and then the turn is stored; or an error   *)
(* as the last event.  A stream that ends without either has lost its      *)
(* client.                                                                 *)
Complete(sent) ==
  /\ Len(sent) >= 3
  /\ sent[1] = "feedback"
  /\ sent[Len(sent)] = "session"
  /\ \A i \in 2..(Len(sent) - 1) : sent[i] = "delta"

EventsTruthful ==
  \A r \in Replies :
    LET sent == stream[r].sent
    IN  /\ "session" \in {sent[i] : i \in DOMAIN sent} => Complete(sent) /\ r \in stored
        /\ stream[r].at = "done" /\ stream[r].client = "here" =>
             sent # <<>> /\ sent[Len(sent)] \in {"session", "error"}

(* What the runs check of a stream, its tasks and its events: once it is   *)
(* over nothing of it runs on, and what its client was sent is true.       *)
StreamInv == StreamTypeOK /\ NoTaskLeft /\ EventsTruthful

(* Once the client of a stream has left its turn is not stored any more:   *)
(* neither the transaction that was open then nor a second attempt goes    *)
(* through (the cancellation is no IntegrityError to save_reply_turn).     *)
AbandonedUnsaved ==
  [][\A r \in Replies :
       stream[r].client # "here" => (r \in stored' => r \in stored)]_vars

(* An error event means that the turn is not stored (comment of            *)
(* _reply_sse_events).                                                     *)
ErrorMeansUnstored ==
  \A r \in Replies :
    "error" \in {stream[r].sent[i] : i \in DOMAIN stream[r].sent} => r \notin stored

(* Every stream comes to its end, whether the client stays or leaves, and  *)
(* whatever the models do short of hanging forever.                        *)
EveryStreamEnds == <>AllDone
=============================================================================
