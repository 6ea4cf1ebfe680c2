---------------------------- MODULE StreamProofs ----------------------------
(***************************************************************************)
(* A streamed reply, for any number of replies and pieces of text: proof   *)
(* that nothing of a stream runs on once it is over and that what its      *)
(* client was sent is true.  The inductive invariant StreamsOK says, place *)
(* by place, which tasks may be running, what has been sent so far, and    *)
(* that a reply is stored from its commit on.                              *)
(*                                                                         *)
(* And the calls of the models below it, for any retries, backoff, timeout *)
(* and deadline: proof of the inductive invariant CallsIInv, which counts  *)
(* the failures of each provider and bounds the time a call begins at.     *)
(*                                                                         *)
(* And the readers at both ends, for any events of any texts and however   *)
(* the bytes are cut into chunks: proof that events are read as they were  *)
(* sent.  The inductive invariant FramesOK says that the buffer and what   *)
(* is on its way are the rest of the stream, from the first event on that  *)
(* has not been dispatched, as long as no character has been damaged.      *)
(***************************************************************************)
EXTENDS ReplyStreams, ModelCalls, StreamFrames, Induction

(* What has been sent while the coach talks: feedback, then text.          *)
Talked(events) ==
  /\ events \in Seq(Event) /\ Len(events) >= 1
  /\ events[1] = "feedback"
  /\ \A i \in 2..Len(events) : events[i] = "delta"

Unfinished(events) == events \in Seq(Event) /\ \A i \in DOMAIN events : events[i] # "session"

Told(events) == events \in Seq(Event) /\ Complete(events)

StoredPc == {"saved", "profiling", "answered", "lost"}

(* What holds of a stream s whose turn is at y, stored or not.             *)
StreamOK(s, y, kept) ==
  /\ s \in StreamState /\ y \in ReplyState
  /\ s.review # "none" => s.feedback = "ready"
  /\ y.hasCopy => s.review = "ready"
  /\ y.pc \in StoredPc => kept
  /\ s.at \in {"start", "opening", "listening", "told", "talking", "paused", "collecting"} =>
       y.pc = "generating" /\ s.client = "here"
  /\ s.at \in {"start", "opening"} => s.coach = "unopened"
  /\ s.at \in {"start", "opening", "listening"} => s.sent = <<>> /\ s.review = "none"
  /\ s.at = "start" => s.feedback = "none"
  /\ s.at = "told" => s.review = "none"
  /\ s.at \in {"told", "talking", "paused", "collecting", "saving", "closing", "done"} =>
       s.feedback # "running"
  /\ s.at \in {"told", "talking", "paused", "collecting", "saving"} => Talked(s.sent)
  /\ s.at \in {"collecting", "saving"} => s.coach = "closed"
  /\ s.at = "saving" => /\ s.review # "running" /\ Len(s.sent) >= 2 /\ s.client = "here"
                        /\ y.pc # "generating"
  /\ s.at = "closing" =>
       /\ s.client = "cancelled" /\ s.coach = "open" => s.review # "running"
       /\ y.pc = "answered" => Told(s.sent)
       /\ y.pc # "answered" => Unfinished(s.sent)
  /\ s.at = "done" =>
       /\ s.review # "running" /\ s.coach # "open"
       /\ Unfinished(s.sent) \/ (Told(s.sent) /\ kept)
       /\ s.client = "here" => s.sent # <<>> /\ s.sent[Len(s.sent)] \in {"session", "error"}

StreamsOK ==
  /\ stream \in [Replies -> StreamState] /\ reply \in [Replies -> ReplyState]
  /\ \A r \in Replies : StreamOK(stream[r], reply[r], r \in stored)

-----------------------------------------------------------------------------
LEMMA KnownNames ==
  /\ \A at \in {"start", "opening", "listening", "told", "talking", "paused",
                "collecting", "saving", "closing", "done"} : at \in Place
  /\ \A task \in {"none", "running", "ready", "failed", "cancelled"} : task \in Task
  /\ \A event \in {"feedback", "delta", "session", "error"} : event \in Event
  /\ <<>> \in Seq(Event)
BY DEF Place, Task, Event

LEMMA Fields ==
  ASSUME NEW s \in StreamState
  PROVE  /\ s.at \in Place /\ s.feedback \in Task /\ s.review \in Task
         /\ s.coach \in {"unopened", "open", "closed"} /\ s.sent \in Seq(Event)
         /\ s.client \in {"here", "cancelled", "gone"}
         /\ Cancel(s.feedback) \in Task /\ Cancel(s.review) \in Task
         /\ Cancel(s.feedback) # "running" /\ Cancel(s.review) # "running"
         /\ \A event \in Event : Append(s.sent, event) \in Seq(Event)
BY DEF StreamState, Cancel, Task

LEMMA TalkBegins == Talked(<<"feedback">>)
BY DEF Talked, Event

LEMMA TalkGoesOn ==
  ASSUME NEW events, Talked(events)
  PROVE  Talked(Append(events, "delta")) /\ Len(Append(events, "delta")) >= 2
BY DEF Talked, Event

LEMMA TalkUnfinished ==
  ASSUME NEW events, Talked(events)
  PROVE  Unfinished(events)
<1>1. \A i \in DOMAIN events : i = 1 \/ i \in 2..Len(events)
  BY DEF Talked
<1> QED  BY <1>1 DEF Talked, Unfinished

LEMMA TalkEnds ==
  ASSUME NEW events, Talked(events), Len(events) >= 2
  PROVE  Told(Append(events, "session"))
<1> DEFINE all == Append(events, "session")
<1>1. all \in Seq(Event) /\ Len(all) = Len(events) + 1 /\ all[Len(events) + 1] = "session"
      /\ \A i \in 1..Len(events) : all[i] = events[i]
  BY DEF Talked, Event
<1>2. Len(events) \in Nat
  BY DEF Talked
<1> HIDE DEF all
<1>3. all[1] = "feedback" /\ \A i \in 2..(Len(all) - 1) : all[i] = "delta"
  BY <1>1, <1>2 DEF Talked
<1>4. Len(all) >= 3
  BY <1>1, <1>2
<1>5. Told(all)
  BY <1>1, <1>3, <1>4 DEF Told, Complete
<1> QED  BY <1>5 DEF all

LEMMA ErrorLast ==
  ASSUME NEW events, Unfinished(events)
  PROVE  /\ Unfinished(Append(events, "error"))
         /\ Append(events, "error") # <<>>
         /\ Append(events, "error")[Len(Append(events, "error"))] \in {"session", "error"}
BY DEF Unfinished, Event

LEMMA ToldLast ==
  ASSUME NEW events, Told(events)
  PROVE  events # <<>> /\ events[Len(events)] \in {"session", "error"}
BY DEF Told, Complete

LEMMA ToldOrNot ==
  ASSUME NEW events, Unfinished(events) \/ Told(events)
  PROVE  events \in Seq(Event) /\ ("session" \in {events[i] : i \in DOMAIN events} => Complete(events))
BY DEF Unfinished, Told

(* One stream goes on, the others stay as they are.                        *)
OnlyStream(r) ==
  /\ stream' \in [Replies -> StreamState] /\ reply' \in [Replies -> ReplyState]
  /\ \A q \in Replies \ {r} : stream'[q] = stream[q] /\ reply'[q] = reply[q]
  /\ stored \subseteq stored'

LEMMA OneStream ==
  ASSUME StreamsOK, NEW r \in Replies, OnlyStream(r),
         StreamOK(stream'[r], reply'[r], r \in stored')
  PROVE  StreamsOK'
<1>1. ASSUME NEW q \in Replies, q # r PROVE StreamOK(stream'[q], reply'[q], q \in stored')
  <2>1. StreamOK(stream[q], reply[q], q \in stored) /\ stream'[q] = stream[q] /\ reply'[q] = reply[q]
    BY <1>1 DEF StreamsOK, OnlyStream
  <2>2. q \in stored => q \in stored'
    BY DEF OnlyStream
  <2> QED  BY <2>1, <2>2 DEF StreamOK
<1> QED  BY <1>1 DEF StreamsOK, OnlyStream

(* The record of one stream after a step, and the turn it is for.          *)
Becomes(r, at, told, copy, coach, events, client) ==
  /\ stream'[r].at = at /\ stream'[r].feedback = told /\ stream'[r].review = copy
  /\ stream'[r].coach = coach /\ stream'[r].sent = events /\ stream'[r].client = client
  /\ stream'[r] \in StreamState

TurnStays == reply' = reply /\ stored' = stored

LEMMA TurnGivenUp ==
  ASSUME StreamsOK, NEW r \in Replies, GivesUp(r)
  PROVE  /\ reply' \in [Replies -> ReplyState]
         /\ \A q \in Replies \ {r} : reply'[q] = reply[q]
         /\ reply'[r].pc = "failed" /\ reply'[r].hasCopy = reply[r].hasCopy
         /\ reply'[r] \in ReplyState
BY DEF StreamsOK, GivesUp, ReplyState, ReplyPc, ReplyEnds

-----------------------------------------------------------------------------
(* The steps of a stream before its turn is saved.                         *)

LEMMA OpenTurnOK == ASSUME StreamsOK, NEW r \in Replies, OpenTurn(r) PROVE StreamsOK'
<1>1. /\ stream[r] \in StreamState /\ StreamOK(stream[r], reply[r], r \in stored)
      /\ stream[r].at = "start"
  BY DEF StreamsOK, OpenTurn
<1>2. Becomes(r, "opening", "running", stream[r].review,
              stream[r].coach, stream[r].sent, stream[r].client)
      /\ OnlyStream(r) /\ TurnStays
  BY <1>1, Fields, KnownNames DEF OpenTurn, StreamsOK, StreamState, Becomes, OnlyStream,
     TurnStays, storeVars, replyVars
<1> QED
  <2>1. StreamOK(stream'[r], reply'[r], r \in stored')
    BY <1>1, <1>2, Fields DEF StreamOK, Becomes, TurnStays, StoredPc
  <2> QED  BY <1>2, <2>1, OneStream

LEMMA CoachOpensOK == ASSUME StreamsOK, NEW r \in Replies, CoachOpens(r) PROVE StreamsOK'
<1>1. /\ stream[r] \in StreamState /\ StreamOK(stream[r], reply[r], r \in stored)
      /\ stream[r].at = "opening"
  BY DEF StreamsOK, CoachOpens
<1>2. Becomes(r, "listening", stream[r].feedback, stream[r].review,
              "open", stream[r].sent, stream[r].client)
      /\ OnlyStream(r) /\ TurnStays
  BY <1>1, Fields, KnownNames DEF CoachOpens, StreamsOK, StreamState, Becomes, OnlyStream,
     TurnStays, storeVars, replyVars
<1> QED
  <2>1. StreamOK(stream'[r], reply'[r], r \in stored')
    BY <1>1, <1>2, Fields DEF StreamOK, Becomes, TurnStays, StoredPc
  <2> QED  BY <1>2, <2>1, OneStream

LEMMA GiveFeedbackOK == ASSUME StreamsOK, NEW r \in Replies, GiveFeedback(r) PROVE StreamsOK'
<1>1. /\ stream[r] \in StreamState /\ StreamOK(stream[r], reply[r], r \in stored)
      /\ stream[r].at = "listening" /\ stream[r].feedback \in {"ready", "failed"}
  BY DEF StreamsOK, GiveFeedback
<1>2. Becomes(r, "told", stream[r].feedback, stream[r].review,
              stream[r].coach, Append(stream[r].sent, "feedback"), stream[r].client)
      /\ OnlyStream(r) /\ TurnStays
  BY <1>1, Fields, KnownNames DEF GiveFeedback, StreamsOK, StreamState, Becomes, OnlyStream,
     TurnStays, storeVars, replyVars
<1>3. Append(stream[r].sent, "feedback") = <<"feedback">>
  <2>1. stream[r].sent = <<>> /\ Append(<<>>, "feedback") = <<"feedback">>
    BY <1>1 DEF StreamOK
  <2> QED  BY <2>1
<1> QED
  <2>1. StreamOK(stream'[r], reply'[r], r \in stored')
    BY <1>1, <1>2, Fields, <1>3, TalkBegins DEF StreamOK, Becomes, TurnStays, StoredPc
  <2> QED  BY <1>2, <2>1, OneStream

LEMMA StartReviewOK == ASSUME StreamsOK, NEW r \in Replies, StartReview(r) PROVE StreamsOK'
<1>1. /\ stream[r] \in StreamState /\ StreamOK(stream[r], reply[r], r \in stored)
      /\ stream[r].at = "told"
  BY DEF StreamsOK, StartReview
<1>2. Becomes(r, "talking", stream[r].feedback, IF stream[r].feedback = "ready" THEN "running" ELSE "none",
              stream[r].coach, stream[r].sent, stream[r].client)
      /\ OnlyStream(r) /\ TurnStays
  BY <1>1, Fields, KnownNames DEF StartReview, StreamsOK, StreamState, Becomes, OnlyStream,
     TurnStays, storeVars, replyVars
<1> QED
  <2>1. StreamOK(stream'[r], reply'[r], r \in stored')
    BY <1>1, <1>2, Fields DEF StreamOK, Becomes, TurnStays, StoredPc
  <2> QED  BY <1>2, <2>1, OneStream

LEMMA GiveDeltaOK == ASSUME StreamsOK, NEW r \in Replies, GiveDelta(r) PROVE StreamsOK'
<1>1. /\ stream[r] \in StreamState /\ StreamOK(stream[r], reply[r], r \in stored)
      /\ stream[r].at = "talking"
  BY DEF StreamsOK, GiveDelta
<1>2. Becomes(r, "paused", stream[r].feedback, stream[r].review,
              stream[r].coach, Append(stream[r].sent, "delta"), stream[r].client)
      /\ OnlyStream(r) /\ TurnStays
  BY <1>1, Fields, KnownNames DEF GiveDelta, StreamsOK, StreamState, Becomes, OnlyStream,
     TurnStays, storeVars, replyVars
<1> QED
  <2>1. StreamOK(stream'[r], reply'[r], r \in stored')
    BY <1>1, <1>2, Fields, TalkGoesOn DEF StreamOK, Becomes, TurnStays, StoredPc
  <2> QED  BY <1>2, <2>1, OneStream

LEMMA ResumeOK == ASSUME StreamsOK, NEW r \in Replies, Resume(r) PROVE StreamsOK'
<1>1. /\ stream[r] \in StreamState /\ StreamOK(stream[r], reply[r], r \in stored)
      /\ stream[r].at = "paused"
  BY DEF StreamsOK, Resume
<1>2. Becomes(r, "talking", stream[r].feedback, stream[r].review,
              stream[r].coach, stream[r].sent, stream[r].client)
      /\ OnlyStream(r) /\ TurnStays
  BY <1>1, Fields, KnownNames DEF Resume, StreamsOK, StreamState, Becomes, OnlyStream,
     TurnStays, storeVars, replyVars
<1> QED
  <2>1. StreamOK(stream'[r], reply'[r], r \in stored')
    BY <1>1, <1>2, Fields DEF StreamOK, Becomes, TurnStays, StoredPc
  <2> QED  BY <1>2, <2>1, OneStream

LEMMA CoachEndsOK == ASSUME StreamsOK, NEW r \in Replies, CoachEnds(r) PROVE StreamsOK'
<1>1. /\ stream[r] \in StreamState /\ StreamOK(stream[r], reply[r], r \in stored)
      /\ stream[r].at = "talking"
  BY DEF StreamsOK, CoachEnds
<1>2. Becomes(r, "collecting", stream[r].feedback, stream[r].review,
              "closed", stream[r].sent, stream[r].client)
      /\ OnlyStream(r) /\ TurnStays
  BY <1>1, Fields, KnownNames DEF CoachEnds, StreamsOK, StreamState, Becomes, OnlyStream,
     TurnStays, storeVars, replyVars
<1> QED
  <2>1. StreamOK(stream'[r], reply'[r], r \in stored')
    BY <1>1, <1>2, Fields DEF StreamOK, Becomes, TurnStays, StoredPc
  <2> QED  BY <1>2, <2>1, OneStream

LEMMA FeedbackReturnsOK == ASSUME StreamsOK, NEW r \in Replies, FeedbackReturns(r) PROVE StreamsOK'
<1>1. /\ stream[r] \in StreamState /\ StreamOK(stream[r], reply[r], r \in stored)
      /\ stream[r].feedback = "running"
  BY DEF StreamsOK, FeedbackReturns
<1>r. PICK result \in {"ready", "failed"} : stream' = [stream EXCEPT ![r].feedback = result]
  BY DEF FeedbackReturns
<1>2. Becomes(r, stream[r].at, result, stream[r].review,
              stream[r].coach, stream[r].sent, stream[r].client)
      /\ OnlyStream(r) /\ TurnStays
  BY <1>1, <1>r, Fields, KnownNames DEF FeedbackReturns, StreamsOK, StreamState, Becomes, OnlyStream,
     TurnStays, storeVars, replyVars
<1> QED
  <2>1. StreamOK(stream'[r], reply'[r], r \in stored')
    BY <1>1, <1>2, Fields DEF StreamOK, Becomes, TurnStays, StoredPc
  <2> QED  BY <1>2, <2>1, OneStream

LEMMA ReviewReturnsOK == ASSUME StreamsOK, NEW r \in Replies, ReviewReturns(r) PROVE StreamsOK'
<1>1. /\ stream[r] \in StreamState /\ StreamOK(stream[r], reply[r], r \in stored)
      /\ stream[r].review = "running"
  BY DEF StreamsOK, ReviewReturns
<1>r. PICK result \in {"ready", "failed"} : stream' = [stream EXCEPT ![r].review = result]
  BY DEF ReviewReturns
<1>2. Becomes(r, stream[r].at, stream[r].feedback, result,
              stream[r].coach, stream[r].sent, stream[r].client)
      /\ OnlyStream(r) /\ TurnStays
  BY <1>1, <1>r, Fields, KnownNames DEF ReviewReturns, StreamsOK, StreamState, Becomes, OnlyStream,
     TurnStays, storeVars, replyVars
<1> QED
  <2>1. StreamOK(stream'[r], reply'[r], r \in stored')
    BY <1>1, <1>2, Fields DEF StreamOK, Becomes, TurnStays, StoredPc
  <2> QED  BY <1>2, <2>1, OneStream

-----------------------------------------------------------------------------
(* The turn is given up.                                                   *)

LEMMA TurnUnreadableOK == ASSUME StreamsOK, NEW r \in Replies, TurnUnreadable(r) PROVE StreamsOK'
<1>1. /\ stream[r] \in StreamState /\ StreamOK(stream[r], reply[r], r \in stored)
      /\ stream[r].at = "start"
  BY DEF StreamsOK, TurnUnreadable
<1>e. <<"error">> \in Seq(Event)
  BY DEF Event
<1>2. Becomes(r, "done", stream[r].feedback, stream[r].review,
              stream[r].coach, <<"error">>, stream[r].client)
      /\ OnlyStream(r) /\ GivesUp(r) /\ stored' = stored
  BY <1>1, <1>e, Fields, KnownNames, TurnGivenUp DEF TurnUnreadable, StreamsOK, StreamState, Becomes, OnlyStream,
     TurnStays, storeVars, replyVars
<1>3. /\ Unfinished(<<"error">>) /\ <<"error">> # <<>>
      /\ <<"error">>[Len(<<"error">>)] \in {"session", "error"}
  BY DEF Unfinished, Event
<1> QED
  <2>1. StreamOK(stream'[r], reply'[r], r \in stored')
    BY <1>1, <1>2, Fields, TurnGivenUp, <1>3 DEF StreamOK, Becomes, TurnStays, StoredPc
  <2> QED  BY <1>2, <2>1, OneStream

LEMMA CoachRefusesOK == ASSUME StreamsOK, NEW r \in Replies, CoachRefuses(r) PROVE StreamsOK'
<1>1. /\ stream[r] \in StreamState /\ StreamOK(stream[r], reply[r], r \in stored)
      /\ stream[r].at = "opening"
  BY DEF StreamsOK, CoachRefuses
<1>2. Becomes(r, "done", Cancel(stream[r].feedback), stream[r].review,
              stream[r].coach, Append(stream[r].sent, "error"), stream[r].client)
      /\ OnlyStream(r) /\ GivesUp(r) /\ stored' = stored
  BY <1>1, Fields, KnownNames, TurnGivenUp DEF CoachRefuses, StreamsOK, StreamState, Becomes, OnlyStream,
     TurnStays, storeVars, replyVars
<1>3. Unfinished(<<>>)
  BY DEF Unfinished
<1> QED
  <2>1. StreamOK(stream'[r], reply'[r], r \in stored')
    BY <1>1, <1>2, Fields, TurnGivenUp, <1>3, ErrorLast DEF StreamOK, Becomes, TurnStays, StoredPc
  <2> QED  BY <1>2, <2>1, OneStream

LEMMA CoachBreaksOK == ASSUME StreamsOK, NEW r \in Replies, CoachBreaks(r) PROVE StreamsOK'
<1>1. /\ stream[r] \in StreamState /\ StreamOK(stream[r], reply[r], r \in stored)
      /\ stream[r].at = "talking"
  BY DEF StreamsOK, CoachBreaks
<1>2. Becomes(r, "closing", stream[r].feedback, stream[r].review,
              "closed", stream[r].sent, stream[r].client)
      /\ OnlyStream(r) /\ GivesUp(r) /\ stored' = stored
  BY <1>1, Fields, KnownNames, TurnGivenUp DEF CoachBreaks, StreamsOK, StreamState, Becomes, OnlyStream,
     TurnStays, storeVars, replyVars
<1> QED
  <2>1. StreamOK(stream'[r], reply'[r], r \in stored')
    BY <1>1, <1>2, Fields, TurnGivenUp, TalkUnfinished DEF StreamOK, Becomes, TurnStays, StoredPc
  <2> QED  BY <1>2, <2>1, OneStream

LEMMA EmptyReplyOK == ASSUME StreamsOK, NEW r \in Replies, EmptyReply(r) PROVE StreamsOK'
<1>1. /\ stream[r] \in StreamState /\ StreamOK(stream[r], reply[r], r \in stored)
      /\ stream[r].at = "collecting"
  BY DEF StreamsOK, EmptyReply
<1>2. Becomes(r, "closing", stream[r].feedback, Cancel(stream[r].review),
              stream[r].coach, stream[r].sent, stream[r].client)
      /\ OnlyStream(r) /\ GivesUp(r) /\ stored' = stored
  BY <1>1, Fields, KnownNames, TurnGivenUp DEF EmptyReply, StreamsOK, StreamState, Becomes, OnlyStream,
     TurnStays, storeVars, replyVars
<1> QED
  <2>1. StreamOK(stream'[r], reply'[r], r \in stored')
    BY <1>1, <1>2, Fields, TurnGivenUp, TalkUnfinished DEF StreamOK, Becomes, TurnStays, StoredPc, Cancel
  <2> QED  BY <1>2, <2>1, OneStream

LEMMA CancelGeneratingOK == ASSUME StreamsOK, NEW r \in Replies, CancelGenerating(r) PROVE StreamsOK'
<1>1. /\ stream[r] \in StreamState /\ StreamOK(stream[r], reply[r], r \in stored)
      /\ stream[r].at \in {"listening", "talking", "collecting"}
  BY DEF StreamsOK, CancelGenerating
<1>2. Becomes(r, "closing", Cancel(stream[r].feedback), stream[r].review,
              IF stream[r].at = "listening" THEN stream[r].coach ELSE "closed", stream[r].sent, "cancelled")
      /\ OnlyStream(r) /\ GivesUp(r) /\ stored' = stored
  BY <1>1, Fields, KnownNames, TurnGivenUp DEF CancelGenerating, StreamsOK, StreamState, Becomes, OnlyStream,
     TurnStays, storeVars, replyVars
<1>3. Unfinished(<<>>)
  BY DEF Unfinished
<1> QED
  <2>1. StreamOK(stream'[r], reply'[r], r \in stored')
    BY <1>1, <1>2, Fields, TurnGivenUp, <1>3, TalkUnfinished DEF StreamOK, Becomes, TurnStays, StoredPc, Cancel
  <2> QED  BY <1>2, <2>1, OneStream

LEMMA CancelOpeningOK == ASSUME StreamsOK, NEW r \in Replies, CancelOpening(r) PROVE StreamsOK'
<1>1. /\ stream[r] \in StreamState /\ StreamOK(stream[r], reply[r], r \in stored)
      /\ stream[r].at \in {"start", "opening"}
  BY DEF StreamsOK, CancelOpening
<1>2. Becomes(r, "done", Cancel(stream[r].feedback), stream[r].review,
              stream[r].coach, stream[r].sent, "cancelled")
      /\ OnlyStream(r) /\ GivesUp(r) /\ stored' = stored
  BY <1>1, Fields, KnownNames, TurnGivenUp DEF CancelOpening, StreamsOK, StreamState, Becomes, OnlyStream,
     TurnStays, storeVars, replyVars
<1>3. Unfinished(<<>>)
  BY DEF Unfinished
<1> QED
  <2>1. StreamOK(stream'[r], reply'[r], r \in stored')
    BY <1>1, <1>2, Fields, TurnGivenUp, <1>3 DEF StreamOK, Becomes, TurnStays, StoredPc
  <2> QED  BY <1>2, <2>1, OneStream

LEMMA LeaveAtYieldOK == ASSUME StreamsOK, NEW r \in Replies, LeaveAtYield(r) PROVE StreamsOK'
<1>1. /\ stream[r] \in StreamState /\ StreamOK(stream[r], reply[r], r \in stored)
      /\ stream[r].at \in {"told", "paused"}
  BY DEF StreamsOK, LeaveAtYield
<1>2. Becomes(r, "closing", stream[r].feedback, stream[r].review,
              stream[r].coach, stream[r].sent, "gone")
      /\ OnlyStream(r) /\ GivesUp(r) /\ stored' = stored
  BY <1>1, Fields, KnownNames, TurnGivenUp DEF LeaveAtYield, StreamsOK, StreamState, Becomes, OnlyStream,
     TurnStays, storeVars, replyVars
<1> QED
  <2>1. StreamOK(stream'[r], reply'[r], r \in stored')
    BY <1>1, <1>2, Fields, TurnGivenUp, TalkUnfinished DEF StreamOK, Becomes, TurnStays, StoredPc
  <2> QED  BY <1>2, <2>1, OneStream

-----------------------------------------------------------------------------
(* The turn is saved, and the stream ends.                                 *)

LEMMA ReplyBecomes ==
  ASSUME StreamsOK, NEW r \in Replies, NEW from, NEW to \in ReplyPc, ReplyGoes(r, from, to)
  PROVE  /\ reply' \in [Replies -> ReplyState]
         /\ \A q \in Replies \ {r} : reply'[q] = reply[q]
         /\ reply'[r].pc = to /\ reply'[r].hasCopy = reply[r].hasCopy
         /\ reply'[r] \in ReplyState
BY DEF StreamsOK, ReplyGoes, ReplyState

LEMMA PcNames ==
  \A pc \in {"generating", "built", "loaded", "saved", "profiling", "answered",
             "failed", "conflict", "lost"} : pc \in ReplyPc
BY DEF ReplyPc, ReplyEnds

(* While a turn is saved its stream waits.                                 *)
LEMMA StreamWaits ==
  ASSUME StreamsOK, NEW r \in Replies, stream[r].at = "saving", stream' = stream,
         reply' \in [Replies -> ReplyState], \A q \in Replies \ {r} : reply'[q] = reply[q],
         reply'[r].hasCopy = reply[r].hasCopy, reply'[r].pc # "generating",
         stored \subseteq stored', reply'[r].pc \in StoredPc => r \in stored'
  PROVE  StreamsOK'
<1>1. StreamOK(stream[r], reply[r], r \in stored) /\ stream[r] \in StreamState
  BY DEF StreamsOK
<1>2. OnlyStream(r)
  BY DEF StreamsOK, OnlyStream
<1>3. StreamOK(stream'[r], reply'[r], r \in stored')
  BY <1>1 DEF StreamOK
<1> QED  BY <1>2, <1>3, OneStream

LEMMA SaveStepOK == ASSUME StreamsOK, NEW r \in Replies, SaveStep(r) PROVE StreamsOK'
<1>1. /\ stream[r].at = "saving" /\ stream' = stream /\ r \in Replies
      /\ reply[r].pc \in StoredPc => r \in stored
  BY DEF SaveStep, streamVars, StreamsOK, StreamOK
<1>2. CASE BeginSave(r)
  <2>1. ReplyGoes(r, "built", "loaded") /\ stored' = stored
    BY <1>2 DEF BeginSave, LoadReplyTurn
  <2> QED  BY <1>1, <2>1, PcNames, ReplyBecomes, StreamWaits DEF StoredPc
<1>3. CASE CommitSave(r)
  <2>1. ReplyGoes(r, "loaded", "saved") /\ stored' = stored \cup {r}
    BY <1>3 DEF CommitSave, CommitReplyTurn
  <2> QED  BY <1>1, <2>1, PcNames, ReplyBecomes, StreamWaits DEF StoredPc
<1>4. CASE RetrySave(r)
  <2>1. /\ reply' = [reply EXCEPT ![r].pc = "built", ![r].attempt = @ + 1]
        /\ reply[r].attempt < Attempts /\ stored' = stored
    BY <1>4 DEF RetrySave, Rollback
  <2>2. reply[r] \in ReplyState /\ reply[r].attempt + 1 \in 1..Attempts
    BY <2>1 DEF StreamsOK, ReplyState, Attempts
  <2>3. /\ reply' \in [Replies -> ReplyState] /\ \A q \in Replies \ {r} : reply'[q] = reply[q]
        /\ reply'[r].hasCopy = reply[r].hasCopy /\ reply'[r].pc = "built"
    BY <2>1, <2>2, PcNames DEF StreamsOK, ReplyState
  <2> QED  BY <1>1, <2>1, <2>3, StreamWaits DEF StoredPc
<1>5. CASE GiveUpSave(r)
  <2>1. ReplyGoes(r, "loaded", "conflict") /\ stored' = stored
    BY <1>5 DEF GiveUpSave, Rollback
  <2> QED  BY <1>1, <2>1, PcNames, ReplyBecomes, StreamWaits DEF StoredPc
<1>6. CASE ReadReplyProfile(r)
  <2>1. ReplyGoes(r, "saved", "profiling") /\ stored' = stored /\ reply[r].pc = "saved"
    BY <1>6 DEF ReadReplyProfile, ReplyGoes, storeVars
  <2> QED  BY <1>1, <2>1, PcNames, ReplyBecomes, StreamWaits DEF StoredPc
<1>7. CASE WriteReplyProfile(r)
  <2>1. ReplyGoes(r, "profiling", "answered") /\ stored' = stored /\ reply[r].pc = "profiling"
    BY <1>7 DEF WriteReplyProfile, ReplyGoes, storeVars
  <2> QED  BY <1>1, <2>1, PcNames, ReplyBecomes, StreamWaits DEF StoredPc
<1>8. CASE SkipReplyProfile(r)
  <2>1. /\ ReplyGoes(r, reply[r].pc, "answered") /\ stored' = stored
        /\ reply[r].pc \in {"saved", "profiling"}
    BY <1>8 DEF SkipReplyProfile, ReplyGoes, storeVars
  <2> QED  BY <1>1, <2>1, PcNames, ReplyBecomes, StreamWaits DEF StoredPc
<1> QED  BY <1>2, <1>3, <1>4, <1>5, <1>6, <1>7, <1>8 DEF SaveStep

(* A save that fails has not stored its turn, one that is lost has.        *)
LEMMA SaveLost ==
  ASSUME StreamsOK, NEW r \in Replies, ReplyFails(r) \/ ReplyLoses(r)
  PROVE  /\ reply' \in [Replies -> ReplyState] /\ \A q \in Replies \ {r} : reply'[q] = reply[q]
         /\ reply'[r].hasCopy = reply[r].hasCopy /\ reply'[r].pc \in {"failed", "lost"}
         /\ reply'[r] \in ReplyState
         /\ stored' = stored /\ (reply'[r].pc = "lost" => r \in stored)
<1>1. StreamOK(stream[r], reply[r], r \in stored)
  BY DEF StreamsOK
<1>2. CASE ReplyFails(r)
  <2>1. ReplyGoes(r, reply[r].pc, "failed") /\ stored' = stored
    BY <1>2 DEF ReplyFails, ReplyGoes, Rollback
  <2> QED  BY <2>1, PcNames, ReplyBecomes
<1>3. CASE ReplyLoses(r)
  <2>1. /\ ReplyGoes(r, reply[r].pc, "lost") /\ stored' = stored
        /\ reply[r].pc \in {"saved", "profiling"}
    BY <1>3 DEF ReplyLoses, ReplyGoes, storeVars
  <2> QED  BY <1>1, <2>1, PcNames, ReplyBecomes DEF StreamOK, StoredPc
<1> QED  BY <1>2, <1>3

LEMMA SaveFailsOK == ASSUME StreamsOK, NEW r \in Replies, SaveFails(r) PROVE StreamsOK'
<1>1. stream[r].at = "saving" /\ stream' = stream /\ (ReplyFails(r) \/ ReplyLoses(r))
  BY DEF SaveFails, streamVars
<1> QED  BY <1>1, SaveLost, StreamWaits DEF StoredPc

LEMMA CancelSavingOK == ASSUME StreamsOK, NEW r \in Replies, CancelSaving(r) PROVE StreamsOK'
<1>1. /\ stream[r] \in StreamState /\ StreamOK(stream[r], reply[r], r \in stored)
      /\ stream[r].at = "saving" /\ (ReplyFails(r) \/ ReplyLoses(r))
      /\ stream' = [stream EXCEPT ![r].at = "closing", ![r].client = "cancelled"]
  BY DEF StreamsOK, CancelSaving
<1>2. Becomes(r, "closing", stream[r].feedback, stream[r].review, stream[r].coach, stream[r].sent,
              "cancelled")
      /\ OnlyStream(r)
  BY <1>1, Fields, KnownNames, SaveLost DEF StreamsOK, StreamState, Becomes, OnlyStream
<1>3. StreamOK(stream'[r], reply'[r], r \in stored')
  BY <1>1, <1>2, Fields, SaveLost, TalkUnfinished DEF StreamOK, Becomes, StoredPc
<1> QED  BY <1>2, <1>3, OneStream

LEMMA ReviewTypes ==
  ASSUME NEW r \in Replies, NEW degraded \in BOOLEAN, NEW hasCopy \in BOOLEAN
  PROVE  NoReview \in ReviewRow /\ BuiltReview(r, <<r>>, degraded, hasCopy) \in ReviewRow
<1>1. r \in Author /\ NoOne \in Author /\ r \in Turns /\ r \in Text
  BY DEF Author, Turns, Text
<1>2. r \in Highlight /\ NoOne \in Highlight /\ <<r>> \in Highlight
  BY <1>1 DEF Highlight, Quote
<1> QED  BY <1>1, <1>2 DEF NoReview, BuiltReview, ReviewRow

(* A coach that has said something has said it to the client.              *)
LEMMA CollectReviewOK == ASSUME StreamsOK, NEW r \in Replies, CollectReview(r) PROVE StreamsOK'
<1>1. /\ stream[r] \in StreamState /\ StreamOK(stream[r], reply[r], r \in stored)
      /\ stream[r].at = "collecting" /\ DeltasOf(r) > 0
      /\ stream' = [stream EXCEPT ![r].at = "saving", ![r].review = Cancel(@)]
      /\ BuildReply(r, stream[r].feedback # "ready", stream[r].review = "ready")
      /\ stored' = stored
  BY DEF StreamsOK, CollectReview, storeVars
<1>2. /\ reply' \in [Replies -> ReplyState] /\ \A q \in Replies \ {r} : reply'[q] = reply[q]
      /\ reply'[r].hasCopy = (stream[r].review = "ready") /\ reply'[r].pc = "built"
      /\ reply'[r] \in ReplyState
  <2>1. (stream[r].feedback # "ready") \in BOOLEAN /\ (stream[r].review = "ready") \in BOOLEAN
    OBVIOUS
  <2>2. PICK built \in ReviewRow :
          reply' = [reply EXCEPT ![r].pc = "built", ![r].hasCopy = stream[r].review = "ready",
                                 ![r].review = built]
    BY <1>1, <2>1, ReviewTypes DEF BuildReply
  <2> QED  BY <2>2, PcNames DEF StreamsOK, ReplyState
<1>3. Becomes(r, "saving", stream[r].feedback, Cancel(stream[r].review), stream[r].coach,
              stream[r].sent, stream[r].client)
      /\ OnlyStream(r)
  BY <1>1, <1>2, Fields, KnownNames DEF StreamsOK, StreamState, Becomes, OnlyStream
<1>4. Len(stream[r].sent) >= 2
  <2>1. DeltasOf(r) # 0
    BY <1>1
  <2>2. {i \in DOMAIN stream[r].sent : stream[r].sent[i] = "delta"} # {}
    BY <2>1, FS_EmptySet DEF DeltasOf
  <2>3. PICK i \in DOMAIN stream[r].sent : stream[r].sent[i] = "delta"
    BY <2>2
  <2> QED  BY <1>1, <2>3 DEF StreamOK, Talked
<1>5. StreamOK(stream'[r], reply'[r], r \in stored')
  <2>1. reply'[r].hasCopy => stream'[r].review = "ready"
    <3>1. (stream[r].review = "ready") => stream'[r].review = "ready"
      BY <1>3 DEF Becomes, Cancel
    <3> QED  BY <1>2, <3>1
  <2>2. reply'[r].pc = "built" /\ reply'[r] \in ReplyState
    BY <1>2
  <2> QED  BY <1>1, <1>3, <1>4, <2>1, <2>2, Fields DEF StreamOK, Becomes, StoredPc, Cancel
<1> QED  BY <1>3, <1>5, OneStream

LEMMA LeaveTryOK == ASSUME StreamsOK, NEW r \in Replies, LeaveTry(r) PROVE StreamsOK'
<1>1. /\ stream[r] \in StreamState /\ StreamOK(stream[r], reply[r], r \in stored)
      /\ stream[r].at = "saving"
  BY DEF StreamsOK, LeaveTry
<1>2. Becomes(r, "closing", stream[r].feedback, stream[r].review, stream[r].coach,
              IF reply[r].pc = "answered" THEN Append(stream[r].sent, "session") ELSE stream[r].sent,
              stream[r].client)
      /\ OnlyStream(r) /\ TurnStays
  BY <1>1, Fields, KnownNames DEF LeaveTry, StreamsOK, StreamState, Becomes, OnlyStream,
     TurnStays, storeVars, replyVars
<1>3. StreamOK(stream'[r], reply'[r], r \in stored')
  BY <1>1, <1>2, Fields, TalkUnfinished, TalkEnds DEF StreamOK, Becomes, TurnStays, StoredPc
<1> QED  BY <1>2, <1>3, OneStream

LEMMA CloseOK == ASSUME StreamsOK, NEW r \in Replies, Close(r) PROVE StreamsOK'
<1>1. /\ stream[r] \in StreamState /\ StreamOK(stream[r], reply[r], r \in stored)
      /\ stream[r].at = "closing"
  BY DEF StreamsOK, Close
<1>2. Becomes(r, "done", stream[r].feedback, Cancel(stream[r].review), "closed",
              IF stream[r].client = "here" /\ reply[r].pc # "answered"
                THEN Append(stream[r].sent, "error") ELSE stream[r].sent,
              stream[r].client)
      /\ OnlyStream(r) /\ TurnStays
  BY <1>1, Fields, KnownNames DEF Close, StreamsOK, StreamState, Becomes, OnlyStream,
     TurnStays, storeVars, replyVars
<1>3. StreamOK(stream'[r], reply'[r], r \in stored')
  <2>1. CASE reply[r].pc = "answered"
    BY <1>1, <1>2, <2>1, Fields, ToldLast DEF StreamOK, Becomes, TurnStays, StoredPc, Cancel
  <2>2. CASE reply[r].pc # "answered"
    BY <1>1, <1>2, <2>2, Fields, ErrorLast DEF StreamOK, Becomes, TurnStays, StoredPc, Cancel
  <2> QED  BY <2>1, <2>2
<1> QED  BY <1>2, <1>3, OneStream

LEMMA CloseInterruptedOK ==
  ASSUME StreamsOK, NEW r \in Replies, CloseInterrupted(r) PROVE StreamsOK'
<1>1. /\ stream[r] \in StreamState /\ StreamOK(stream[r], reply[r], r \in stored)
      /\ stream[r].at = "closing" /\ stream[r].client = "cancelled" /\ stream[r].coach = "open"
  BY DEF StreamsOK, CloseInterrupted
<1>2. Becomes(r, "done", stream[r].feedback, stream[r].review, "closed", stream[r].sent,
              stream[r].client)
      /\ OnlyStream(r) /\ TurnStays
  BY <1>1, Fields, KnownNames DEF CloseInterrupted, StreamsOK, StreamState, Becomes, OnlyStream,
     TurnStays, storeVars, replyVars
<1>3. StreamOK(stream'[r], reply'[r], r \in stored')
  BY <1>1, <1>2, Fields DEF StreamOK, Becomes, TurnStays, StoredPc
<1> QED  BY <1>2, <1>3, OneStream

-----------------------------------------------------------------------------
LEMMA StreamsBegin == Init => StreamsOK
<1> SUFFICES ASSUME Init PROVE StreamsOK
  OBVIOUS
<1>1. stream \in [Replies -> StreamState] /\ reply \in [Replies -> ReplyState]
  <2>1. NewStream \in StreamState
    BY KnownNames DEF NewStream, StreamState
  <2>2. NewReply \in ReplyState
    <3>1. NoReview \in ReviewRow
      BY DEF NoReview, ReviewRow, Highlight, Quote, Author
    <3> QED  BY <3>1, PcNames DEF NewReply, ReplyState, Attempts
  <2> QED  BY <2>1, <2>2 DEF Init, ReplyInit
<1>2. ASSUME NEW r \in Replies PROVE StreamOK(stream[r], reply[r], r \in stored)
  <2>1. stream[r] = NewStream /\ reply[r].pc = "generating" /\ reply[r].hasCopy = FALSE
    BY DEF Init, ReplyInit, NewReply
  <2> QED  BY <1>1, <2>1 DEF StreamOK, NewStream, StoredPc
<1> QED  BY <1>1, <1>2 DEF StreamsOK

LEMMA StreamsNext == StreamsOK /\ [Next]_vars => StreamsOK'
<1> SUFFICES ASSUME StreamsOK, [Next]_vars PROVE StreamsOK'
  OBVIOUS
<1>1. CASE UNCHANGED vars
  BY <1>1 DEF StreamsOK, vars, storeVars, replyVars, streamVars
<1>2. ASSUME NEW r \in Replies, StreamProgress(r) PROVE StreamsOK'
  BY <1>2, TurnUnreadableOK, OpenTurnOK, CoachOpensOK, CoachRefusesOK, GiveFeedbackOK, StartReviewOK,
     GiveDeltaOK, ResumeOK, CoachEndsOK, CoachBreaksOK, CollectReviewOK, EmptyReplyOK, SaveStepOK,
     LeaveTryOK, CloseOK, CloseInterruptedOK DEF StreamProgress
<1>3. ASSUME NEW r \in Replies, ClientLeaves(r) PROVE StreamsOK'
  BY <1>3, CancelGeneratingOK, CancelOpeningOK, CancelSavingOK, LeaveAtYieldOK DEF ClientLeaves
<1> QED  BY <1>1, <1>2, <1>3, SaveFailsOK, FeedbackReturnsOK, ReviewReturnsOK DEF Next, Finished

LEMMA StreamsTell == StreamsOK => StreamInv
<1> SUFFICES ASSUME StreamsOK PROVE StreamInv
  OBVIOUS
<1>1. StreamTypeOK
  BY DEF StreamsOK, StreamOK, StreamTypeOK
<1>2. NoTaskLeft
  BY DEF StreamsOK, StreamOK, NoTaskLeft
<1>3. EventsTruthful
  <2> SUFFICES ASSUME NEW r \in Replies
               PROVE  LET events == stream[r].sent
                      IN  /\ "session" \in {events[i] : i \in DOMAIN events} => Complete(events) /\ r \in stored
                          /\ stream[r].at = "done" /\ stream[r].client = "here" =>
                               events # <<>> /\ events[Len(events)] \in {"session", "error"}
    BY DEF EventsTruthful
  <2>1. StreamOK(stream[r], reply[r], r \in stored) /\ stream[r] \in StreamState
    BY DEF StreamsOK
  <2>2. Unfinished(<<>>) /\ stream[r].at \in Place
    BY <2>1, Fields DEF Unfinished
  <2>3. Unfinished(stream[r].sent) \/ (Told(stream[r].sent) /\ r \in stored)
    BY <2>1, <2>2, TalkUnfinished DEF StreamOK, Place, StoredPc
  <2>4. "session" \in {stream[r].sent[i] : i \in DOMAIN stream[r].sent} =>
          Complete(stream[r].sent) /\ r \in stored
    BY <2>3 DEF Unfinished, Told
  <2> QED  BY <2>1, <2>4 DEF StreamOK
<1> QED  BY <1>1, <1>2, <1>3 DEF StreamInv

(* For any number of replies that are streamed at once and any number of   *)
(* pieces of text: when a stream is over, none of its tasks runs on,       *)
(* wherever its client left it; a client that is told of its session has   *)
(* the whole turn and the turn is stored; and one that stayed is told of   *)
(* the session or of an error in the end (stream_reply_turn).              *)
THEOREM StreamsEndClean == Spec => []StreamInv
BY StreamsBegin, StreamsNext, StreamsTell, PTL DEF Spec

(* A turn is stored while its stream is at its save, and then its client   *)
(* is there.                                                               *)
LEMMA StoredAtSave ==
  ASSUME StreamsOK, [Next]_vars, NEW r \in Replies, r \in stored', r \notin stored
  PROVE  stream[r].client = "here"
<1>1. ASSUME NEW q \in Replies, StreamProgress(q), ~SaveStep(q) PROVE stored' = stored
  BY <1>1 DEF StreamProgress, TurnUnreadable, OpenTurn, CoachOpens, CoachRefuses, GiveFeedback,
     StartReview, GiveDelta, Resume, CoachEnds, CoachBreaks, CollectReview, EmptyReply, LeaveTry,
     Close, CloseInterrupted, storeVars
<1>2. ASSUME NEW q \in Replies, SaveStep(q)
      PROVE  stored' = stored \/ stored' = stored \cup {q}
  BY <1>2 DEF SaveStep, BeginSave, LoadReplyTurn, CommitSave, CommitReplyTurn, RetrySave, GiveUpSave,
     Rollback, ReadReplyProfile, WriteReplyProfile, SkipReplyProfile, storeVars
<1>3. ASSUME NEW q \in Replies,
             \/ SaveFails(q) \/ CancelSaving(q) \/ CancelGenerating(q) \/ CancelOpening(q)
             \/ LeaveAtYield(q) \/ FeedbackReturns(q) \/ ReviewReturns(q)
      PROVE  stored' = stored
  BY <1>3 DEF SaveFails, CancelSaving, CancelGenerating, CancelOpening, LeaveAtYield,
     FeedbackReturns, ReviewReturns, ReplyFails, ReplyLoses, Rollback, storeVars
<1>4. ~(UNCHANGED vars)
  BY DEF vars, storeVars
<1>5. PICK q \in Replies : SaveStep(q)
  BY <1>1, <1>3, <1>4 DEF Next, Finished, ClientLeaves
<1>6. q = r
  BY <1>2, <1>5
<1> QED  BY <1>5, <1>6 DEF SaveStep, StreamsOK, StreamOK

(* When the client of a stream has left, its turn is not stored any more:  *)
(* neither the open transaction nor a second attempt goes through.         *)
THEOREM AbandonedStayUnsaved == Spec => AbandonedUnsaved
<1>1. StreamsOK /\ [Next]_vars =>
        [\A r \in Replies : stream[r].client # "here" => (r \in stored' => r \in stored)]_vars
  BY StoredAtSave
<1> QED  BY <1>1, StreamsBegin, StreamsNext, PTL DEF Spec, AbandonedUnsaved

-----------------------------------------------------------------------------
(***************************************************************************)
(* The chain of calls.                                                     *)
(***************************************************************************)
Slots == {"primary", "fallback"}
Failings == {"provider", "value", "status", "unsupported"}
CallPcs == {"next", "calling", "heard", "backoff", "exhausted", "open"} \cup Ended
Heard ==
  {"text", "frames", "empty", "choiceless", "broken", "status", "transport", "garbled", "unfit"}
Failure == [by : 1..2, error : Failings]
CallState ==
  [pc : CallPcs, attempt : 1..3, retry : 0..Retries, response : Heard \cup {"none"},
   error : {"none", "configuration", "transport", "unsupported", "provider"}]
Usage == [sent : Nat, rows : Nat, lost : Nat]
Bill == [calls : Nat, choiceless : Nat]

(* Types, as far as the steps need them.                                   *)
StateKnown ==
  /\ engine \in Engines
  /\ real = {"mock"} \/ real \subseteq Slots
  /\ elapsed \in Nat
  /\ call \in CallState
  /\ failures \in Seq(Failure)
  /\ starts \in Seq(Nat)
  /\ deltas \in 0..DeltasKept
  /\ usage \in Usage
  /\ billed \in Bill

Asking == {"calling", "heard", "backoff", "open"}

(* The failures of the provider whose turn it is, those of the ones before *)
(* it, and the starts that have not failed (yet).                          *)
FailuresCounted ==
  /\ call.pc \in Asking => call.attempt <= ProviderCount
  /\ call.pc = "next" => call.retry = 0
  /\ \A i \in DOMAIN failures : failures[i].by <= call.attempt
  /\ call.pc \in {"next", "calling", "heard"} => Cardinality(FailuresOf(call.attempt)) = call.retry
  /\ call.pc = "backoff" => /\ Cardinality(FailuresOf(call.attempt)) = call.retry + 1
                            /\ call.retry < Retries

LengthsCounted ==
  /\ call.pc \in {"next", "calling", "heard"} => Len(failures) <= (call.attempt - 1) * (Retries + 1) + call.retry
  /\ call.pc = "backoff" => Len(failures) <= (call.attempt - 1) * (Retries + 1) + call.retry + 1
  /\ call.pc \in {"next", "backoff", "exhausted"} => Len(starts) <= Len(failures)
  /\ Len(starts) <= Len(failures) + 1
  /\ Len(failures) <= MaxCalls
  /\ Len(starts) <= MaxCalls

OthersGivenUp ==
  /\ call.pc \in Asking \cup {"next"} =>
       DeadlineReached \/ \A p \in 1..ProviderCount : p < call.attempt => GivenUp(p)
  /\ call.pc = "exhausted" => DeadlineReached \/ \A p \in 1..ProviderCount : GivenUp(p)

BudgetKept ==
  Deadline > 0 =>
    /\ call.pc = "calling" => elapsed < Deadline + Backoff * Retries
    /\ call.pc = "backoff" => elapsed < Deadline

ErrorAtEnd == call.error # "none" => call.pc = "raised"

CallsIInv ==
  /\ StateKnown
  /\ FailuresCounted
  /\ LengthsCounted
  /\ OthersGivenUp
  /\ BudgetKept
  /\ ErrorAtEnd
  /\ BudgetOverrun
  /\ FailureEarned
  /\ UnfitMeansUnfit
  /\ BilledIsRecorded
  /\ NoSecondVoice

-----------------------------------------------------------------------------
LEMMA CountsNat == Retries \in Nat /\ Backoff \in Nat /\ Deadline \in Nat /\ Timeout \in Nat
                   /\ Timeout > 0 /\ DeltasKept \in Nat /\ MaxCalls = 2 * Retries + 2
BY CallsAssumption DEF MaxCalls

LEMMA Times ==
  ASSUME NEW a \in Nat, NEW b \in Nat, NEW c \in Nat, b <= c
  PROVE  a * b \in Nat /\ a * c \in Nat /\ a * b <= a * c
<1>1. PICK d \in Nat : c = b + d
  <2>1. c - b \in Nat /\ c = b + (c - b)
    OBVIOUS
  <2> QED  BY <2>1
<1>2. a * d \in Nat /\ a * b \in Nat
  OBVIOUS
<1>3. a * c = a * b + a * d
  BY <1>1
<1> QED  BY <1>2, <1>3

LEMMA Count ==
  ASSUME real = {"mock"} \/ real \subseteq Slots
  PROVE  ProviderCount \in 0..2 /\ (real # {} => ProviderCount # 0)
<1>1. CASE real = {"mock"}
  BY <1>1 DEF ProviderCount
<1>2. CASE real \subseteq Slots
  <2>1. real \in {{}, {"primary"}, {"fallback"}, {"primary", "fallback"}}
    BY <1>2 DEF Slots
  <2>2. Cardinality({}) = 0 /\ Cardinality({"primary"}) = 1 /\ Cardinality({"fallback"}) = 1
    BY FS_EmptySet, FS_Singleton
  <2>3. Cardinality({"primary"} \cup {"fallback"}) = 2
    <3>1. IsFiniteSet({"primary"}) /\ "fallback" \notin {"primary"}
      BY FS_Singleton
    <3>2. Cardinality({"primary"} \cup {"fallback"}) = Cardinality({"primary"}) + 1
      BY <3>1, FS_AddElement
    <3> QED  BY <2>2, <3>2
  <2>4. {"primary"} \cup {"fallback"} = {"primary", "fallback"}
    OBVIOUS
  <2>5. real # {"mock"}
    BY <1>2 DEF Slots
  <2> QED  BY <2>1, <2>2, <2>3, <2>4, <2>5 DEF ProviderCount
<1> QED  BY <1>1, <1>2

(* A failure joins those of its provider.                                  *)
LEMMA FailureJoins ==
  ASSUME failures \in Seq(Failure), NEW f \in Failure, failures' = Append(failures, f)
  PROVE  /\ failures' \in Seq(Failure) /\ Len(failures') = Len(failures) + 1
         /\ FailuresOf(f.by)' = FailuresOf(f.by) \cup {Len(failures) + 1}
         /\ \A p : p # f.by => FailuresOf(p)' = FailuresOf(p) /\ GivenUp(p)' = GivenUp(p)
         /\ failures'[Len(failures) + 1] = f
         /\ Cardinality(FailuresOf(f.by)') = Cardinality(FailuresOf(f.by)) + 1
         /\ \A i \in DOMAIN failures' : i \in DOMAIN failures \/ i = Len(failures) + 1
         /\ \A i \in DOMAIN failures : i \in DOMAIN failures' /\ failures'[i] = failures[i]
         /\ \A i \in FailuresOf(f.by)' : i <= Len(failures) + 1
<1>1. /\ failures' \in Seq(Failure) /\ Len(failures') = Len(failures) + 1
      /\ DOMAIN failures = 1..Len(failures) /\ DOMAIN failures' = 1..(Len(failures) + 1)
      /\ failures'[Len(failures) + 1] = f /\ Len(failures) \in Nat
      /\ \A i \in 1..Len(failures) : failures'[i] = failures[i]
  OBVIOUS
<1>2. FailuresOf(f.by)' = FailuresOf(f.by) \cup {Len(failures) + 1}
  BY <1>1 DEF FailuresOf
<1>3. \A p : p # f.by => FailuresOf(p)' = FailuresOf(p)
  BY <1>1 DEF FailuresOf
<1>4. \A p : \A i \in FailuresOf(p) : i \in 1..Len(failures)
  BY <1>1 DEF FailuresOf
<1>5. \A p : p # f.by => GivenUp(p)' = GivenUp(p)
  BY <1>1, <1>3, <1>4 DEF GivenUp
<1>6. IsFiniteSet(FailuresOf(f.by)) /\ ~(Len(failures) + 1 \in FailuresOf(f.by))
  <2>1. FailuresOf(f.by) \subseteq 1..Len(failures)
    BY <1>4
  <2>2. IsFiniteSet(1..Len(failures))
    BY <1>1, FS_Interval
  <2> QED  BY <2>1, <2>2, <1>1, FS_Subset
<1>7. Cardinality(FailuresOf(f.by) \cup {Len(failures) + 1}) = Cardinality(FailuresOf(f.by)) + 1
  BY <1>6, FS_AddElement
<1>8. Cardinality(FailuresOf(f.by)') = Cardinality(FailuresOf(f.by)) + 1
  BY <1>2, <1>7
<1>9. \A i \in FailuresOf(f.by)' : i <= Len(failures) + 1
  BY <1>1, <1>2, <1>4
<1> QED  BY <1>1, <1>2, <1>3, <1>5, <1>8, <1>9

(* What does not touch the failures leaves every verdict on a provider.    *)
LEMMA VerdictsStay ==
  ASSUME UNCHANGED <<failures, real>>
  PROVE  /\ \A p : FailuresOf(p)' = FailuresOf(p)
         /\ \A p : GivenUp(p)' = GivenUp(p)
         /\ Errors' = Errors /\ ProviderCount' = ProviderCount
BY DEF FailuresOf, GivenUp, Errors, ProviderCount

LEMMA TimeGoesOn ==
  ASSUME elapsed \in Nat, elapsed' \in Nat, elapsed <= elapsed', DeadlineReached
  PROVE  DeadlineReached'
BY CountsNat DEF DeadlineReached

-----------------------------------------------------------------------------
LEMMA CallsStart == CallsInit => CallsIInv
<1> SUFFICES ASSUME CallsInit PROVE CallsIInv
  OBVIOUS
<1> USE CountsNat DEF CallsInit
<1>1. StateKnown
  BY DEF StateKnown, CallState, CallPcs, Ended, Heard, Usage, Bill, Slots, Failure
<1>2. \A p : FailuresOf(p) = {}
  BY DEF FailuresOf
<1>3. FailuresCounted
  <2>1. Cardinality(FailuresOf(call.attempt)) = 0
    BY <1>2, FS_EmptySet
  <2> QED  BY <2>1 DEF FailuresCounted, Asking
<1>4. LengthsCounted
  BY DEF LengthsCounted
<1>5. OthersGivenUp
  BY DEF OthersGivenUp, Asking
<1>6. BudgetKept /\ ErrorAtEnd /\ BilledIsRecorded /\ NoSecondVoice
  BY DEF BudgetKept, ErrorAtEnd, BilledIsRecorded, NoSecondVoice, Ended
<1>7. BudgetOverrun
  BY Times DEF BudgetOverrun
<1>8. FailureEarned /\ UnfitMeansUnfit
  BY DEF FailureEarned, UnfitMeansUnfit
<1> QED  BY <1>1, <1>3, <1>4, <1>5, <1>6, <1>7, <1>8 DEF CallsIInv

(* The parts of the record. *)
CallParts(c) ==
  /\ c \in CallState /\ c.pc \in CallPcs
  /\ c.attempt \in Nat /\ c.attempt \in 1..3 /\ c.retry \in Nat /\ c.retry \in 0..Retries
  /\ c.response \in Heard \cup {"none"}

LEMMA CallFields == \A c \in CallState : CallParts(c)
BY CountsNat DEF CallState, CallParts

(* Only how far the chain is changes.                                      *)
OnlyPc(pc) ==
  /\ call'.pc = pc /\ call'.attempt = call.attempt /\ call'.retry = call.retry
  /\ call'.response = call.response /\ call'.error = call.error

LEMMA PcChanges ==
  ASSUME call \in CallState, NEW pc \in CallPcs, call' = [call EXCEPT !.pc = pc]
  PROVE  call' \in CallState /\ OnlyPc(pc)
BY DEF CallState, OnlyPc

LEMMA BeginKeeps == ASSUME CallsIInv, Begin PROVE CallsIInv'
<1> USE CountsNat
<1>1. /\ call.pc = "next" /\ CallParts(call) /\ call \in CallState
      /\ elapsed \in Nat /\ starts \in Seq(Nat) /\ Len(starts) \in Nat
      /\ Len(failures) \in Nat /\ ProviderCount \in 0..2
  BY CallFields, Count DEF CallsIInv, StateKnown, Begin
<1>2. UNCHANGED <<engine, real, elapsed, failures, deltas, usage, billed>>
  BY DEF Begin
<1>3. /\ \A p : FailuresOf(p)' = FailuresOf(p)
      /\ \A p : GivenUp(p)' = GivenUp(p)
      /\ Errors' = Errors /\ ProviderCount' = ProviderCount
      /\ DeadlineReached' = DeadlineReached
  BY <1>2, VerdictsStay DEF DeadlineReached
<1>4. \/ /\ OnlyPc("exhausted") /\ starts' = starts
         /\ call.attempt > ProviderCount \/ DeadlineReached
      \/ /\ OnlyPc("calling") /\ starts' \in Seq(Nat) /\ Len(starts') = Len(starts) + 1
         /\ call.attempt <= ProviderCount /\ ~DeadlineReached
  <2>1. "calling" \in CallPcs /\ "exhausted" \in CallPcs
    BY DEF CallPcs
  <2>2. CASE call.attempt > ProviderCount \/ DeadlineReached
    <3>1. call' = [call EXCEPT !.pc = "exhausted"] /\ starts' = starts
      BY <2>2 DEF Begin
    <3> QED  BY <1>1, <2>1, <2>2, <3>1, PcChanges
  <2>3. CASE ~(call.attempt > ProviderCount \/ DeadlineReached)
    <3>1. call' = [call EXCEPT !.pc = "calling"] /\ starts' = Append(starts, elapsed)
      BY <2>3 DEF Begin
    <3>2. OnlyPc("calling")
      BY <1>1, <2>1, <3>1, PcChanges
    <3> QED  BY <1>1, <2>3, <3>1, <3>2 DEF CallParts
  <2> QED  BY <2>2, <2>3
<1>5. call' \in CallState /\ starts' \in Seq(Nat)
  <2>1. "calling" \in CallPcs /\ "exhausted" \in CallPcs
    BY DEF CallPcs
  <2>2. call' = [call EXCEPT !.pc = "calling"] \/ call' = [call EXCEPT !.pc = "exhausted"]
    BY DEF Begin
  <2> QED  BY <1>1, <1>4, <2>1, <2>2, PcChanges
<1>6. StateKnown'
  BY <1>2, <1>5 DEF CallsIInv, StateKnown
<1>7. FailuresCounted'
  BY <1>1, <1>2, <1>3, <1>4 DEF CallsIInv, FailuresCounted, Asking, OnlyPc
<1>8. LengthsCounted'
  <2>1. Len(failures) <= (call.attempt - 1) * (Retries + 1) + call.retry /\ Len(starts) <= Len(failures)
    BY <1>1 DEF CallsIInv, LengthsCounted
  <2>2. OnlyPc("calling") => Len(failures) < MaxCalls
    <3> SUFFICES ASSUME OnlyPc("calling") PROVE Len(failures) < MaxCalls
      OBVIOUS
    <3>1. call.retry = 0 /\ call.attempt \in {1, 2}
      BY <1>1, <1>4 DEF CallParts, FailuresCounted, CallsIInv, OnlyPc
    <3>2. CASE call.attempt = 1
      BY <1>1, <2>1, <3>1, <3>2
    <3>3. CASE call.attempt = 2
      BY <1>1, <2>1, <3>1, <3>3
    <3> QED  BY <3>1, <3>2, <3>3
  <2>3. Len(starts') <= Len(failures) + 1 /\ Len(starts') <= MaxCalls
    BY <1>1, <1>4, <2>1, <2>2 DEF LengthsCounted, CallsIInv
  <2> QED  BY <1>1, <1>2, <1>4, <2>1, <2>3 DEF CallsIInv, LengthsCounted, OnlyPc
<1>9. OthersGivenUp'
  BY <1>1, <1>3, <1>4 DEF CallsIInv, OthersGivenUp, Asking, OnlyPc, CallParts
<1>10. BudgetKept'
  <2>1. Backoff * Retries \in Nat
    BY Times
  <2> QED  BY <1>1, <1>2, <1>4, <2>1 DEF BudgetKept, DeadlineReached, OnlyPc
<1>11. ErrorAtEnd' /\ BilledIsRecorded' /\ NoSecondVoice' /\ BudgetOverrun' /\ FailureEarned'
  BY <1>1, <1>2, <1>4 DEF CallsIInv, ErrorAtEnd, BilledIsRecorded, NoSecondVoice,
         BudgetOverrun, FailureEarned, Ended, OnlyPc
<1>12. UnfitMeansUnfit'
  BY <1>3, <1>4 DEF CallsIInv, UnfitMeansUnfit, OnlyPc
<1> QED  BY <1>6, <1>7, <1>8, <1>9, <1>10, <1>11, <1>12 DEF CallsIInv

-----------------------------------------------------------------------------
(* The chain stands still: only its usage, its deltas or nothing changes.  *)
LEMMA ChainStands ==
  ASSUME CallsIInv, UNCHANGED <<engine, real, elapsed, call, failures, starts>>,
         deltas' \in 0..DeltasKept, usage' \in Usage, billed' \in Bill,
         BilledIsRecorded', NoSecondVoice'
  PROVE  CallsIInv'
<1>1. /\ \A p : FailuresOf(p)' = FailuresOf(p)
      /\ \A p : GivenUp(p)' = GivenUp(p)
      /\ Errors' = Errors /\ ProviderCount' = ProviderCount
      /\ DeadlineReached' = DeadlineReached
  BY VerdictsStay DEF DeadlineReached
<1>2. StateKnown' /\ LengthsCounted' /\ BudgetKept' /\ ErrorAtEnd' /\ BudgetOverrun'
  BY DEF CallsIInv, StateKnown, LengthsCounted, BudgetKept, ErrorAtEnd, BudgetOverrun
<1>3. FailuresCounted'
  BY <1>1 DEF CallsIInv, FailuresCounted
<1>4. OthersGivenUp'
  BY <1>1 DEF CallsIInv, OthersGivenUp
<1>5. FailureEarned'
  BY <1>1 DEF CallsIInv, FailureEarned
<1>6. UnfitMeansUnfit'
  BY <1>1 DEF CallsIInv, UnfitMeansUnfit
<1> QED  BY <1>2, <1>3, <1>4, <1>5, <1>6 DEF CallsIInv

LEMMA DeltaKeeps == ASSUME CallsIInv, Delta PROVE CallsIInv'
<1>1. deltas' \in 0..DeltasKept /\ NoSecondVoice'
  BY CountsNat DEF CallsIInv, StateKnown, Delta, NoSecondVoice
<1>2. BilledIsRecorded' /\ usage' \in Usage /\ billed' \in Bill
  BY DEF CallsIInv, StateKnown, Delta, BilledIsRecorded
<1> QED  BY <1>1, <1>2, ChainStands DEF Delta

LEMMA WriteUsageKeeps == ASSUME CallsIInv, WriteUsage PROVE CallsIInv'
<1>1. usage' \in Usage /\ BilledIsRecorded'
  <2>1. PICK column \in {"rows", "lost"} : usage' = [usage EXCEPT !.sent = @ - 1, ![column] = @ + 1]
    BY DEF WriteUsage
  <2>2. /\ usage.sent \in Nat /\ usage.rows \in Nat /\ usage.lost \in Nat /\ usage.sent > 0
        /\ usage \in Usage /\ usage.sent + usage.rows + usage.lost + billed.choiceless = billed.calls
        /\ billed.choiceless \in Nat /\ billed.calls \in Nat /\ billed' = billed
    BY DEF CallsIInv, StateKnown, Usage, Bill, WriteUsage, BilledIsRecorded
  <2>3. CASE column = "rows"
    <3>1. usage' = [usage EXCEPT !.sent = usage.sent - 1, !.rows = usage.rows + 1]
      BY <2>1, <2>3
    <3>2. usage'.sent = usage.sent - 1 /\ usage'.rows = usage.rows + 1 /\ usage'.lost = usage.lost
      BY <2>2, <3>1 DEF Usage
    <3>3. usage.sent - 1 \in Nat /\ usage.rows + 1 \in Nat
      BY <2>2
    <3>4. usage' \in Usage
      BY <2>2, <3>1, <3>3 DEF Usage
    <3> QED  BY <2>2, <3>2, <3>4 DEF BilledIsRecorded
  <2>4. CASE column = "lost"
    <3>1. usage' = [usage EXCEPT !.sent = usage.sent - 1, !.lost = usage.lost + 1]
      BY <2>1, <2>4
    <3>2. usage'.sent = usage.sent - 1 /\ usage'.lost = usage.lost + 1 /\ usage'.rows = usage.rows
      BY <2>2, <3>1 DEF Usage
    <3>3. usage.sent - 1 \in Nat /\ usage.lost + 1 \in Nat
      BY <2>2
    <3>4. usage' \in Usage
      BY <2>2, <3>1, <3>3 DEF Usage
    <3> QED  BY <2>2, <3>2, <3>4 DEF BilledIsRecorded
  <2> QED  BY <2>3, <2>4
<1>2. NoSecondVoice' /\ deltas' \in 0..DeltasKept /\ billed' \in Bill
  BY DEF CallsIInv, StateKnown, NoSecondVoice, WriteUsage
<1> QED  BY <1>1, <1>2, ChainStands DEF WriteUsage

-----------------------------------------------------------------------------
(* The chain comes to an end, or its stream opens.                         *)
LEMMA ChainSettles ==
  ASSUME CallsIInv, UNCHANGED <<engine, real, elapsed, failures, deltas, starts>>,
         call' \in CallState, call'.attempt = call.attempt, call'.retry = call.retry,
         \/ call'.pc = "open" /\ call.pc = "heard"
         \/ call'.pc \in Ended,
         call.pc \in Asking,
         \/ call'.error = call.error /\ call'.pc # "raised"
         \/ call'.error = "transport" /\ call'.pc = "raised",
         usage' \in Usage, billed' \in Bill, BilledIsRecorded'
  PROVE  CallsIInv'
<1>1. /\ \A p : FailuresOf(p)' = FailuresOf(p)
      /\ \A p : GivenUp(p)' = GivenUp(p)
      /\ ProviderCount' = ProviderCount
      /\ DeadlineReached' = DeadlineReached
  BY VerdictsStay DEF DeadlineReached
<1>2. StateKnown' /\ BudgetOverrun' /\ NoSecondVoice'
  BY DEF CallsIInv, StateKnown, BudgetOverrun, NoSecondVoice
<1>3. ErrorAtEnd' /\ BudgetKept'
  BY DEF CallsIInv, ErrorAtEnd, BudgetKept, Asking, Ended
<1>4. FailuresCounted'
  BY <1>1 DEF CallsIInv, FailuresCounted, Asking, Ended
<1>5. LengthsCounted'
  BY DEF CallsIInv, LengthsCounted, Ended
<1>6. OthersGivenUp'
  BY <1>1 DEF CallsIInv, OthersGivenUp, Asking, Ended
<1>7. FailureEarned' /\ UnfitMeansUnfit'
  BY DEF CallsIInv, FailureEarned, UnfitMeansUnfit, ErrorAtEnd, Asking
<1> QED  BY <1>2, <1>3, <1>4, <1>5, <1>6, <1>7 DEF CallsIInv

LEMMA BilledStays ==
  ASSUME CallsIInv, UNCHANGED <<usage, billed>>
  PROVE  usage' \in Usage /\ billed' \in Bill /\ BilledIsRecorded'
BY DEF CallsIInv, StateKnown, BilledIsRecorded

LEMMA SucceedKeeps == ASSUME CallsIInv, Succeed PROVE CallsIInv'
<1> DEFINE pc == IF engine = "stream" THEN "open" ELSE "answered"
<1>1. pc \in CallPcs /\ call \in CallState
  BY DEF CallPcs, Ended, CallsIInv, StateKnown
<1>2. call' = [call EXCEPT !.pc = pc]
  BY DEF Succeed
<1>3. pc \in {"open", "answered"}
  OBVIOUS
<1> HIDE DEF pc
<1>4. call' \in CallState /\ OnlyPc(pc)
  BY <1>1, <1>2, PcChanges
<1>5. UNCHANGED <<engine, real, elapsed, failures, deltas, usage, billed, starts>> /\ call.pc = "heard"
  BY DEF Succeed
<1>6. usage' \in Usage /\ billed' \in Bill /\ BilledIsRecorded'
  BY <1>5, BilledStays
<1> QED  BY <1>3, <1>4, <1>5, <1>6, ChainSettles DEF OnlyPc, Asking, Ended

LEMMA StreamEndsKeeps == ASSUME CallsIInv, StreamEnds PROVE CallsIInv'
<1>1. "answered" \in CallPcs /\ call \in CallState
  BY DEF CallPcs, Ended, CallsIInv, StateKnown
<1>2. call' \in CallState /\ OnlyPc("answered")
  BY <1>1, PcChanges DEF StreamEnds
<1>3. usage' \in Usage /\ billed' \in Bill /\ BilledIsRecorded'
  <2>1. PICK told \in BOOLEAN :
          /\ usage' = IF told THEN [usage EXCEPT !.sent = @ + 1] ELSE usage
          /\ billed' = IF told THEN [billed EXCEPT !.calls = @ + 1] ELSE billed
    BY DEF StreamEnds
  <2>2. /\ usage.sent \in Nat /\ usage.rows \in Nat /\ usage.lost \in Nat /\ billed \in Bill
        /\ billed.choiceless \in Nat /\ billed.calls \in Nat
        /\ usage \in Usage /\ usage.sent + usage.rows + usage.lost + billed.choiceless = billed.calls
    BY DEF CallsIInv, StateKnown, Usage, Bill, BilledIsRecorded
  <2>3. CASE told
    <3>1. usage' = [usage EXCEPT !.sent = usage.sent + 1] /\ billed' = [billed EXCEPT !.calls = billed.calls + 1]
      BY <2>1, <2>3
    <3> QED  BY <2>2, <3>1 DEF Usage, Bill, BilledIsRecorded
  <2>4. CASE ~told
    BY <2>1, <2>2, <2>4 DEF Usage, BilledIsRecorded
  <2> QED  BY <2>3, <2>4
<1>4. UNCHANGED <<engine, real, elapsed, failures, deltas, starts>> /\ call.pc = "open"
  BY DEF StreamEnds
<1> QED  BY <1>2, <1>3, <1>4, ChainSettles DEF OnlyPc, Asking, Ended

LEMMA StreamBreaksKeeps == ASSUME CallsIInv, StreamBreaks PROVE CallsIInv'
<1>1. /\ call' \in CallState /\ call'.pc = "raised" /\ call'.error = "transport"
      /\ call'.attempt = call.attempt /\ call'.retry = call.retry
  <2>1. call \in CallState
    BY DEF CallsIInv, StateKnown
  <2> QED  BY <2>1 DEF CallState, CallPcs, Ended, StreamBreaks
<1>2. UNCHANGED <<engine, real, elapsed, failures, deltas, usage, billed, starts>> /\ call.pc = "open"
  BY DEF StreamBreaks
<1>3. usage' \in Usage /\ billed' \in Bill /\ BilledIsRecorded'
  BY <1>2, BilledStays
<1> QED  BY <1>1, <1>2, <1>3, ChainSettles DEF Asking, Ended

LEMMA CancelKeeps == ASSUME CallsIInv, CancelCall PROVE CallsIInv'
<1>1. "cancelled" \in CallPcs /\ call \in CallState
  BY DEF CallPcs, Ended, CallsIInv, StateKnown
<1>2. call' \in CallState /\ OnlyPc("cancelled")
  BY <1>1, PcChanges DEF CancelCall
<1>3. UNCHANGED <<engine, real, elapsed, failures, deltas, usage, billed, starts>>
  BY DEF CancelCall
<1>4. call.pc \in Asking
  BY DEF CancelCall, Asking
<1>5. usage' \in Usage /\ billed' \in Bill /\ BilledIsRecorded'
  BY <1>3, BilledStays
<1> QED  BY <1>2, <1>3, <1>4, <1>5, ChainSettles DEF OnlyPc, Ended

LEMMA ExhaustKeeps == ASSUME CallsIInv, Exhaust PROVE CallsIInv'
<1>1. FinalError \in {"unsupported", "provider"}
      /\ (FinalError = "unsupported" => Errors = {"unsupported"})
  BY DEF FinalError
<1>2. /\ call.pc = "exhausted" /\ call' = [call EXCEPT !.pc = "raised", !.error = FinalError]
      /\ UNCHANGED <<engine, real, elapsed, failures, deltas, usage, billed, starts>>
  BY DEF Exhaust
<1>3. /\ call' \in CallState /\ call'.pc = "raised" /\ call'.error = FinalError
      /\ call'.attempt = call.attempt /\ call'.retry = call.retry
  <2>1. call \in CallState
    BY DEF CallsIInv, StateKnown
  <2> HIDE DEF FinalError
  <2> QED  BY <1>1, <1>2, <2>1 DEF CallState, CallPcs, Ended
<1>4. /\ \A p : FailuresOf(p)' = FailuresOf(p)
      /\ \A p : GivenUp(p)' = GivenUp(p)
      /\ Errors' = Errors /\ ProviderCount' = ProviderCount
      /\ DeadlineReached' = DeadlineReached
  BY <1>2, VerdictsStay DEF DeadlineReached
<1>5. StateKnown' /\ BudgetOverrun' /\ BilledIsRecorded'
  BY <1>2, <1>3 DEF CallsIInv, StateKnown, BudgetOverrun, BilledIsRecorded
<1>6. ErrorAtEnd' /\ BudgetKept' /\ NoSecondVoice' /\ LengthsCounted'
  BY <1>2, <1>3 DEF CallsIInv, ErrorAtEnd, BudgetKept, NoSecondVoice, Ended, LengthsCounted
<1>7. FailuresCounted' /\ OthersGivenUp'
  BY <1>2, <1>3, <1>4 DEF CallsIInv, FailuresCounted, OthersGivenUp, Asking
<1>8. FailureEarned' /\ UnfitMeansUnfit'
  BY <1>1, <1>2, <1>3, <1>4 DEF CallsIInv, FailureEarned, UnfitMeansUnfit, OthersGivenUp
<1> QED  BY <1>5, <1>6, <1>7, <1>8 DEF CallsIInv

-----------------------------------------------------------------------------
LEMMA RespondKeeps == ASSUME CallsIInv, Respond PROVE CallsIInv'
<1> USE CountsNat
<1>1. PICK response \in Responses, took \in 0..Timeout :
        /\ elapsed' = elapsed + took
        /\ call' = [call EXCEPT !.pc = "heard", !.response = response]
        /\ billed' = BilledWith(response)
        /\ usage' = IF IsRecorded(response) THEN [usage EXCEPT !.sent = @ + 1] ELSE usage
  BY DEF Respond
<1>2. /\ call.pc = "calling" /\ call \in CallState /\ elapsed \in Nat
      /\ UNCHANGED <<engine, real, failures, deltas, starts>>
  BY DEF Respond, CallsIInv, StateKnown
<1>3. response \in Heard
  BY DEF Responses, Heard
<1>4. /\ call' \in CallState /\ call'.pc = "heard" /\ call'.error = call.error
      /\ call'.attempt = call.attempt /\ call'.retry = call.retry
  BY <1>1, <1>2, <1>3 DEF CallState, CallPcs
<1>5. elapsed' \in Nat /\ elapsed <= elapsed' /\ elapsed' <= elapsed + Timeout
  BY <1>1, <1>2
<1>6. usage' \in Usage /\ billed' \in Bill /\ BilledIsRecorded'
  <2>1. /\ usage.sent \in Nat /\ usage.rows \in Nat /\ usage.lost \in Nat /\ billed \in Bill
        /\ billed.choiceless \in Nat /\ billed.calls \in Nat
        /\ usage \in Usage /\ usage.sent + usage.rows + usage.lost + billed.choiceless = billed.calls
    BY DEF CallsIInv, StateKnown, Usage, Bill, BilledIsRecorded
  <2>2. CASE IsRecorded(response)
    <3>1. usage' = [usage EXCEPT !.sent = usage.sent + 1]
      BY <1>1, <2>2
    <3>2. IsBilled(response) /\ response # "choiceless"
      BY <2>2 DEF IsRecorded, IsBilled
    <3>3. billed' = [calls |-> billed.calls + 1, choiceless |-> billed.choiceless + 0]
      BY <1>1, <3>2 DEF BilledWith
    <3> QED  BY <2>1, <3>1, <3>3 DEF Usage, Bill, BilledIsRecorded
  <2>3. CASE ~IsRecorded(response) /\ IsBilled(response)
    <3>1. usage' = usage /\ response = "choiceless"
      BY <1>1, <2>3 DEF IsRecorded, IsBilled
    <3>2. billed' = [calls |-> billed.calls + 1, choiceless |-> billed.choiceless + 1]
      BY <1>1, <2>3, <3>1 DEF BilledWith
    <3> QED  BY <2>1, <3>1, <3>2 DEF Bill, BilledIsRecorded
  <2>4. CASE ~IsBilled(response)
    <3>1. usage' = usage /\ billed' = billed
      BY <1>1, <2>4 DEF IsRecorded, IsBilled, BilledWith
    <3> QED  BY <2>1, <3>1 DEF BilledIsRecorded
  <2> QED  BY <2>2, <2>3, <2>4
<1>7. /\ \A p : FailuresOf(p)' = FailuresOf(p)
      /\ \A p : GivenUp(p)' = GivenUp(p)
      /\ Errors' = Errors /\ ProviderCount' = ProviderCount
      /\ DeadlineReached => DeadlineReached'
  BY <1>2, <1>5, VerdictsStay, TimeGoesOn
<1>8. StateKnown' /\ BudgetKept' /\ ErrorAtEnd' /\ NoSecondVoice' /\ LengthsCounted'
  BY <1>2, <1>4, <1>5, <1>6 DEF CallsIInv, StateKnown, BudgetKept, ErrorAtEnd, NoSecondVoice, Ended,
       LengthsCounted
<1>9. FailuresCounted' /\ OthersGivenUp'
  BY <1>2, <1>4, <1>7 DEF CallsIInv, FailuresCounted, OthersGivenUp, Asking
<1>10. BudgetOverrun'
  <2>1. Backoff * Retries \in Nat
    BY Times
  <2> QED  BY <1>2, <1>5, <2>1 DEF CallsIInv, BudgetKept, BudgetOverrun
<1>11. FailureEarned' /\ UnfitMeansUnfit'
  BY <1>2, <1>4, <1>7 DEF CallsIInv, FailureEarned, UnfitMeansUnfit, ErrorAtEnd
<1> QED  BY <1>6, <1>8, <1>9, <1>10, <1>11 DEF CallsIInv

LEMMA RetryKeeps == ASSUME CallsIInv, Retry PROVE CallsIInv'
<1> USE CountsNat
<1>1. /\ call.pc = "backoff" /\ call \in CallState /\ CallParts(call) /\ elapsed \in Nat
      /\ starts \in Seq(Nat) /\ Len(starts) \in Nat /\ Len(failures) \in Nat
      /\ UNCHANGED <<engine, real, failures, deltas, usage, billed>>
  BY CallFields DEF Retry, CallsIInv, StateKnown
<1>e. elapsed' = elapsed + Backoff * (call.retry + 1)
  BY DEF Retry
<1>s. starts' = Append(starts, elapsed') /\ call' = [call EXCEPT !.pc = "calling", !.retry = @ + 1]
  BY DEF Retry
<1>p. ProviderCount \in 0..2
  BY Count DEF CallsIInv, StateKnown
<1>2. /\ call.attempt <= ProviderCount /\ call.retry < Retries
      /\ Cardinality(FailuresOf(call.attempt)) = call.retry + 1
      /\ \A i \in DOMAIN failures : failures[i].by <= call.attempt
  BY <1>1 DEF CallsIInv, FailuresCounted, Asking
<1>l. Len(failures) <= (call.attempt - 1) * (Retries + 1) + call.retry + 1 /\ Len(starts) <= Len(failures)
  BY <1>1 DEF CallsIInv, LengthsCounted
<1>a. call.attempt \in {1, 2} /\ call.retry + 1 \in Nat /\ call.retry + 1 \in 0..Retries
  BY <1>1, <1>2, <1>p DEF CallParts
<1>3. /\ call' \in CallState /\ call'.pc = "calling" /\ call'.error = call.error
      /\ call'.attempt = call.attempt /\ call'.retry = call.retry + 1
  BY <1>1, <1>a, <1>s DEF CallState, CallPcs
<1>4. /\ Backoff * (call.retry + 1) \in Nat /\ Backoff * Retries \in Nat
      /\ Backoff * (call.retry + 1) <= Backoff * Retries
  <2>1. call.retry + 1 <= Retries
    BY <1>a
  <2> QED  BY <1>a, <2>1, Times
<1>5. /\ elapsed' \in Nat /\ elapsed <= elapsed' /\ elapsed' <= elapsed + Backoff * Retries
  BY <1>1, <1>4, <1>e
<1>6. starts' \in Seq(Nat) /\ Len(starts') = Len(starts) + 1
  BY <1>1, <1>5, <1>s
<1>7. /\ \A p : FailuresOf(p)' = FailuresOf(p)
      /\ \A p : GivenUp(p)' = GivenUp(p)
      /\ Errors' = Errors /\ ProviderCount' = ProviderCount
      /\ DeadlineReached => DeadlineReached'
  BY <1>1, <1>5, VerdictsStay, TimeGoesOn
<1>8. StateKnown' /\ ErrorAtEnd' /\ NoSecondVoice' /\ BilledIsRecorded'
  BY <1>1, <1>3, <1>5, <1>6 DEF CallsIInv, StateKnown, ErrorAtEnd, NoSecondVoice, Ended, BilledIsRecorded
<1>9. FailuresCounted' /\ OthersGivenUp'
  BY <1>1, <1>2, <1>3, <1>7 DEF CallsIInv, FailuresCounted, OthersGivenUp, Asking
<1>10. LengthsCounted'
  <2>1. Len(failures) <= (call'.attempt - 1) * (Retries + 1) + call'.retry
    <3> DEFINE k == (call.attempt - 1) * (Retries + 1)
    <3>1. k \in Int /\ call.retry \in Nat
      BY <1>1, <1>a DEF CallParts
    <3>2. (call'.attempt - 1) * (Retries + 1) = k /\ Len(failures) <= k + call.retry + 1
      BY <1>3, <1>l
    <3> HIDE DEF k
    <3>3. Len(failures) <= k + (call.retry + 1)
      BY <1>1, <3>1, <3>2
    <3> QED  BY <1>3, <3>2, <3>3
  <2>2. Len(failures) < MaxCalls
    <3>2. CASE call.attempt = 1
      BY <1>1, <1>l, <3>2 DEF CallParts
    <3>3. CASE call.attempt = 2
      BY <1>1, <1>l, <1>a, <3>3 DEF CallParts
    <3> QED  BY <1>a, <3>2, <3>3
  <2>3. Len(starts') <= Len(failures) + 1 /\ Len(starts') <= MaxCalls
    BY <1>1, <1>l, <1>6, <2>2
  <2> QED  BY <1>1, <1>3, <2>1, <2>2, <2>3 DEF LengthsCounted
<1>11. BudgetKept' /\ BudgetOverrun'
  <2> SUFFICES ASSUME Deadline > 0 PROVE elapsed' < Deadline + Backoff * Retries
    BY <1>3, <1>4, <1>5 DEF BudgetKept, BudgetOverrun
  <2>1. elapsed < Deadline
    BY <1>1 DEF CallsIInv, BudgetKept
  <2> QED  BY <1>1, <1>4, <1>5, <2>1
<1>12. FailureEarned' /\ UnfitMeansUnfit'
  BY <1>1, <1>3, <1>7 DEF CallsIInv, FailureEarned, UnfitMeansUnfit, ErrorAtEnd
<1> QED  BY <1>8, <1>9, <1>10, <1>11, <1>12 DEF CallsIInv

LEMMA FailKeeps == ASSUME CallsIInv, Fail PROVE CallsIInv'
<1> USE CountsNat
<1> DEFINE error == ErrorOf(call.response)
           f == [by |-> call.attempt, error |-> error]
           again == Retryable(error) /\ ~DeadlineReached /\ call.retry < Retries
<1>1. /\ call.pc = "heard" /\ call \in CallState /\ CallParts(call) /\ error # "none"
      /\ failures \in Seq(Failure) /\ Len(starts) \in Nat /\ Len(failures) \in Nat
      /\ failures' = Append(failures, f) /\ ProviderCount \in 0..2
      /\ UNCHANGED <<engine, real, elapsed, deltas, usage, billed, starts>>
  BY CallFields, Count DEF Fail, CallsIInv, StateKnown
<1>2. /\ call.attempt <= ProviderCount
      /\ Cardinality(FailuresOf(call.attempt)) = call.retry
      /\ \A i \in DOMAIN failures : failures[i].by <= call.attempt
      /\ Len(starts) <= Len(failures) + 1
      /\ DeadlineReached \/ \A p \in 1..ProviderCount : p < call.attempt => GivenUp(p)
  BY <1>1 DEF CallsIInv, FailuresCounted, LengthsCounted, OthersGivenUp, Asking
<1>l. Len(failures) <= (call.attempt - 1) * (Retries + 1) + call.retry
  BY <1>1 DEF CallsIInv, LengthsCounted
<1>3. error \in Failings
  BY <1>1 DEF ErrorOf, Failings
<1>4. f \in Failure /\ f.by = call.attempt /\ f.error = error
  BY <1>1, <1>2, <1>3 DEF Failure, CallParts
<1>5. \/ /\ again
         /\ call' = [call EXCEPT !.pc = "backoff"]
      \/ /\ ~again
         /\ call' = [call EXCEPT !.pc = "next", !.attempt = @ + 1, !.retry = 0]
  BY DEF Fail, NextProvider
<1>6. PICK g \in Failure : g = f
  BY <1>4
<1>7. /\ failures' = Append(failures, g) /\ g.by = call.attempt /\ g.error = error
  BY <1>1, <1>4, <1>6
<1>8. /\ DeadlineReached' = DeadlineReached
      /\ ProviderCount' = ProviderCount
  BY <1>1 DEF DeadlineReached, ProviderCount
<1> HIDE DEF error, f
<1>9. /\ failures' \in Seq(Failure) /\ Len(failures') = Len(failures) + 1
      /\ FailuresOf(g.by)' = FailuresOf(g.by) \cup {Len(failures) + 1}
      /\ Cardinality(FailuresOf(g.by)') = call.retry + 1
      /\ \A p : p # g.by => GivenUp(p)' = GivenUp(p)
      /\ failures'[Len(failures) + 1] = g
      /\ \A i \in DOMAIN failures' : i \in DOMAIN failures \/ i = Len(failures) + 1
      /\ \A i \in DOMAIN failures : failures'[i] = failures[i]
      /\ \A i \in FailuresOf(g.by)' : i <= Len(failures) + 1
  BY <1>1, <1>2, <1>7, FailureJoins
<1>10. \A i \in DOMAIN failures' : failures'[i].by <= call.attempt
  <2>1. call.attempt <= call.attempt
    BY <1>1 DEF CallParts
  <2> QED  BY <1>2, <1>7, <1>9, <2>1
<1>11. Len(failures') <= (call.attempt - 1) * (Retries + 1) + call.retry + 1
  <2>1. (call.attempt - 1) * (Retries + 1) \in Int /\ call.retry \in Nat
    BY <1>1 DEF CallParts
  <2> QED  BY <1>1, <1>l, <1>9, <2>1
<1>12. Len(failures') <= MaxCalls /\ Len(starts') <= Len(failures') /\ Len(starts') <= MaxCalls
  <2>1. call.attempt \in {1, 2}
    BY <1>1, <1>2 DEF CallParts
  <2>2. Len(failures') <= MaxCalls
    <3>1. CASE call.attempt = 1
      BY <1>1, <1>9, <1>11, <3>1 DEF CallParts
    <3>2. CASE call.attempt = 2
      BY <1>1, <1>9, <1>11, <3>2 DEF CallParts
    <3> QED  BY <2>1, <3>1, <3>2
  <2> QED  BY <1>1, <1>2, <1>9, <2>2
<1>13. UNCHANGED <<engine, real, elapsed, deltas, usage, billed, starts>>
  BY <1>1
<1>14. BudgetOverrun' /\ BilledIsRecorded' /\ deltas = 0 /\ call.error = "none" /\ NoSecondVoice'
  BY <1>1, <1>13 DEF CallsIInv, BudgetOverrun, BilledIsRecorded, NoSecondVoice, Ended, ErrorAtEnd, StateKnown
<1>15. DeadlineReached \/ \A p \in 1..ProviderCount : p < call.attempt => GivenUp(p)'
  BY <1>1, <1>2, <1>7, <1>9 DEF CallParts
<1>16. CASE again
  <2>1. call' = [call EXCEPT !.pc = "backoff"] /\ "backoff" \in CallPcs
    BY <1>5, <1>16 DEF CallPcs
  <2>2. call' \in CallState /\ OnlyPc("backoff")
    BY <1>1, <2>1, PcChanges
  <2>3. StateKnown'
    BY <1>9, <1>13, <2>2 DEF CallsIInv, StateKnown
  <2>4. FailuresCounted'
    BY <1>1, <1>2, <1>7, <1>8, <1>9, <1>10, <1>16, <2>2 DEF FailuresCounted, Asking, OnlyPc
  <2>5. LengthsCounted'
    BY <1>1, <1>9, <1>11, <1>12, <2>2 DEF LengthsCounted, OnlyPc
  <2>6. OthersGivenUp'
    BY <1>8, <1>15, <2>2 DEF OthersGivenUp, OnlyPc, Asking
  <2>7. BudgetKept' /\ ErrorAtEnd' /\ FailureEarned' /\ UnfitMeansUnfit'
    <3>1. elapsed \in Nat
      BY DEF CallsIInv, StateKnown
    <3> QED  BY <1>1, <3>1, <1>13, <1>14, <1>16, <2>2
       DEF BudgetKept, DeadlineReached, ErrorAtEnd, FailureEarned, UnfitMeansUnfit, OnlyPc
  <2> QED  BY <1>14, <2>3, <2>4, <2>5, <2>6, <2>7 DEF CallsIInv
<1>17. CASE ~again
  <2>1. /\ call' \in CallState /\ call'.pc = "next" /\ call'.attempt = call.attempt + 1
        /\ call'.retry = 0 /\ call'.error = call.error
    <3>1. call.attempt + 1 \in 1..3 /\ 0 \in 0..Retries
      BY <1>1, <1>2 DEF CallParts
    <3>2. call' = [call EXCEPT !.pc = "next", !.attempt = @ + 1, !.retry = 0]
      BY <1>5, <1>17
    <3> QED  BY <1>1, <3>1, <3>2 DEF CallState, CallPcs
  <2>2. StateKnown'
    BY <1>9, <1>13, <2>1 DEF CallsIInv, StateKnown
  <2>a. \A i \in DOMAIN failures' : failures'[i].by \in Nat /\ failures'[i].by < call'.attempt
    <3>1. \A i \in DOMAIN failures' : failures'[i].by \in 1..2
      <4>1. \A i \in DOMAIN failures' : failures'[i] \in Failure
        BY <1>9
      <4> QED  BY <4>1 DEF Failure
    <3>2. call.attempt \in Nat /\ call'.attempt = call.attempt + 1
      BY <1>1, <2>1 DEF CallParts
    <3>3. \A n \in 1..2 : n \in Nat /\ (n <= call.attempt => n < call.attempt + 1)
      BY <3>2
    <3> QED  BY <1>10, <3>1, <3>2, <3>3
  <2>3. {i \in DOMAIN failures' : failures'[i].by = call'.attempt} = {}
    BY <1>1, <2>1, <2>a DEF CallParts
  <2>4. FailuresCounted'
    <3>1. Cardinality({i \in DOMAIN failures' : failures'[i].by = call'.attempt}) = 0
      BY <2>3, FS_EmptySet
    <3>2. \A i \in DOMAIN failures' : failures'[i].by <= call'.attempt
      BY <1>1, <2>1, <2>a DEF CallParts
    <3> QED  BY <2>1, <3>1, <3>2 DEF FailuresCounted, FailuresOf, Asking
  <2>5. LengthsCounted'
    <3>1. Len(failures') <= call.attempt * (Retries + 1)
      <4>1. (call.attempt - 1) * (Retries + 1) + (Retries + 1) = call.attempt * (Retries + 1)
        BY <1>1, <1>2 DEF CallParts
      <4>2. call.retry \in Nat /\ call.retry <= Retries /\ call.attempt \in Nat
        BY <1>1 DEF CallParts
      <4>3. PICK below \in Int : below = (call.attempt - 1) * (Retries + 1)
        BY <4>2
      <4>4. Len(failures') <= below + call.retry + 1 /\ Len(failures') \in Nat
        BY <1>1, <1>9, <1>11, <4>3
      <4>5. below + (Retries + 1) = call.attempt * (Retries + 1)
        BY <4>1, <4>3
      <4>6. Len(failures') <= below + (Retries + 1)
        BY <4>2, <4>4
      <4> QED  BY <4>5, <4>6
    <3> QED  BY <1>1, <1>9, <1>12, <2>1, <3>1 DEF LengthsCounted, CallParts
  <2>6. DeadlineReached \/ GivenUp(g.by)'
    <3>1. CASE ~Retryable(error)
      <4>1. Len(failures) + 1 \in FailuresOf(g.by)'
        BY <1>9
      <4> QED  BY <1>7, <1>9, <3>1, <4>1 DEF GivenUp, Retryable
    <3>2. CASE ~(call.retry < Retries)
      <4>1. Cardinality(FailuresOf(g.by)') = Retries + 1 /\ FailuresOf(g.by)' # {}
        BY <1>1, <1>9, <3>2 DEF CallParts
      <4> QED  BY <4>1 DEF GivenUp
    <3> QED  BY <1>17, <3>1, <3>2
  <2>7. OthersGivenUp'
    <3>1. DeadlineReached \/ \A p \in 1..ProviderCount : p < call.attempt + 1 => GivenUp(p)'
      BY <1>1, <1>7, <1>15, <2>6 DEF CallParts
    <3> QED  BY <1>8, <2>1, <3>1 DEF OthersGivenUp, Asking
  <2>8. BudgetKept' /\ ErrorAtEnd' /\ FailureEarned' /\ UnfitMeansUnfit'
    BY <1>14, <2>1 DEF BudgetKept, ErrorAtEnd, FailureEarned, UnfitMeansUnfit
  <2> QED  BY <1>14, <2>2, <2>4, <2>5, <2>7, <2>8 DEF CallsIInv
<1> QED  BY <1>16, <1>17

-----------------------------------------------------------------------------
LEMMA CallsNextKeeps == CallsIInv /\ [CallsNext]_callVars => CallsIInv'
<1> SUFFICES ASSUME CallsIInv, [CallsNext]_callVars PROVE CallsIInv'
  OBVIOUS
<1>1. CASE ChainStep
  BY <1>1, BeginKeeps, RespondKeeps, SucceedKeeps, FailKeeps, RetryKeeps, ExhaustKeeps, DeltaKeeps,
     StreamEndsKeeps, StreamBreaksKeeps DEF ChainStep
<1>2. CASE UNCHANGED callVars
  <2>1. deltas' \in 0..DeltasKept /\ usage' \in Usage /\ billed' \in Bill /\ BilledIsRecorded' /\ NoSecondVoice'
    BY <1>2 DEF callVars, CallsIInv, StateKnown, BilledIsRecorded, NoSecondVoice
  <2> QED  BY <1>2, <2>1, ChainStands DEF callVars
<1> QED  BY <1>1, <1>2, CancelKeeps, WriteUsageKeeps DEF CallsNext

LEMMA CallsTyped == CallsIInv => CallsInv
<1> SUFFICES ASSUME CallsIInv PROVE CallsInv
  OBVIOUS
<1>1. CallsTypeOK
  BY CallFields DEF CallsTypeOK, CallsIInv, StateKnown, LengthsCounted, CallParts, CallPcs
<1> QED  BY <1>1 DEF CallsInv, CallsIInv

(* For every number of retries, every backoff, timeout and deadline: a     *)
(* chain of calls ends within its budget and a last call; it fails only    *)
(* when every provider has been asked as often as its errors were worth it *)
(* or time was up; an answer that was paid for is recorded, and nothing is *)
(* asked again once a stream has begun to speak (run_llm_with_failover).   *)
THEOREM ChainKeepsItsBudget == CallsSpec => []CallsInv
BY CallsStart, CallsNextKeeps, CallsTyped, PTL DEF CallsSpec

-----------------------------------------------------------------------------
(* The readers of the events.                                              *)

Chars == Letters \cup Kinds \cup {"nl", "end", "bad"}
Tails == {<<>>, Blank}

(* Rests(from, events, tail): from[i] is what event i and those after it   *)
(* become.                                                                 *)
After(events, tail, i) == IF i < Len(events) THEN Blank ELSE tail

Rests(from, events, tail) ==
  /\ from \in [1..(Len(events) + 1) -> Seq(Chars)]
  /\ from[Len(events) + 1] = <<>>
  /\ \A i \in 1..Len(events) :
       from[i] = Framed(events[i]) \o After(events, tail, i) \o from[i + 1]

LEMMA FramedTyped == ASSUME NEW e \in SentEvent PROVE Framed(e) \in Seq(Chars)
<1>1. e.kind \in Chars /\ e.text \in Seq(Chars) /\ "end" \in Chars
  <2>1. e.kind \in Kinds /\ e.text \in Seq(Letters)
    BY DEF SentEvent
  <2>2. Letters \subseteq Chars
    BY DEF Chars
  <2>3. QED
    BY <2>1, <2>2, SeqMonotonic DEF Chars
<1>2. QED
  BY <1>1 DEF Framed

LEMMA EncodedRests ==
  ASSUME NEW events \in Seq(SentEvent), NEW tail \in Tails
  PROVE  \E from : Rests(from, events, tail) /\ from[1] = Encoded(events, tail)
<1> DEFINE n == Len(events)
           V == Seq(Chars)
           Part(i) == Framed(events[i]) \o After(events, tail, i)
           Says(g) == g = [i \in 1..(n + 1) |-> IF i > n THEN <<>> ELSE Part(i) \o g[i + 1]]
           F == CHOOSE g : Says(g)
<1>1. n \in Nat /\ DOMAIN events = 1..n
  BY LenProperties
<1>2. Blank \in V /\ <<>> \in V /\ tail \in V
  <2>1. "nl" \in Chars
    BY DEF Chars
  <2>2. <<"nl", "nl">> \in Seq(Chars) /\ <<>> \in Seq(Chars)
    BY <2>1
  <2>3. QED
    BY <2>2 DEF Tails, Blank
<1>3. \A i \in 1..n : Part(i) \in V
  <2>1. TAKE i \in 1..n
  <2>2. events[i] \in SentEvent
    BY <1>1, ElementOfSeq
  <2>3. Framed(events[i]) \in V
    BY <2>2, FramedTyped
  <2>4. After(events, tail, i) \in V
    BY <1>2 DEF After
  <2>5. QED
    BY <2>3, <2>4, ConcatProperties
<1>4. F[1] = Encoded(events, tail)
  BY Zenon DEF Encoded, After
<1> HIDE DEF V, Part
<1>5. \E g : Says(g)
  <2> DEFINE step == [k \in 1..n |-> [w \in V |-> Part(n + 1 - k) \o w]]
  <2>1. step \in [1..n -> [V -> V]]
    <3>1. ASSUME NEW k \in 1..n, NEW w \in V  PROVE Part(n + 1 - k) \o w \in V
      <4>1. n + 1 - k \in 1..n
        BY <1>1
      <4>2. QED
        BY <4>1, <1>3, ConcatProperties DEF V
    <3> HIDE DEF n
    <3>2. QED
      BY <3>1
  <2>2. PICK f \in [0..n -> V] : f[0] = <<>> /\ \A k \in 1..n : f[k] = step[k][f[k - 1]]
    <3>1. n \in Nat /\ <<>> \in V
      BY <1>1, <1>2
    <3> HIDE DEF step, n
    <3>2. \E f : Takes(f, n, V, <<>>, step)
      BY <3>1, <2>1, StepByStep
    <3> QED  BY <3>2 DEF Takes
  <2> HIDE DEF n
  <2> DEFINE g == [i \in 1..(n + 1) |-> f[n + 1 - i]]
  <2>3. \A i \in 1..n : g[i] = Part(i) \o g[i + 1]
    <3>1. TAKE i \in 1..n
    <3>2. n + 1 - i \in 1..n /\ (n + 1 - i) - 1 = n + 1 - (i + 1) /\ n + 1 - (n + 1 - i) = i
      BY <1>1
    <3>3. f[n + 1 - i] = Part(n + 1 - (n + 1 - i)) \o f[(n + 1 - i) - 1]
      <4>1. f[n + 1 - i] = step[n + 1 - i][f[(n + 1 - i) - 1]]
        <5> HIDE DEF step
        <5> QED  BY <3>2, <2>2
      <4>2. (n + 1 - i) - 1 \in 0..n
        BY <3>2, <1>1
      <4>3. f[(n + 1 - i) - 1] \in V
        BY <4>2, <2>2
      <4>4. QED
        BY <4>1, <4>3, <3>2
    <3>4. QED
      BY <3>2, <3>3, <1>1
  <2>4. g[n + 1] = <<>>
    BY <2>2, <1>1
  <2>5. Says(g)
    <3> SUFFICES ASSUME NEW i \in 1..(n + 1)
                 PROVE  g[i] = IF i > n THEN <<>> ELSE Part(i) \o g[i + 1]
      OBVIOUS
    <3>1. CASE i = n + 1
      BY <3>1, <2>4, <1>1
    <3>2. CASE i \in 1..n
      <4> HIDE DEF g
      <4>1. ~(i > n)
        BY <3>2, <1>1
      <4>2. QED
        BY <4>1, <3>2, <2>3
    <3>3. QED
      BY <3>1, <3>2, <1>1
  <2>6. QED
    <3> HIDE DEF Says, g
    <3> QED  BY <2>5
<1>6. Says(F)
  <2> HIDE DEF Says
  <2> QED  BY <1>5
<1> HIDE DEF F
<1>7. /\ DOMAIN F = 1..(n + 1) /\ F[n + 1] = <<>>
      /\ \A i \in 1..n : F[i] = Part(i) \o F[i + 1]
  <2>1. F = [i \in 1..(n + 1) |-> IF i > n THEN <<>> ELSE Part(i) \o F[i + 1]]
    BY <1>6
  <2> HIDE DEF n
  <2>2. DOMAIN F = 1..(n + 1)
    BY <2>1
  <2>3. \A i \in 1..(n + 1) : F[i] = IF i > n THEN <<>> ELSE Part(i) \o F[i + 1]
    BY <2>1
  <2>4. F[n + 1] = <<>>
    BY <2>3, <1>1
  <2>5. \A i \in 1..n : i \in 1..(n + 1) /\ ~(i > n)
    BY <1>1
  <2>6. QED
    BY <2>2, <2>3, <2>4, <2>5
<1>8. \A i \in 1..(n + 1) : F[i] \in V
  <2> DEFINE S == {k \in 0..n : F[n + 1 - k] \in V}
  <2>1. 0 \in S
    BY <1>1, <1>2, <1>7
  <2>2. ASSUME NEW k \in 0..(n - 1), k \in S  PROVE k + 1 \in S
    <3>1. n + 1 - (k + 1) \in 1..n /\ (n + 1 - (k + 1)) + 1 = n + 1 - k /\ k + 1 \in 0..n
      BY <1>1
    <3>2. F[n + 1 - (k + 1)] = Part(n + 1 - (k + 1)) \o F[n + 1 - k]
      BY <3>1, <1>7
    <3>3. F[n + 1 - (k + 1)] \in V
      BY <3>1, <3>2, <2>2, <1>3, ConcatProperties DEF V
    <3>4. QED
      BY <3>1, <3>3
  <2>3. \A k \in 0..n : k \in S
    <3> HIDE DEF S, n
    <3> QED  BY <1>1, <2>1, <2>2, UpTo
  <2>4. TAKE i \in 1..(n + 1)
  <2>5. n + 1 - i \in 0..n /\ n + 1 - (n + 1 - i) = i
    BY <1>1
  <2>6. QED
    BY <2>3, <2>5
<1>9. F = [i \in 1..(n + 1) |-> F[i]]
  BY <1>6
<1>10. F \in [1..(n + 1) -> V]
  BY <1>8, <1>9
<1>11. Rests(F, events, tail)
  BY <1>7, <1>10 DEF Rests, Part, V
<1>12. QED
  BY <1>4, <1>11

(* How the characters R begin with event e, of length Len(e.text) + 2; Q   *)
(* are those after the newlines that follow it, if any do.                 *)
Begins(R, e, Q) ==
  /\ Len(R) \in Nat /\ Len(Q) \in Nat /\ Len(e.text) \in Nat
  /\ R[1] = e.kind /\ R[Len(e.text) + 2] = "end"
  /\ \A i \in 1..Len(e.text) : R[i + 1] = e.text[i]
  /\ \A i \in 1..(Len(e.text) + 2) : R[i] # "nl"
  /\ \A i \in 1..(Len(e.text) + 1) : R[i] # "end"
  /\ \/ Len(R) = Len(e.text) + 2 /\ Q = <<>>
     \/ /\ Len(R) = Len(e.text) + 4 + Len(Q)
        /\ R[Len(e.text) + 3] = "nl" /\ R[Len(e.text) + 4] = "nl"
        /\ \A i \in 1..Len(Q) : R[Len(e.text) + 4 + i] = Q[i]

LEMMA FramedIs ==
  ASSUME NEW e \in SentEvent
  PROVE  /\ Len(e.text) \in Nat
         /\ Framed(e) \in Seq(Chars) /\ Len(Framed(e)) = Len(e.text) + 2
         /\ Framed(e)[1] = e.kind /\ Framed(e)[Len(e.text) + 2] = "end"
         /\ \A i \in 1..Len(e.text) : Framed(e)[i + 1] = e.text[i]
         /\ \A i \in 1..(Len(e.text) + 2) : Framed(e)[i] # "nl"
         /\ \A i \in 1..(Len(e.text) + 1) : Framed(e)[i] # "end"
<1>1. e.kind \in Kinds /\ e.text \in Seq(Letters)
  BY DEF SentEvent
<1> DEFINE t == e.text
           m == Len(t)
           W == <<e.kind>> \o t
<1>2. m \in Nat /\ \A i \in 1..m : t[i] \in Letters
  BY <1>1, LenProperties, ElementOfSeq
<1>3. t \in Seq(Chars) /\ e.kind \in Chars /\ "end" \in Chars
  <2>1. Letters \subseteq Chars
    BY DEF Chars
  <2>2. QED
    BY <1>1, <2>1, SeqMonotonic DEF Chars
<1>4. Framed(e) \in Seq(Chars)
  BY FramedTyped
<1>5. <<e.kind>> \in Seq(Chars) /\ Len(<<e.kind>>) = 1 /\ <<e.kind>>[1] = e.kind
  BY <1>3
<1>6. <<"end">> \in Seq(Chars) /\ Len(<<"end">>) = 1 /\ <<"end">>[1] = "end"
  BY <1>3
<1> HIDE DEF t, m
<1>7. /\ W \in Seq(Chars) /\ Len(W) = m + 1
      /\ \A i \in 1..(m + 1) : W[i] = IF i <= 1 THEN <<e.kind>>[i] ELSE t[i - 1]
  <2>1. Len(t) = m
    BY DEF m
  <2>2. /\ W \in Seq(Chars) /\ Len(W) = 1 + m
        /\ \A i \in 1..(1 + m) : W[i] = IF i <= 1 THEN <<e.kind>>[i] ELSE t[i - 1]
    BY <1>3, <1>5, <2>1, ConcatProperties
  <2>3. QED
    BY <1>2, <2>2
<1> HIDE DEF W
<1>8. Framed(e) = W \o <<"end">>
  BY DEF Framed, W, t
<1>9. /\ Len(Framed(e)) = m + 2
      /\ \A i \in 1..(m + 2) : Framed(e)[i] = IF i <= m + 1 THEN W[i] ELSE <<"end">>[i - (m + 1)]
  <2>1. /\ Len(W \o <<"end">>) = Len(W) + Len(<<"end">>)
        /\ \A i \in 1..(Len(W) + Len(<<"end">>)) :
             (W \o <<"end">>)[i] = IF i <= Len(W) THEN W[i] ELSE <<"end">>[i - Len(W)]
    BY <1>7, <1>6, ConcatProperties
  <2>2. Len(W) = m + 1 /\ Len(W) + Len(<<"end">>) = m + 2
    BY <1>7, <1>6, <1>2
  <2>3. QED
    BY <1>8, <2>1, <2>2
<1>10. Framed(e)[1] = e.kind
  BY <1>9, <1>7, <1>5, <1>2
<1>11. Framed(e)[m + 2] = "end"
  <2>1. (m + 2) - (m + 1) = 1 /\ ~(m + 2 <= m + 1) /\ m + 2 \in 1..(m + 2)
    BY <1>2
  <2>2. QED
    BY <2>1, <1>9, <1>6
<1>12. \A i \in 1..m : Framed(e)[i + 1] = t[i]
  <2>1. TAKE i \in 1..m
  <2>2. i + 1 \in 1..(m + 1) /\ i + 1 \in 1..(m + 2) /\ i + 1 <= m + 1 /\ (i + 1) - 1 = i /\ ~(i + 1 <= 1)
    BY <1>2
  <2>3. QED
    BY <2>2, <1>9, <1>7
<1>13. \A i \in 1..(m + 2) : i = 1 \/ i = m + 2 \/ \E j \in 1..m : i = j + 1
  <2>1. TAKE i \in 1..(m + 2)
  <2>2. i # 1 /\ i # m + 2 => i - 1 \in 1..m /\ i = (i - 1) + 1
    BY <1>2
  <2>3. QED
    BY <2>2
<1>14. e.kind # "nl" /\ e.kind # "end" /\ \A i \in 1..m : t[i] # "nl" /\ t[i] # "end"
  BY <1>1, <1>2, FramesAssumption DEF Kinds
<1>15. \A i \in 1..(m + 2) : Framed(e)[i] # "nl"
  BY <1>10, <1>11, <1>12, <1>13, <1>14
<1>16. \A i \in 1..(m + 1) : Framed(e)[i] # "end"
  <2>1. \A i \in 1..(m + 1) : i \in 1..(m + 2) /\ i # m + 2
    BY <1>2
  <2>2. QED
    BY <2>1, <1>10, <1>12, <1>13, <1>14
<1>17. QED
  BY <1>2, <1>4, <1>9, <1>10, <1>11, <1>12, <1>15, <1>16 DEF t, m

LEMMA RestBegins ==
  ASSUME NEW events \in Seq(SentEvent), NEW tail \in Tails, NEW from, Rests(from, events, tail),
         NEW i \in 1..Len(events)
  PROVE  Begins(from[i], events[i], from[i + 1])
<1> DEFINE e == events[i]
           n == Len(events)
           F == Framed(e)
           A == After(events, tail, i)
           Q == from[i + 1]
           m == Len(e.text)
<1>1. n \in Nat /\ e \in SentEvent
  BY LenProperties, ElementOfSeq
<1>2. /\ m \in Nat /\ F \in Seq(Chars) /\ Len(F) = m + 2
      /\ F[1] = e.kind /\ F[m + 2] = "end"
      /\ \A j \in 1..m : F[j + 1] = e.text[j]
      /\ \A j \in 1..(m + 2) : F[j] # "nl"
      /\ \A j \in 1..(m + 1) : F[j] # "end"
  BY <1>1, FramedIs
<1>3. i + 1 \in 1..(n + 1) /\ (i < n \/ i = n)
  BY <1>1
<1>4. Q \in Seq(Chars) /\ (i = n => Q = <<>>) /\ from[i] = F \o A \o Q
  BY <1>3 DEF Rests
<1>5. A = Blank \/ (A = <<>> /\ i = n)
  BY <1>3 DEF After, Tails
<1>6. Len(Q) \in Nat
  BY <1>4, LenProperties
<1> HIDE DEF e, F, A, Q, m, n
<1>7. CASE A = Blank
  <2> DEFINE G == F \o Blank
  <2>0. "nl" \in Chars
    BY DEF Chars
  <2>1. Blank \in Seq(Chars) /\ Len(Blank) = 2 /\ Blank[1] = "nl" /\ Blank[2] = "nl"
    BY <2>0 DEF Blank
  <2>2. /\ G \in Seq(Chars) /\ Len(G) = m + 4
        /\ \A j \in 1..(m + 4) : G[j] = IF j <= m + 2 THEN F[j] ELSE Blank[j - (m + 2)]
    <3>1. /\ G \in Seq(Chars) /\ Len(G) = Len(F) + Len(Blank)
          /\ \A j \in 1..(Len(F) + Len(Blank)) :
               G[j] = IF j <= Len(F) THEN F[j] ELSE Blank[j - Len(F)]
      BY <1>2, <2>1, ConcatProperties
    <3>2. Len(F) + Len(Blank) = m + 4
      BY <1>2, <2>1
    <3>3. QED
      BY <3>1, <3>2, <1>2
  <2> HIDE DEF G
  <2>3. from[i] = G \o Q
    BY <1>4, <1>7 DEF G
  <2>4. /\ from[i] \in Seq(Chars) /\ Len(from[i]) = m + 4 + Len(Q)
        /\ \A j \in 1..(m + 4 + Len(Q)) : from[i][j] = IF j <= m + 4 THEN G[j] ELSE Q[j - (m + 4)]
    <3>1. /\ G \o Q \in Seq(Chars) /\ Len(G \o Q) = Len(G) + Len(Q)
          /\ \A j \in 1..(Len(G) + Len(Q)) : (G \o Q)[j] = IF j <= Len(G) THEN G[j] ELSE Q[j - Len(G)]
      BY <1>4, <2>2, ConcatProperties
    <3>2. Len(G) = m + 4
      BY <2>2
    <3>3. QED
      BY <3>1, <3>2, <2>3
  <2>5. \A j \in 1..(m + 2) : from[i][j] = F[j]
    <3>1. \A j \in 1..(m + 2) : j \in 1..(m + 4) /\ j \in 1..(m + 4 + Len(Q)) /\ j <= m + 4 /\ j <= m + 2
      BY <1>2, <1>6
    <3>2. QED
      BY <3>1, <2>2, <2>4
  <2>6. from[i][m + 3] = "nl" /\ from[i][m + 4] = "nl"
    <3>1. /\ m + 3 \in 1..(m + 4) /\ m + 3 \in 1..(m + 4 + Len(Q)) /\ m + 3 <= m + 4 /\ ~(m + 3 <= m + 2)
          /\ m + 4 \in 1..(m + 4) /\ m + 4 \in 1..(m + 4 + Len(Q)) /\ m + 4 <= m + 4 /\ ~(m + 4 <= m + 2)
          /\ (m + 3) - (m + 2) = 1 /\ (m + 4) - (m + 2) = 2
      BY <1>2, <1>6
    <3>2. from[i][m + 3] = Blank[1] /\ from[i][m + 4] = Blank[2]
      BY <3>1, <2>2, <2>4
    <3>3. QED
      BY <3>2, <2>1
  <2>7. \A j \in 1..Len(Q) : from[i][m + 4 + j] = Q[j]
    <3>1. TAKE j \in 1..Len(Q)
    <3>2. m + 4 + j \in 1..(m + 4 + Len(Q)) /\ ~(m + 4 + j <= m + 4) /\ (m + 4 + j) - (m + 4) = j
      BY <1>2, <1>6
    <3>3. QED
      BY <3>2, <2>4
  <2>8. Len(from[i]) \in Nat
    BY <2>4, LenProperties
  <2>9. \A j \in 1..m : from[i][j + 1] = e.text[j]
    <3>1. \A j \in 1..m : j + 1 \in 1..(m + 2)
      BY <1>2
    <3>2. QED
      BY <3>1, <2>5, <1>2
  <2>10. from[i][1] = e.kind /\ from[i][m + 2] = "end"
    <3>1. 1 \in 1..(m + 2) /\ m + 2 \in 1..(m + 2)
      BY <1>2
    <3>2. QED
      BY <3>1, <2>5, <1>2
  <2>11. /\ \A j \in 1..(m + 2) : from[i][j] # "nl"
         /\ \A j \in 1..(m + 1) : from[i][j] # "end"
    <3>1. \A j \in 1..(m + 1) : j \in 1..(m + 2)
      BY <1>2
    <3>2. QED
      BY <3>1, <2>5, <1>2
  <2>12. QED
    BY <1>2, <1>6, <2>4, <2>6, <2>7, <2>8, <2>9, <2>10, <2>11 DEF Begins, e, m, Q
<1>8. CASE A = <<>> /\ i = n
  <2>1. Q = <<>>
    BY <1>4, <1>8
  <2>2. F \o <<>> = F
    BY <1>2, ConcatEmptySeq
  <2>3. from[i] = F
    BY <1>4, <1>8, <2>1, <2>2
  <2>4. QED
    BY <1>2, <1>6, <2>1, <2>3 DEF Begins, e, m, Q
<1>9. QED
  BY <1>5, <1>7, <1>8

(* A sequence that begins as R does.                                       *)
Starts(s, R) ==
  /\ s \in Seq(Chars) /\ Len(s) <= Len(R)
  /\ \A i \in 1..Len(s) : s[i] = R[i]

LEMMA BreakAt ==
  ASSUME NEW s \in Seq(Chars), NEW i \in 1..(Len(s) - 1)
  PROVE  i \in Breaks(s) <=> s[i] = "nl" /\ s[i + 1] = "nl"
<1>1. Len(s) \in Nat
  BY LenProperties
<1> DEFINE t == SubSeq(s, i, i + 1)
<1>2. \A j \in i..(i + 1) : s[j] \in Chars
  <2>1. \A j \in i..(i + 1) : j \in 1..Len(s)
    BY <1>1
  <2>2. QED
    BY <2>1, ElementOfSeq
<1>3. /\ t \in Seq(Chars) /\ Len(t) = 2
      /\ t[1] = s[i] /\ t[2] = s[i + 1]
  <2>1. /\ t \in Seq(Chars)
        /\ Len(t) = IF i <= i + 1 THEN (i + 1) - i + 1 ELSE 0
        /\ \A j \in 1..((i + 1) - i + 1) : t[j] = s[i + j - 1]
    BY <1>2, SubSeqProperties
  <2>2. (i + 1) - i + 1 = 2 /\ i <= i + 1 /\ i + 1 - 1 = i /\ i + 2 - 1 = i + 1
    OBVIOUS
  <2>3. Len(t) = 2 /\ t[1] = s[i + 1 - 1] /\ t[2] = s[i + 2 - 1]
    BY <2>1, <2>2
  <2>4. QED
    BY <2>1, <2>2, <2>3
<1>4. t = Blank <=> t[1] = "nl" /\ t[2] = "nl"
  <2>1. Blank \in Seq(Chars) /\ Len(Blank) = 2 /\ Blank[1] = "nl" /\ Blank[2] = "nl"
    <3>1. "nl" \in Chars
      BY DEF Chars
    <3>2. QED
      BY <3>1 DEF Blank
  <2>2. ASSUME t[1] = "nl", t[2] = "nl"  PROVE t = Blank
    <3>1. \A j \in 1..Len(t) : t[j] = Blank[j]
      BY <1>3, <2>1, <2>2
    <3>2. QED
      BY <1>3, <2>1, <3>1, SeqEqual
  <2>3. QED
    BY <2>1, <2>2
<1> HIDE DEF t
<1>5. i \in Breaks(s) <=> t = Blank
  BY DEF Breaks, t
<1>6. QED
  BY <1>3, <1>4, <1>5

(* Without a break the event is the whole of s, but for a newline; with    *)
(* one, the first is where the event ends.                                 *)
LEMMA BreaksOfRest ==
  ASSUME NEW R, NEW e, NEW Q, Begins(R, e, Q), NEW s, Starts(s, R)
  PROVE  /\ Breaks(s) = {} => Len(s) <= Len(e.text) + 3
         /\ Breaks(s) # {} =>
              /\ (CHOOSE i \in Breaks(s) : \A j \in Breaks(s) : i <= j) = Len(e.text) + 3
              /\ Len(s) >= Len(e.text) + 4
              /\ Len(R) = Len(e.text) + 4 + Len(Q)
              /\ \A i \in 1..Len(Q) : R[Len(e.text) + 4 + i] = Q[i]
<1> DEFINE m == Len(e.text)
<1>1. m \in Nat /\ Len(R) \in Nat /\ Len(s) \in Nat /\ s \in Seq(Chars) /\ Len(s) <= Len(R)
  BY LenProperties DEF Begins, Starts
<1>2. \A i \in 1..Len(s) : s[i] = R[i]
  BY DEF Starts
<1>3. \A i \in 1..(m + 2) : R[i] # "nl"
  BY DEF Begins
<1>4. Len(R) = m + 2 \/ (Len(R) = m + 4 + Len(Q) /\ R[m + 3] = "nl" /\ R[m + 4] = "nl"
                         /\ \A i \in 1..Len(Q) : R[m + 4 + i] = Q[i])
  BY DEF Begins
<1> HIDE DEF m
<1>5. ASSUME Len(s) >= m + 4  PROVE m + 3 \in Breaks(s)
  <2>1. m + 3 \in 1..(Len(s) - 1) /\ m + 3 \in 1..Len(s) /\ m + 4 \in 1..Len(s)
        /\ m + 3 + 1 = m + 4 /\ Len(R) # m + 2
    BY <1>1, <1>5
  <2>2. s[m + 3] = "nl" /\ s[m + 3 + 1] = "nl"
    BY <2>1, <1>2, <1>4
  <2>3. QED
    BY <2>1, <2>2, <1>1, BreakAt
<1>6. \A i \in Breaks(s) : i \in 1..(Len(s) - 1) /\ i >= m + 3
  <2>1. TAKE i \in Breaks(s)
  <2>2. i \in 1..(Len(s) - 1)
    BY DEF Breaks
  <2>3. s[i] = "nl" /\ i \in 1..Len(s)
    BY <2>2, <1>1, BreakAt
  <2>4. R[i] = "nl"
    BY <2>3, <1>2
  <2>5. i \notin 1..(m + 2)
    BY <2>4, <1>3
  <2>6. QED
    BY <2>2, <2>5, <1>1
<1>7. Breaks(s) = {} => Len(s) <= m + 3
  BY <1>5, <1>1
<1>8. ASSUME Breaks(s) # {}
      PROVE  /\ (CHOOSE i \in Breaks(s) : \A j \in Breaks(s) : i <= j) = m + 3
             /\ Len(s) >= m + 4
             /\ Len(R) = m + 4 + Len(Q)
             /\ \A i \in 1..Len(Q) : R[m + 4 + i] = Q[i]
  <2>1. PICK b \in Breaks(s) : TRUE
    BY <1>8
  <2>2. Len(s) >= m + 4
    BY <2>1, <1>6, <1>1
  <2>3. m + 3 \in Breaks(s) /\ \A j \in Breaks(s) : m + 3 <= j
    BY <2>2, <1>5, <1>6, <1>1
  <2>4. \A i \in Breaks(s) : (\A j \in Breaks(s) : i <= j) => i = m + 3
    BY <2>3, <1>6, <1>1
  <2>5. (CHOOSE i \in Breaks(s) : \A j \in Breaks(s) : i <= j) = m + 3
    BY <2>3, <2>4
  <2>6. QED
    BY <2>2, <2>5, <1>4, <1>1
<1>9. QED
  BY <1>7, <1>8 DEF m

LEMMA WholeFrame ==
  ASSUME NEW R, NEW e \in SentEvent, NEW Q, Begins(R, e, Q), NEW s, Starts(s, R), Len(s) = Len(e.text) + 2
  PROVE  Parsed(s) = <<e>>
<1> DEFINE m == Len(e.text)
<1>1. m \in Nat /\ s \in Seq(Chars) /\ \A i \in 1..(m + 2) : s[i] = R[i]
  BY DEF Begins, Starts
<1>2. R[1] = e.kind /\ R[m + 2] = "end" /\ \A i \in 1..m : R[i + 1] = e.text[i]
  BY DEF Begins
<1>3. e.kind \in Kinds /\ e.text \in Seq(Letters) /\ e = [kind |-> e.kind, text |-> e.text]
  BY DEF SentEvent
<1> DEFINE t == SubSeq(s, 2, Len(s) - 1)
<1>4. t = e.text
  <2>1. Len(s) - 1 = m + 1 /\ 2 \in Int /\ m + 1 \in Int
    BY <1>1
  <2>2. \A i \in 1..m : e.text[i] \in Chars
    <3>1. \A i \in 1..m : e.text[i] \in Letters
      BY <1>3, ElementOfSeq
    <3>2. QED
      BY <3>1 DEF Chars
  <2>3. \A i \in 2..(m + 1) : s[i] = e.text[i - 1] /\ i - 1 \in 1..m
    <3>1. TAKE i \in 2..(m + 1)
    <3>2. i - 1 \in 1..m /\ (i - 1) + 1 = i /\ i \in 1..(m + 2)
      BY <1>1
    <3>3. QED
      BY <3>2, <1>1, <1>2
  <2>4. /\ t \in Seq(Chars) /\ Len(t) = IF 2 <= m + 1 THEN (m + 1) - 2 + 1 ELSE 0
        /\ \A i \in 1..((m + 1) - 2 + 1) : t[i] = s[2 + i - 1]
    <3>1. \A i \in 2..(m + 1) : s[i] \in Chars
      BY <2>2, <2>3
    <3> HIDE DEF m
    <3>2. /\ SubSeq(s, 2, m + 1) \in Seq(Chars)
          /\ Len(SubSeq(s, 2, m + 1)) = IF 2 <= m + 1 THEN (m + 1) - 2 + 1 ELSE 0
          /\ \A i \in 1..((m + 1) - 2 + 1) : SubSeq(s, 2, m + 1)[i] = s[2 + i - 1]
      BY <2>1, <3>1, SubSeqProperties
    <3>3. QED
      BY <3>2, <2>1
  <2> HIDE DEF t
  <2>5. (m + 1) - 2 + 1 = m /\ (2 <= m + 1 \/ m = 0)
    BY <1>1
  <2>6. Len(t) = m
    BY <2>4, <2>5
  <2>7. \A i \in 1..m : t[i] = e.text[i]
    <3>1. TAKE i \in 1..m
    <3>2. 2 + i - 1 \in 2..(m + 1) /\ (2 + i - 1) - 1 = i
      BY <1>1
    <3>3. t[i] = s[2 + i - 1]
      BY <2>4, <2>5
    <3>4. QED
      BY <3>2, <3>3, <2>3
  <2>8. e.text \in Seq(Chars)
    <3>1. Letters \subseteq Chars
      BY DEF Chars
    <3>2. QED
      BY <3>1, <1>3, SeqMonotonic
  <2>9. QED
    BY <2>4, <2>6, <2>7, <2>8, SeqEqual
<1>5. Len(s) >= 2 /\ Last(s) = "end" /\ s[1] = e.kind
  <2>1. Len(s) \in 1..(m + 2) /\ 1 \in 1..(m + 2) /\ Len(s) >= 2
    BY <1>1
  <2>2. QED
    BY <2>1, <1>1, <1>2 DEF Last
<1>6. Parsed(s) = <<[kind |-> s[1], text |-> t]>>
  BY <1>5 DEF Parsed
<1> HIDE DEF t
<1>7. QED
  BY <1>3, <1>4, <1>5, <1>6

LEMMA PartOfFrame ==
  ASSUME NEW R, NEW e \in SentEvent, NEW Q, Begins(R, e, Q), NEW s, Starts(s, R), Len(s) < Len(e.text) + 2
  PROVE  Parsed(s) = <<>>
<1>1. Len(e.text) \in Nat /\ Len(s) \in Nat /\ \A i \in 1..Len(s) : s[i] = R[i]
  BY LenProperties DEF Begins, Starts
<1>2. CASE Len(s) >= 2
  <2>1. Len(s) \in 1..Len(s) /\ Len(s) \in 1..(Len(e.text) + 1)
    BY <1>1, <1>2
  <2>2. Last(s) # "end"
    BY <2>1, <1>1 DEF Last, Begins
  <2>3. QED
    BY <2>2 DEF Parsed
<1>3. CASE ~(Len(s) >= 2)
  BY <1>3 DEF Parsed
<1>4. QED
  BY <1>2, <1>3

(* Nothing has been damaged: the browser's decoder does not.               *)
Clean == reader = "browser" \/ ~torn

GotOK ==
  /\ got \in Seq(SentEvent) /\ Len(got) <= Len(sent)
  /\ \A i \in 1..Len(got) : got[i] = sent[i]
  /\ reader = "provider" => \A i \in 1..Len(got) : got[i].kind # "done"

(* What is decoded or on its way is what R, the rest of the stream, begins *)
(* with, and all of it unless the connection was cut.                      *)
Ahead(R) ==
  /\ Starts(buffer, R) /\ unread \in Seq(Chars)
  /\ Len(buffer) + Len(unread) <= Len(R)
  /\ ~short => Len(buffer) + Len(unread) = Len(R)
  /\ \A i \in 1..Len(unread) : unread[i] = R[Len(buffer) + i]

Underway == \E tail \in Tails : \E from : Rests(from, sent, tail) /\ Ahead(from[Len(got) + 1])

SplitOK == split => reader = "browser" /\ (short \/ unread # <<>>)

(* The inductive invariant.                                                *)
FramesTyped ==
  /\ reader \in {"provider", "browser"} /\ sent \in Seq(SentEvent)
  /\ {split, torn, short} \subseteq BOOLEAN
  /\ reading \in {"bytes", "frames"} \cup Outcomes
  /\ reader = "provider" => reading \in {"bytes", "frames", "ended", "broken"}

FramesOK ==
  /\ FramesTyped
  /\ Clean => GotOK
  /\ Clean /\ reading \in {"bytes", "frames"} => Underway /\ SplitOK
  /\ Clean /\ reading = "bytes" => Breaks(buffer) = {}
  /\ AllEvents /\ AnswerIsWhole

LEMMA SentKnown == FramesInit => sent \in Seq(SentEvent)
<1>1. ASSUME FramesInit  PROVE sent \in Seq(SentEvent)
  <2>1. reader \in DOMAIN Scripts /\ sent \in Scripts[reader]
    BY <1>1, FramesAssumption DEF FramesInit
  <2>2. Scripts[reader] \subseteq Seq(SentEvent)
    BY <2>1, FramesAssumption
  <2>3. QED
    BY <2>1, <2>2
<1>2. QED
  BY <1>1

LEMMA NothingBuffered == Breaks(<<>>) = {}
<1>1. Len(<<>>) = 0
  BY EmptySeq
<1>2. 1..(0 - 1) = {}
  OBVIOUS
<1>3. QED
  BY <1>1, <1>2 DEF Breaks

LEMMA FramesBegin == FramesInit => FramesOK
<1> SUFFICES ASSUME FramesInit  PROVE FramesOK
  OBVIOUS
<1>1. /\ reader \in {"provider", "browser"} /\ split = FALSE /\ buffer = <<>> /\ got = <<>>
      /\ reading = "bytes" /\ torn = FALSE /\ short = FALSE
  BY DEF FramesInit
<1>2. sent \in Seq(SentEvent)
  BY SentKnown
<1>3. FramesTyped
  BY <1>1, <1>2 DEF FramesTyped
<1>4. Len(sent) \in Nat /\ Len(<<>>) = 0 /\ <<>> \in Seq(SentEvent) /\ <<>> \in Seq(Chars)
  BY <1>2, LenProperties, EmptySeq
<1>5. GotOK
  BY <1>1, <1>4 DEF GotOK
<1>6. Underway
  <2>1. PICK tail \in Tails : unread = Encoded(sent, tail)
    BY DEF FramesInit, Tails
  <2>2. PICK from : Rests(from, sent, tail) /\ from[1] = Encoded(sent, tail)
    BY <1>2, EncodedRests
  <2>3. from[1] \in Seq(Chars)
    <3>1. 1 \in 1..(Len(sent) + 1)
      BY <1>4
    <3>2. QED
      BY <2>2, <3>1 DEF Rests
  <2>4. Len(from[1]) \in Nat
    BY <2>3, LenProperties
  <2>5. Ahead(from[1])
    <3>1. buffer = <<>> /\ unread = from[1]
      BY <1>1, <2>1, <2>2
    <3>2. Starts(buffer, from[1])
      BY <3>1, <1>4, <2>4 DEF Starts
    <3>3. \A i \in 1..Len(unread) : 0 + i = i
      BY <3>1, <2>4
    <3>4. QED
      BY <3>1, <3>2, <3>3, <1>4, <2>3, <2>4 DEF Ahead
  <2>6. Len(got) + 1 = 1
    BY <1>1, <1>4
  <2>7. QED
    BY <2>2, <2>5, <2>6 DEF Underway
<1>7. SplitOK /\ Breaks(buffer) = {}
  BY <1>1, NothingBuffered DEF SplitOK
<1>8. AllEvents /\ AnswerIsWhole
  BY <1>1 DEF AllEvents, AnswerIsWhole, Outcomes
<1>9. QED
  BY <1>3, <1>5, <1>6, <1>7, <1>8 DEF FramesOK

-----------------------------------------------------------------------------
(* A chunk that damages nothing moves characters from unread to buffer.    *)
LEMMA CharsMove ==
  ASSUME NEW R, Ahead(R), NEW n \in 0..Len(unread), short' = short,
         buffer' = buffer \o SubSeq(unread, 1, n),
         unread' = SubSeq(unread, n + 1, Len(unread))
  PROVE  Ahead(R)' /\ Len(unread') = Len(unread) - n
<1> DEFINE c == SubSeq(unread, 1, n)
           u == SubSeq(unread, n + 1, Len(unread))
           l == Len(unread)
           b == Len(buffer)
<1>1. /\ buffer \in Seq(Chars) /\ unread \in Seq(Chars) /\ b \in Nat /\ l \in Nat
      /\ \A i \in 1..l : unread[i] \in Chars
  BY LenProperties, ElementOfSeq DEF Ahead, Starts
<1>2. /\ b + l <= Len(R) /\ (~short => b + l = Len(R))
      /\ \A i \in 1..b : buffer[i] = R[i]
      /\ \A i \in 1..l : unread[i] = R[b + i]
  BY DEF Ahead, Starts
<1> HIDE DEF l, b
<1>3. n \in Nat /\ n <= l
  BY <1>1 DEF l
<1>4. /\ c \in Seq(Chars) /\ Len(c) = n
      /\ \A i \in 1..n : c[i] = unread[i]
  <2>1. \A i \in 1..n : unread[i] \in Chars
    BY <1>1, <1>3
  <2>2. /\ c \in Seq(Chars) /\ Len(c) = IF 1 <= n THEN n - 1 + 1 ELSE 0
        /\ \A i \in 1..(n - 1 + 1) : c[i] = unread[1 + i - 1]
    BY <2>1, <1>3, SubSeqProperties
  <2>3. n - 1 + 1 = n /\ (n = 0 \/ 1 <= n) /\ \A i \in 1..n : 1 + i - 1 = i
    BY <1>3
  <2>4. QED
    BY <2>2, <2>3
<1>5. /\ u \in Seq(Chars) /\ Len(u) = l - n
      /\ \A i \in 1..(l - n) : u[i] = unread[n + i]
  <2>1. \A i \in (n + 1)..l : unread[i] \in Chars
    BY <1>1, <1>3
  <2>2. u = SubSeq(unread, n + 1, l)
    BY DEF l
  <2>3. /\ u \in Seq(Chars) /\ Len(u) = IF n + 1 <= l THEN l - (n + 1) + 1 ELSE 0
        /\ \A i \in 1..(l - (n + 1) + 1) : u[i] = unread[(n + 1) + i - 1]
    BY <2>1, <2>2, <1>1, <1>3, SubSeqProperties
  <2>4. l - (n + 1) + 1 = l - n /\ (n + 1 <= l \/ l - n = 0) /\ \A i \in 1..(l - n) : (n + 1) + i - 1 = n + i
    BY <1>1, <1>3
  <2>5. QED
    BY <2>3, <2>4
<1> HIDE DEF c, u
<1>6. /\ buffer \o c \in Seq(Chars) /\ Len(buffer \o c) = b + n
      /\ \A i \in 1..(b + n) : (buffer \o c)[i] = IF i <= b THEN buffer[i] ELSE c[i - b]
  <2>1. Len(buffer) = b
    BY DEF b
  <2>2. QED
    BY <1>1, <1>4, <2>1, ConcatProperties
<1>7. buffer' = buffer \o c /\ unread' = u
  BY DEF c, u
<1>8. \A i \in 1..(b + n) : buffer'[i] = R[i]
  <2>1. TAKE i \in 1..(b + n)
  <2>2. CASE i <= b
    <3>1. i \in 1..b
      BY <2>2, <1>1, <1>3
    <3>2. QED
      BY <3>1, <2>2, <1>2, <1>6, <1>7
  <2>3. CASE ~(i <= b)
    <3>1. i - b \in 1..n /\ i - b \in 1..l /\ b + (i - b) = i
      BY <2>3, <1>1, <1>3
    <3>2. buffer'[i] = c[i - b] /\ c[i - b] = unread[i - b]
      BY <2>3, <3>1, <1>4, <1>6, <1>7
    <3>3. unread[i - b] = R[b + (i - b)]
      BY <3>1, <1>2
    <3>4. QED
      BY <3>1, <3>2, <3>3
  <2>4. QED
    BY <2>2, <2>3
<1>9. \A i \in 1..(l - n) : unread'[i] = R[(b + n) + i]
  <2>1. TAKE i \in 1..(l - n)
  <2>2. n + i \in 1..l /\ b + (n + i) = (b + n) + i
    BY <1>1, <1>3
  <2>3. QED
    BY <2>2, <1>2, <1>5, <1>7
<1>10. Len(buffer') = b + n /\ Len(unread') = l - n /\ (b + n) + (l - n) = b + l /\ b + n <= b + l
  <2>1. (b + n) + (l - n) = b + l /\ b + n <= b + l
    BY <1>1, <1>3
  <2>2. QED
    BY <2>1, <1>5, <1>6, <1>7
<1>11. Starts(buffer, R)'
  <2>1. b + n <= Len(R)
    BY <1>2, <1>10
  <2>2. QED
    BY <2>1, <1>6, <1>7, <1>8, <1>10 DEF Starts
<1>12. Ahead(R)'
  BY <1>2, <1>5, <1>7, <1>9, <1>10, <1>11 DEF Ahead
<1>13. QED
  BY <1>10, <1>12 DEF l

LEMMA ReadKeeps == ASSUME FramesOK, Read PROVE FramesOK'
<1>1. reading = "bytes" /\ reading' = "frames"
      /\ reader' = reader /\ sent' = sent /\ got' = got /\ short' = short
  BY DEF Read
<1>2. PICK n \in 0..Len(unread), inside \in BOOLEAN :
        /\ IsChunk(n, inside)
        /\ buffer' = buffer \o Decoded(SubSeq(unread, 1, n), inside)
        /\ unread' = SubSeq(unread, n + 1, Len(unread))
        /\ split' = inside
        /\ torn' = (torn \/ inside)
  BY DEF Read
<1>3. FramesTyped'
  BY <1>1, <1>2 DEF FramesOK, FramesTyped
<1>4. AllEvents' /\ AnswerIsWhole'
  BY <1>1 DEF AllEvents, AnswerIsWhole, Outcomes
<1>5. ASSUME Clean'  PROVE Clean /\ (reader # "browser" => inside = FALSE)
  BY <1>5, <1>1, <1>2 DEF Clean, FramesOK, FramesTyped
<1>6. ASSUME Clean'  PROVE GotOK'
  BY <1>5, <1>6, <1>1 DEF FramesOK, GotOK
<1>7. ASSUME Clean'  PROVE Underway' /\ SplitOK'
  <2>1. Clean /\ Underway /\ SplitOK
    BY <1>1, <1>5, <1>7 DEF FramesOK
  <2>2. buffer' = buffer \o SubSeq(unread, 1, n)
    <3>1. CASE reader = "browser"
      BY <1>2, <3>1 DEF Decoded
    <3>2. CASE reader # "browser"
      <4>1. inside = FALSE /\ split = FALSE
        BY <1>5, <1>7, <2>1, <3>2 DEF SplitOK, FramesOK, FramesTyped
      <4>2. Decoded(SubSeq(unread, 1, n), inside) = SubSeq(unread, 1, n) \o <<>>
        BY <3>2, <4>1 DEF Decoded, DecodedAlone
      <4>3. SubSeq(unread, 1, n) \in Seq(Chars)
        <5>1. unread \in Seq(Chars)
          BY <2>1 DEF Underway, Ahead
        <5>2. \A i \in 1..n : unread[i] \in Chars
          BY <5>1, LenProperties, ElementOfSeq
        <5>3. QED
          BY <5>2, SubSeqProperties
      <4>4. QED
        BY <1>2, <4>2, <4>3, ConcatEmptySeq
    <3>3. QED
      BY <3>1, <3>2
  <2>0. PICK tail \in Tails : \E from : Rests(from, sent, tail) /\ Ahead(from[Len(got) + 1])
    BY <2>1 DEF Underway
  <2>3. PICK from : Rests(from, sent, tail) /\ Ahead(from[Len(got) + 1])
    BY <2>0
  <2>4. PICK R : R = from[Len(got) + 1]
    OBVIOUS
  <2>5. Ahead(R)' /\ Len(unread') = Len(unread) - n
    BY <2>2, <2>3, <2>4, <1>1, <1>2, CharsMove
  <2>6. Underway'
    <3>1. Rests(from, sent, tail)'
      BY <2>3, <1>1 DEF Rests
    <3>2. Ahead(from[Len(got) + 1])'
      BY <2>4, <2>5, <1>1
    <3>3. QED
      BY <3>1, <3>2 DEF Underway
  <2>7. SplitOK'
    <3>1. ASSUME inside = TRUE  PROVE reader = "browser" /\ unread' # <<>>
      <4>1. reader = "browser" /\ n < Len(unread)
        BY <1>2, <1>5, <1>7, <3>1 DEF IsChunk
      <4>2. unread \in Seq(Chars) /\ Len(unread) \in Nat
        BY <2>3, LenProperties DEF Ahead
      <4>3. Len(unread') # 0
        BY <2>5, <4>1, <4>2
      <4>4. QED
        BY <4>1, <4>3, EmptySeq
    <3>2. QED
      BY <3>1, <1>1, <1>2 DEF SplitOK
  <2>8. QED
    BY <2>6, <2>7
<1>8. QED
  BY <1>1, <1>3, <1>4, <1>6, <1>7 DEF FramesOK

LEMMA NoMoreFramesKeeps == ASSUME FramesOK, NoMoreFrames PROVE FramesOK'
<1>1. reading = "frames" /\ Breaks(buffer) = {} /\ reading' = "bytes"
      /\ UNCHANGED <<reader, sent, unread, split, buffer, got, torn, short>>
  BY DEF NoMoreFrames
<1>2. FramesTyped'
  BY <1>1 DEF FramesOK, FramesTyped
<1>3. Clean' = Clean /\ GotOK' = GotOK /\ Underway' = Underway /\ SplitOK' = SplitOK
  BY <1>1 DEF Clean, GotOK, Underway, SplitOK, Ahead, Rests, Starts
<1>4. AllEvents' /\ AnswerIsWhole'
  BY <1>1 DEF AllEvents, AnswerIsWhole, Outcomes
<1>5. Breaks(buffer)' = {}
  BY <1>1
<1>6. QED
  BY <1>1, <1>2, <1>3, <1>4, <1>5 DEF FramesOK

LEMMA CutOffKeeps == ASSUME FramesOK, CutOff PROVE FramesOK'
<1>1. reading = "bytes" /\ reading' = "bytes" /\ unread' = <<>> /\ short' = TRUE
      /\ UNCHANGED <<reader, sent, split, buffer, got, torn>>
  BY DEF CutOff
<1>2. FramesTyped'
  BY <1>1 DEF FramesOK, FramesTyped
<1>3. Clean' = Clean /\ GotOK' = GotOK /\ Breaks(buffer)' = Breaks(buffer)
  BY <1>1 DEF Clean, GotOK
<1>4. AllEvents' /\ AnswerIsWhole'
  BY <1>1 DEF AllEvents, AnswerIsWhole, Outcomes
<1>5. ASSUME Clean, SplitOK  PROVE SplitOK'
  BY <1>1, <1>5 DEF SplitOK
<1>6. ASSUME Underway  PROVE Underway'
  <2>0. PICK tail \in Tails : \E from : Rests(from, sent, tail) /\ Ahead(from[Len(got) + 1])
    BY <1>6 DEF Underway
  <2>1. PICK from : Rests(from, sent, tail) /\ Ahead(from[Len(got) + 1])
    BY <2>0
  <2>2. PICK R : R = from[Len(got) + 1]
    OBVIOUS
  <2>3. /\ buffer \in Seq(Chars) /\ Len(buffer) <= Len(R) /\ Len(buffer) \in Nat
        /\ \A i \in 1..Len(buffer) : buffer[i] = R[i]
    BY <2>1, <2>2, LenProperties DEF Ahead, Starts
  <2>4. <<>> \in Seq(Chars) /\ Len(<<>>) = 0 /\ Len(buffer) + 0 = Len(buffer)
    BY <2>3, EmptySeq
  <2>5. Ahead(R)'
    BY <1>1, <2>3, <2>4 DEF Ahead, Starts
  <2>6. Rests(from, sent, tail)' /\ R = from[Len(got') + 1]
    BY <1>1, <2>1, <2>2 DEF Rests
  <2>7. QED
    BY <2>5, <2>6 DEF Underway
<1>7. QED
  BY <1>1, <1>2, <1>3, <1>4, <1>5, <1>6 DEF FramesOK

LEMMA FailsKeeps == ASSUME FramesOK, Fails PROVE FramesOK'
<1>1. reading = "bytes" /\ reading' = "broken"
      /\ UNCHANGED <<reader, sent, unread, split, buffer, got, torn, short>>
  BY DEF Fails
<1>2. FramesTyped'
  BY <1>1 DEF FramesOK, FramesTyped, Outcomes
<1>3. Clean' = Clean /\ GotOK' = GotOK
  BY <1>1 DEF Clean, GotOK
<1>4. AllEvents' /\ AnswerIsWhole'
  BY <1>1 DEF AllEvents, AnswerIsWhole
<1>5. QED
  BY <1>1, <1>2, <1>3, <1>4 DEF FramesOK

(* What is left of the stream when k of its events have been dispatched.   *)
LEMMA RestAfter ==
  ASSUME NEW events \in Seq(SentEvent), NEW tail \in Tails, NEW from, Rests(from, events, tail),
         NEW k \in 0..Len(events)
  PROVE  /\ Len(events) \in Nat
         /\ k = Len(events) => from[k + 1] = <<>>
         /\ k < Len(events) =>
              /\ events[k + 1] \in SentEvent
              /\ Begins(from[k + 1], events[k + 1], from[k + 2])
              /\ from[k + 2] = <<>> => k + 1 = Len(events)
<1>1. Len(events) \in Nat
  BY LenProperties
<1>2. k = Len(events) => from[k + 1] = <<>>
  BY DEF Rests
<1>3. ASSUME k < Len(events)
      PROVE  /\ events[k + 1] \in SentEvent
             /\ Begins(from[k + 1], events[k + 1], from[k + 2])
             /\ from[k + 2] = <<>> => k + 1 = Len(events)
  <2>1. k + 1 \in 1..Len(events) /\ (k + 1) + 1 = k + 2
    BY <1>1, <1>3
  <2>2. events[k + 1] \in SentEvent
    BY <2>1, ElementOfSeq
  <2>3. Begins(from[k + 1], events[k + 1], from[k + 2])
    BY <2>1, RestBegins
  <2>4. ASSUME k + 1 # Len(events)  PROVE from[k + 2] # <<>>
    <3>1. k + 2 \in 1..Len(events)
      BY <2>4, <2>1, <1>1
    <3>2. Begins(from[k + 2], events[k + 2], from[(k + 2) + 1])
      BY <3>1, RestBegins
    <3>3. Len(from[k + 2]) # 0
      <4>1. /\ Len(events[k + 2].text) \in Nat /\ Len(from[(k + 2) + 1]) \in Nat
            /\ \/ Len(from[k + 2]) = Len(events[k + 2].text) + 2
               \/ Len(from[k + 2]) = Len(events[k + 2].text) + 4 + Len(from[(k + 2) + 1])
        BY <3>2 DEF Begins
      <4>2. PICK a, b, c : /\ a = Len(events[k + 2].text) /\ b = Len(from[(k + 2) + 1])
                           /\ c = Len(from[k + 2])
        OBVIOUS
      <4>3. a \in Nat /\ b \in Nat /\ (c = a + 2 \/ c = a + 4 + b)
        BY <4>1, <4>2
      <4>4. c # 0
        BY ONLY <4>3
      <4>5. QED
        BY <4>2, <4>4
    <3>4. QED
      BY <3>3, EmptySeq
  <2>5. QED
    BY <2>2, <2>3, <2>4
<1>4. QED
  BY <1>1, <1>2, <1>3

LEMMA PartStarts ==
  ASSUME NEW R, NEW s, Starts(s, R), NEW n \in 0..Len(s)
  PROVE  Starts(SubSeq(s, 1, n), R) /\ Len(SubSeq(s, 1, n)) = n
<1>1. s \in Seq(Chars) /\ Len(s) \in Nat /\ Len(s) <= Len(R) /\ \A i \in 1..Len(s) : s[i] = R[i]
  BY LenProperties DEF Starts
<1>2. \A i \in 1..n : i \in 1..Len(s) /\ s[i] \in Chars
  BY <1>1, ElementOfSeq
<1> DEFINE c == SubSeq(s, 1, n)
<1>3. /\ c \in Seq(Chars) /\ Len(c) = n
      /\ \A i \in 1..n : c[i] = s[i]
  <2>2. /\ c \in Seq(Chars) /\ Len(c) = IF 1 <= n THEN n - 1 + 1 ELSE 0
        /\ \A i \in 1..(n - 1 + 1) : c[i] = s[1 + i - 1]
    BY <1>2, SubSeqProperties
  <2>3. n - 1 + 1 = n /\ (n = 0 \/ 1 <= n) /\ \A i \in 1..n : 1 + i - 1 = i
    BY <1>1
  <2>4. QED
    BY <2>2, <2>3
<1> HIDE DEF c
<1>4. n <= Len(R)
  BY <1>1
<1>5. Starts(c, R)
  BY <1>1, <1>2, <1>3, <1>4 DEF Starts
<1>6. QED
  BY <1>3, <1>5 DEF c

LEMMA GotGrows ==
  ASSUME NEW events \in Seq(SentEvent), NEW so \in Seq(SentEvent), Len(so) < Len(events),
         \A i \in 1..Len(so) : so[i] = events[i]
  PROVE  LET more == so \o <<events[Len(so) + 1]>>
         IN  /\ more \in Seq(SentEvent) /\ Len(more) = Len(so) + 1
             /\ \A i \in 1..Len(more) : more[i] = events[i]
             /\ more[Len(so) + 1] = events[Len(so) + 1]
             /\ \A i \in 1..Len(more) : i \in 1..Len(so) \/ i = Len(so) + 1
<1> DEFINE e == events[Len(so) + 1]
           k == Len(so)
           more == so \o <<e>>
<1>1. k \in Nat /\ Len(events) \in Nat
  BY LenProperties
<1>2. e \in SentEvent
  <2>1. Len(so) + 1 \in 1..Len(events)
    BY <1>1
  <2>2. QED
    BY <2>1, ElementOfSeq
<1> HIDE DEF e
<1>3. <<e>> \in Seq(SentEvent) /\ Len(<<e>>) = 1 /\ <<e>>[1] = e
  BY <1>2
<1>4. /\ more \in Seq(SentEvent) /\ Len(more) = k + 1
      /\ \A i \in 1..(k + 1) : more[i] = IF i <= k THEN so[i] ELSE <<e>>[i - k]
  <2>1. /\ more \in Seq(SentEvent) /\ Len(more) = k + Len(<<e>>)
        /\ \A i \in 1..(k + Len(<<e>>)) : more[i] = IF i <= k THEN so[i] ELSE <<e>>[i - k]
    BY <1>3, ConcatProperties
  <2>2. QED
    BY <2>1, <1>3
<1> HIDE DEF more
<1>5. \A i \in 1..(k + 1) : (i \in 1..k /\ i <= k) \/ (i = k + 1 /\ ~(i <= k) /\ i - k = 1)
  BY <1>1
<1>6. \A i \in 1..(k + 1) : more[i] = events[i]
  <2>1. TAKE i \in 1..(k + 1)
  <2>2. CASE i \in 1..k /\ i <= k
    BY <2>2, <1>4
  <2>3. CASE i = k + 1 /\ ~(i <= k) /\ i - k = 1
    <3>1. more[i] = e
      BY <2>3, <1>3, <1>4
    <3>2. QED
      BY <3>1, <2>3 DEF e
  <2>4. QED
    BY <2>2, <2>3, <1>5
<1>7. k + 1 \in 1..(k + 1)
  BY <1>1
<1>8. QED
  BY <1>4, <1>5, <1>6, <1>7 DEF more, e

LEMMA TakeFrameKeeps == ASSUME FramesOK, TakeFrame PROVE FramesOK'
<1> DEFINE first  == CHOOSE i \in Breaks(buffer) : \A j \in Breaks(buffer) : i <= j
           events == Parsed(SubSeq(buffer, 1, first - 1))
           done   == reader = "provider" /\ IsDone(events)
<1>1. /\ reading = "frames" /\ Breaks(buffer) # {}
      /\ buffer' = SubSeq(buffer, first + 2, Len(buffer))
      /\ got' = IF done THEN got ELSE got \o events
      /\ reading' = IF done THEN "ended" ELSE reading
      /\ reader' = reader /\ sent' = sent /\ unread' = unread /\ split' = split
      /\ torn' = torn /\ short' = short
  BY DEF TakeFrame
<1>2. FramesTyped'
  BY <1>1 DEF FramesOK, FramesTyped, Outcomes
<1>3. AnswerIsWhole'
  BY <1>1 DEF AnswerIsWhole
<1>4. Clean' = Clean
  BY <1>1 DEF Clean
<1>5. CASE ~Clean
  <2>1. torn = TRUE
    BY <1>5 DEF Clean, FramesOK, FramesTyped
  <2>2. AllEvents'
    BY <2>1, <1>1 DEF AllEvents
  <2>3. QED
    BY <1>2, <1>3, <1>4, <1>5, <2>2 DEF FramesOK
<1>6. CASE Clean
  <2>1. GotOK /\ Underway /\ SplitOK
    BY <1>1, <1>6 DEF FramesOK
  <2>0. PICK tail \in Tails : \E from : Rests(from, sent, tail) /\ Ahead(from[Len(got) + 1])
    BY <2>1 DEF Underway
  <2>2. PICK from : Rests(from, sent, tail) /\ Ahead(from[Len(got) + 1])
    BY <2>0
  <2>3. PICK k : k = Len(got)
    OBVIOUS
  <2>4. PICK R, Q : R = from[k + 1] /\ Q = from[k + 2]
    OBVIOUS
  <2>5. PICK evs : evs = sent
    OBVIOUS
  <2>6. evs \in Seq(SentEvent) /\ Rests(from, evs, tail) /\ Len(evs) \in Nat
    BY <2>2, <2>5, LenProperties DEF FramesOK, FramesTyped
  <2>7. k \in 0..Len(evs)
    BY <2>1, <2>3, <2>5, <2>6, LenProperties DEF GotOK
  <2>8. Ahead(R) /\ Starts(buffer, R)
    BY <2>2, <2>3, <2>4 DEF Ahead
  <2>9. k < Len(evs)
    <3>1. SUFFICES ASSUME k = Len(evs)  PROVE FALSE
      BY <2>6, <2>7
    <3>2. R = <<>>
      BY <3>1, <2>4, <2>6, <2>7, RestAfter
    <3>3. buffer \in Seq(Chars) /\ Len(buffer) <= 0 /\ Len(buffer) \in Nat
      BY <3>2, <2>8, EmptySeq, LenProperties DEF Starts
    <3>4. buffer = <<>>
      BY <3>3, EmptySeq
    <3>5. QED
      BY <3>4, <1>1, NothingBuffered
  <2>10. PICK e : e = evs[k + 1]
    OBVIOUS
  <2>11. e \in SentEvent /\ Begins(R, e, Q)
    BY <2>4, <2>6, <2>7, <2>9, <2>10, RestAfter
  <2>12. PICK m : m = Len(e.text)
    OBVIOUS
  <2>13. /\ first = m + 3 /\ Len(buffer) >= m + 4 /\ Len(R) = m + 4 + Len(Q)
         /\ \A i \in 1..Len(Q) : R[m + 4 + i] = Q[i]
    <3>1. PICK s : s = buffer
      OBVIOUS
    <3>2. Starts(s, R) /\ Breaks(s) # {}
      BY <3>1, <2>8, <1>1
    <3>3. /\ (CHOOSE i \in Breaks(s) : \A j \in Breaks(s) : i <= j) = m + 3
          /\ Len(s) >= m + 4 /\ Len(R) = m + 4 + Len(Q)
          /\ \A i \in 1..Len(Q) : R[m + 4 + i] = Q[i]
      BY <3>2, <2>11, <2>12, BreaksOfRest
    <3>4. QED
      BY <3>1, <3>3
  <2>14. m \in Nat /\ Len(Q) \in Nat /\ Len(buffer) \in Nat /\ Len(unread) \in Nat
         /\ buffer \in Seq(Chars) /\ unread \in Seq(Chars)
    BY <2>8, <2>11, <2>12, LenProperties DEF Begins, Ahead, Starts
  <2> HIDE DEF first
  <2>15. events = <<e>>
    <3>1. PICK s : s = SubSeq(buffer, 1, m + 2)
      OBVIOUS
    <3>2. m + 2 \in 0..Len(buffer) /\ first - 1 = m + 2
      BY <2>13, <2>14
    <3>3. Starts(s, R) /\ Len(s) = m + 2
      BY <3>1, <3>2, <2>8, PartStarts
    <3>4. Parsed(s) = <<e>>
      BY <3>3, <2>11, <2>12, WholeFrame
    <3>5. QED
      BY <3>1, <3>2, <3>4
  <2> HIDE DEF events
  <2>16. IsDone(events) <=> e.kind = "done"
    BY <2>15 DEF IsDone
  <2>17. CASE done
    <3>1. got' = got /\ reading' = "ended" /\ reader = "provider" /\ e.kind = "done"
      BY <1>1, <2>16, <2>17
    <3>2. GotOK'
      BY <3>1, <2>1, <1>1 DEF GotOK
    <3>3. AllEvents'
      <4>1. DOMAIN got = 1..Len(got)
        BY <2>1, LenProperties DEF GotOK
      <4>2. \A i \in DOMAIN got : got[i].kind # "done"
        BY <4>1, <3>1, <2>1 DEF GotOK
      <4>3. sent[Len(got) + 1].kind = "done"
        BY <3>1, <2>3, <2>5, <2>10
      <4>4. QED
        BY <4>2, <4>3, <3>1, <1>1 DEF AllEvents
    <3>4. QED
      BY <1>2, <1>3, <3>1, <3>2, <3>3 DEF FramesOK
  <2>18. CASE ~done
    <3>1. got' = got \o <<e>> /\ reading' = "frames" /\ (reader = "provider" => e.kind # "done")
      BY <1>1, <2>15, <2>16, <2>18
    <3>2. /\ got' \in Seq(SentEvent) /\ Len(got') = k + 1
          /\ \A i \in 1..Len(got') : got'[i] = evs[i]
          /\ got'[k + 1] = e
          /\ \A i \in 1..Len(got') : i \in 1..k \/ i = k + 1
      <4>1. PICK so : so = got
        OBVIOUS
      <4>2. so \in Seq(SentEvent) /\ Len(so) = k /\ (\A i \in 1..Len(so) : so[i] = evs[i])
        BY <4>1, <2>1, <2>3, <2>5 DEF GotOK
      <4>3. LET more == so \o <<evs[Len(so) + 1]>>
            IN  /\ more \in Seq(SentEvent) /\ Len(more) = Len(so) + 1
                /\ \A i \in 1..Len(more) : more[i] = evs[i]
                /\ more[Len(so) + 1] = evs[Len(so) + 1]
                /\ \A i \in 1..Len(more) : i \in 1..Len(so) \/ i = Len(so) + 1
        BY <4>2, <2>6, <2>9, GotGrows
      <4>4. got' = so \o <<evs[Len(so) + 1]>>
        BY <3>1, <4>1, <4>2, <2>10
      <4>5. QED
        BY <4>2, <4>3, <4>4, <2>10
    <3>3. GotOK'
      <4>1. k + 1 <= Len(evs)
        BY <2>6, <2>7, <2>9
      <4>2. reader = "provider" => \A i \in 1..Len(got') : got'[i].kind # "done"
        <5>1. \A i \in 1..k : got'[i] = got[i]
          <6>1. \A i \in 1..k : i \in 1..Len(got')
            BY <3>2, <2>7
          <6>2. QED
            BY <6>1, <3>2, <2>1, <2>3, <2>5 DEF GotOK
        <5>2. reader = "provider" => \A i \in 1..k : got[i].kind # "done"
          BY <2>1, <2>3 DEF GotOK
        <5>3. QED
          BY <5>1, <5>2, <3>1, <3>2
      <4>3. QED
        BY <4>1, <4>2, <3>2, <2>5, <1>1 DEF GotOK
    <3>4. Underway'
      <4>1. PICK b : b = buffer'
        OBVIOUS
      <4>2. /\ b \in Seq(Chars) /\ Len(b) = Len(buffer) - (m + 4)
            /\ \A i \in 1..Len(b) : b[i] = buffer[m + 4 + i]
        <5>1. \A i \in (m + 5)..Len(buffer) : buffer[i] \in Chars
          <6>1. \A i \in (m + 5)..Len(buffer) : i \in 1..Len(buffer)
            BY <2>14
          <6>2. QED
            BY <6>1, <2>14, ElementOfSeq
        <5>2. b = SubSeq(buffer, m + 5, Len(buffer))
          <6>1. first + 2 = m + 5
            BY <2>13, <2>14
          <6>2. QED
            BY <6>1, <4>1, <1>1
        <5>3. /\ b \in Seq(Chars)
              /\ Len(b) = IF m + 5 <= Len(buffer) THEN Len(buffer) - (m + 5) + 1 ELSE 0
              /\ \A i \in 1..(Len(buffer) - (m + 5) + 1) : b[i] = buffer[(m + 5) + i - 1]
          BY <5>1, <5>2, <2>14, SubSeqProperties
        <5>4. /\ Len(buffer) - (m + 5) + 1 = Len(buffer) - (m + 4)
              /\ m + 5 <= Len(buffer) \/ Len(buffer) - (m + 4) = 0
              /\ \A i \in Nat : (m + 5) + i - 1 = m + 4 + i
          BY <2>13, <2>14
        <5>5. Len(b) = Len(buffer) - (m + 4)
          BY <5>3, <5>4
        <5>6. \A i \in 1..Len(b) : i \in Nat /\ i \in 1..(Len(buffer) - (m + 5) + 1)
          BY <5>4, <5>5
        <5>7. QED
          BY <5>3, <5>4, <5>5, <5>6
      <4>3. PICK lb, lu, lq, l : lb = Len(buffer) /\ lu = Len(unread) /\ lq = Len(Q) /\ l = Len(b)
        OBVIOUS
      <4>4. /\ lb \in Nat /\ lu \in Nat /\ lq \in Nat /\ l \in Int /\ l + (m + 4) = lb
            /\ lb + lu <= m + 4 + lq /\ (~short => lb + lu = m + 4 + lq)
        BY <4>2, <4>3, <2>8, <2>13, <2>14 DEF Ahead
      <4>5. l + lu <= lq /\ l <= lq /\ (~short => l + lu = lq)
        BY <4>4, <2>14
      <4>6. \A i \in 1..l : b[i] = Q[i]
        <5>1. TAKE i \in 1..l
        <5>2. i \in 1..lq /\ m + 4 + i \in 1..lb
          BY <4>4, <4>5, <2>14
        <5>3. buffer[m + 4 + i] = R[m + 4 + i]
          BY <5>2, <4>3, <2>8 DEF Starts
        <5>4. QED
          BY <5>2, <5>3, <4>2, <4>3, <2>13
      <4>7. \A i \in 1..lu : unread[i] = Q[l + i]
        <5>1. TAKE i \in 1..lu
        <5>2. l + i \in 1..lq /\ m + 4 + (l + i) = lb + i
          <6>1. l \in Nat
            BY <4>3, <4>2, LenProperties
          <6>2. QED
            BY <6>1, <4>4, <4>5, <2>14
        <5>3. unread[i] = R[lb + i]
          BY <4>3, <2>8 DEF Ahead
        <5>4. Q[l + i] = R[m + 4 + (l + i)]
          BY <5>2, <4>3, <2>13
        <5>5. QED
          BY <5>2, <5>3, <5>4
      <4>8. Ahead(Q)'
        BY <4>1, <4>2, <4>3, <4>5, <4>6, <4>7, <2>14, <1>1 DEF Ahead, Starts
      <4>9. Rests(from, sent, tail)' /\ Q = from[Len(got') + 1]
        <5>1. Len(got') + 1 = k + 2
          BY <3>2, <2>7
        <5>2. QED
          BY <5>1, <2>2, <2>4, <1>1 DEF Rests
      <4>10. QED
        BY <4>8, <4>9 DEF Underway
    <3>5. SplitOK'
      BY <2>1, <1>1 DEF SplitOK
    <3>6. AllEvents'
      BY <3>1 DEF AllEvents, Outcomes
    <3>7. QED
      BY <1>2, <1>3, <3>1, <3>3, <3>4, <3>5, <3>6 DEF FramesOK
  <2>19. QED
    BY <2>17, <2>18
<1>7. QED
  BY <1>5, <1>6

(* What the browser dispatches at the end keeps the order, and is complete *)
(* unless the connection was cut.                                          *)
LEMMA EndComplete ==
  ASSUME FramesOK, Clean, reading = "bytes", unread = <<>>
  PROVE  LET events == got \o Parsed(Leftover)
         IN  /\ events \in Seq(SentEvent) /\ Len(events) <= Len(sent)
             /\ \A i \in 1..Len(events) : events[i] = sent[i]
             /\ ~short => Len(events) = Len(sent)
<1>1. GotOK /\ Underway /\ SplitOK /\ Breaks(buffer) = {} /\ sent \in Seq(SentEvent) /\ split \in BOOLEAN
  BY DEF FramesOK, FramesTyped
<1>0. PICK tail \in Tails : \E from : Rests(from, sent, tail) /\ Ahead(from[Len(got) + 1])
  BY <1>1 DEF Underway
<1>2. PICK from : Rests(from, sent, tail) /\ Ahead(from[Len(got) + 1])
  BY <1>0
<1>3. PICK k, evs, s, so, left : k = Len(got) /\ evs = sent /\ s = buffer /\ so = got /\ left = Leftover
  OBVIOUS
<1>4. PICK R, Q, e, m : R = from[k + 1] /\ Q = from[k + 2] /\ e = evs[k + 1] /\ m = Len(e.text)
  OBVIOUS
<1>5. /\ evs \in Seq(SentEvent) /\ so \in Seq(SentEvent) /\ Len(so) = k
      /\ Len(evs) \in Nat /\ k \in 0..Len(evs) /\ Rests(from, evs, tail)
      /\ \A i \in 1..k : so[i] = evs[i]
  <2>1. so \in Seq(SentEvent) /\ Len(so) <= Len(evs) /\ \A i \in 1..Len(so) : so[i] = evs[i]
    BY <1>1, <1>3 DEF GotOK
  <2>2. QED
    BY <2>1, <1>1, <1>2, <1>3, LenProperties
<1>6. /\ Starts(s, R) /\ (~short => Len(s) = Len(R)) /\ s \in Seq(Chars) /\ Len(s) \in Nat
      /\ Breaks(s) = {}
  <2>1. Ahead(R)
    BY <1>2, <1>3, <1>4
  <2>2. Len(unread) = 0
    BY EmptySeq
  <2>3. s \in Seq(Chars) /\ Len(s) \in Nat /\ Len(s) + 0 = Len(s)
    BY <2>1, <1>3, LenProperties DEF Ahead, Starts
  <2>4. QED
    BY <2>1, <2>2, <2>3, <1>1, <1>3 DEF Ahead
<1>7. split = TRUE => Parsed(left) = <<>> /\ short = TRUE
  <2>1. ASSUME split = TRUE  PROVE Parsed(left) = <<>> /\ short = TRUE
    <3>1. left = Append(s, "bad") /\ "bad" \in Chars
      BY <2>1, <1>3 DEF Leftover, Chars
    <3>2. Len(left) = Len(s) + 1 /\ left[Len(s) + 1] = "bad"
      BY <3>1, <1>6, AppendProperties
    <3>3. Last(left) # "end"
      BY <3>2 DEF Last
    <3>4. short = TRUE
      BY <2>1, <1>1 DEF SplitOK, FramesOK, FramesTyped
    <3>5. QED
      BY <3>3, <3>4 DEF Parsed
  <2>2. QED
    BY <2>1
<1>8. split = FALSE => left = IF s # <<>> /\ Last(s) = "nl" THEN Front(s) ELSE s
  BY <1>3 DEF Leftover
<1> DEFINE Right(events) ==
             /\ events \in Seq(SentEvent) /\ Len(events) <= Len(evs)
             /\ \A i \in 1..Len(events) : events[i] = evs[i]
             /\ ~short => Len(events) = Len(evs)
<1>9. ASSUME Parsed(left) = <<>>, ~short => k = Len(evs)  PROVE Right(so \o Parsed(left))
  <2>1. so \o Parsed(left) = so
    BY <1>5, <1>9, ConcatEmptySeq
  <2>2. QED
    BY <2>1, <1>5, <1>9
<1>10. ASSUME k < Len(evs), Parsed(left) = <<e>>, ~short => k + 1 = Len(evs)
       PROVE Right(so \o Parsed(left))
  <2>1. LET more == so \o <<evs[Len(so) + 1]>>
        IN  /\ more \in Seq(SentEvent) /\ Len(more) = Len(so) + 1
            /\ \A i \in 1..Len(more) : more[i] = evs[i]
            /\ more[Len(so) + 1] = evs[Len(so) + 1]
            /\ \A i \in 1..Len(more) : i \in 1..Len(so) \/ i = Len(so) + 1
    BY <1>5, <1>10, GotGrows
  <2>2. so \o Parsed(left) = so \o <<evs[Len(so) + 1]>>
    BY <1>4, <1>5, <1>10
  <2>3. k + 1 <= Len(evs)
    BY <1>5, <1>10
  <2>4. QED
    BY <2>1, <2>2, <2>3, <1>5, <1>10
<1> HIDE DEF Right
<1>11. ASSUME split = TRUE  PROVE Right(so \o Parsed(left))
  BY <1>7, <1>9, <1>11
<1>12. ASSUME split = FALSE, k = Len(evs)  PROVE Right(so \o Parsed(left))
  <2>1. R = <<>>
    BY <1>4, <1>5, <1>12, RestAfter
  <2>2. Len(s) = 0
    BY <2>1, <1>6, EmptySeq DEF Starts
  <2>3. s = <<>>
    BY <2>2, <1>6, EmptySeq
  <2>4. left = <<>>
    BY <2>3, <1>8, <1>12
  <2>5. Parsed(left) = <<>>
    BY <2>4, EmptySeq DEF Parsed
  <2>6. QED
    BY <2>5, <1>9, <1>12
<1>13. ASSUME split = FALSE, k < Len(evs)  PROVE Right(so \o Parsed(left))
  <2>1. e \in SentEvent /\ Begins(R, e, Q) /\ (Q = <<>> => k + 1 = Len(evs))
    BY <1>4, <1>5, <1>13, RestAfter
  <2>2. Len(s) <= m + 3
    BY <2>1, <1>4, <1>6, BreaksOfRest
  <2>3. /\ m \in Nat /\ Len(Q) \in Nat /\ Len(R) \in Nat /\ R[m + 2] = "end"
        /\ \A i \in 1..(m + 2) : R[i] # "nl"
        /\ \/ Len(R) = m + 2 /\ Q = <<>>
           \/ Len(R) = m + 4 + Len(Q) /\ R[m + 3] = "nl"
    BY <2>1, <1>4 DEF Begins
  <2>4. Len(s) <= Len(R) /\ \A i \in 1..Len(s) : s[i] = R[i]
    BY <1>6 DEF Starts
  <2>5. ~short => Len(s) = m + 2 /\ k + 1 = Len(evs)
    BY <2>1, <2>2, <2>3, <1>6
  <2>6. CASE Len(s) = m + 3
    <3>1. Len(R) # m + 2 /\ Len(s) \in 1..Len(s) /\ Len(s) # 0 /\ m + 2 \in 0..Len(s)
      BY <2>3, <2>4, <2>6, <1>6
    <3>2. s[Len(s)] = "nl"
      BY <3>1, <2>3, <2>4, <2>6
    <3>3. s # <<>> /\ Last(s) = "nl"
      BY <3>1, <3>2, EmptySeq DEF Last
    <3>4. Len(s) - 1 = m + 2
      BY <2>3, <2>6
    <3>5. left = SubSeq(s, 1, m + 2)
      BY <3>3, <3>4, <1>8, <1>13 DEF Front
    <3>6. Starts(left, R) /\ Len(left) = m + 2
      BY <3>1, <3>5, <1>6, PartStarts
    <3>7. Parsed(left) = <<e>>
      BY <3>6, <2>1, <1>4, WholeFrame
    <3>8. short = TRUE \/ k + 1 = Len(evs)
      BY <2>5
    <3>9. QED
      BY <3>7, <2>5, <1>10, <1>13
  <2>7. CASE Len(s) <= m + 2
    <3>1. s = <<>> \/ Last(s) # "nl"
      <4>1. CASE Len(s) = 0
        BY <4>1, <1>6, EmptySeq
      <4>2. CASE Len(s) # 0
        <5>1. Len(s) \in 1..Len(s) /\ Len(s) \in 1..(m + 2)
          BY <4>2, <2>3, <2>7, <1>6
        <5>2. QED
          BY <5>1, <2>3, <2>4 DEF Last
      <4>3. QED
        BY <4>1, <4>2
    <3>2. left = s
      BY <3>1, <1>8, <1>13
    <3>3. CASE Len(s) = m + 2
      <4>1. Parsed(left) = <<e>>
        BY <3>2, <3>3, <2>1, <1>4, <1>6, WholeFrame
      <4>2. QED
        BY <4>1, <2>5, <1>10, <1>13
    <3>4. CASE Len(s) < m + 2
      <4>1. Parsed(left) = <<>>
        BY <3>2, <3>4, <2>1, <1>4, <1>6, PartOfFrame
      <4>2. short
        BY <2>5, <2>3, <3>4, <1>6
      <4>3. QED
        BY <4>1, <4>2, <1>9
    <3>5. QED
      BY <3>3, <3>4, <2>7, <2>3, <1>6
  <2>8. QED
    BY <2>2, <2>3, <2>6, <2>7, <1>6
<1>14. Right(so \o Parsed(left))
  <2>1. k = Len(evs) \/ k < Len(evs)
    BY <1>5
  <2>2. split = TRUE \/ split = FALSE
    BY <1>1
  <2>3. QED
    BY <2>1, <2>2, <1>11, <1>12, <1>13
<1>15. QED
  BY <1>3, <1>14 DEF Right

LEMMA EndKeeps == ASSUME FramesOK, End PROVE FramesOK'
<1> DEFINE events == IF reader = "browser" THEN got \o Parsed(Leftover) ELSE got
<1>1. /\ reading = "bytes" /\ unread = <<>>
      /\ got' = events
      /\ reading' = IF reader = "browser" THEN Outcome(events) ELSE "ended"
      /\ split' = FALSE
      /\ reader' = reader /\ sent' = sent /\ torn' = torn /\ short' = short
  BY DEF End
<1>2. reader \in {"provider", "browser"} /\ sent \in Seq(SentEvent) /\ Clean' = Clean
  BY <1>1 DEF FramesOK, FramesTyped, Clean
<1>3. CASE reader = "browser"
  <2>1. Clean
    BY <1>3 DEF Clean
  <2>2. PICK evs : evs = got'
    OBVIOUS
  <2>3. /\ evs \in Seq(SentEvent) /\ Len(evs) <= Len(sent)
        /\ \A i \in 1..Len(evs) : evs[i] = sent[i]
        /\ ~short => Len(evs) = Len(sent)
    BY <1>1, <1>3, <2>1, <2>2, EndComplete
  <2> HIDE DEF events
  <2>4. reading' = Outcome(evs)
    BY <1>1, <1>3, <2>2
  <2>5. reading' \in {"told", "answered", "truncated"}
    BY <2>4 DEF Outcome
  <2>6. FramesTyped'
    BY <2>5, <1>1, <1>3 DEF FramesOK, FramesTyped, Outcomes
  <2>7. GotOK'
    BY <2>2, <2>3, <1>1, <1>3 DEF GotOK
  <2>8. ~short => evs = sent
    BY <2>3, <1>2, SeqEqual
  <2>9. AllEvents'
    BY <2>2, <2>8, <1>1, <1>3 DEF AllEvents
  <2>10. AnswerIsWhole'
    <3>1. SUFFICES ASSUME reading' = "answered"
                   PROVE  /\ \E i \in DOMAIN evs : evs[i].kind = "session" /\ evs[i] \in ToSet(sent)
                          /\ \A i \in DOMAIN evs : evs[i].kind # "error"
      BY <2>2, <1>1 DEF AnswerIsWhole
    <3> DEFINE kinds == {evs[i].kind : i \in DOMAIN evs}
    <3>2. "error" \notin kinds /\ "session" \in kinds
      BY <2>4, <3>1 DEF Outcome
    <3>3. PICK i \in DOMAIN evs : evs[i].kind = "session"
      BY <3>2
    <3>4. i \in 1..Len(evs) /\ i \in 1..Len(sent) /\ 1..Len(sent) = DOMAIN sent
      BY <2>3, <1>2, LenProperties
    <3>5. evs[i] \in ToSet(sent)
      BY <3>4, <2>3 DEF ToSet
    <3>6. \A j \in DOMAIN evs : evs[j].kind # "error"
      BY <3>2
    <3>7. QED
      BY <3>3, <3>5, <3>6
  <2>11. QED
    BY <2>5, <2>6, <2>7, <2>9, <2>10 DEF FramesOK
<1>4. CASE reader = "provider"
  <2>1. got' = got /\ reading' = "ended"
    BY <1>1, <1>4
  <2>2. FramesTyped'
    BY <2>1, <1>1, <1>4 DEF FramesOK, FramesTyped, Outcomes
  <2>3. AnswerIsWhole'
    BY <2>1 DEF AnswerIsWhole
  <2>4. GotOK' = GotOK
    BY <2>1, <1>1 DEF GotOK
  <2>5. AllEvents'
    <3>1. SUFFICES ASSUME ~short, ~torn
                   PROVE  /\ \A i \in DOMAIN got : got[i].kind # "done"
                          /\ Len(got) + 1 < Len(sent) => sent[Len(got) + 1].kind = "done"
      BY <2>1, <1>1, <1>4 DEF AllEvents
    <3>2. GotOK /\ Underway /\ Breaks(buffer) = {}
      BY <3>1, <1>1 DEF FramesOK, Clean
    <3>3. \A i \in DOMAIN got : got[i].kind # "done"
      <4>1. DOMAIN got = 1..Len(got)
        BY <3>2, LenProperties DEF GotOK
      <4>2. QED
        BY <4>1, <3>2, <1>4 DEF GotOK
    <3>4. ~(Len(got) + 1 < Len(sent))
      <4>1. SUFFICES ASSUME Len(got) + 1 < Len(sent)  PROVE FALSE
        OBVIOUS
      <4>0. PICK tail \in Tails : \E from : Rests(from, sent, tail) /\ Ahead(from[Len(got) + 1])
        BY <3>2 DEF Underway
      <4>2. PICK from : Rests(from, sent, tail) /\ Ahead(from[Len(got) + 1])
        BY <4>0
      <4>3. PICK k, evs, s : k = Len(got) /\ evs = sent /\ s = buffer
        OBVIOUS
      <4>4. PICK R, Q, e, m : R = from[k + 1] /\ Q = from[k + 2] /\ e = evs[k + 1] /\ m = Len(e.text)
        OBVIOUS
      <4>5. evs \in Seq(SentEvent) /\ Rests(from, evs, tail) /\ Len(evs) \in Nat /\ k \in Nat
            /\ k + 1 < Len(evs) /\ k \in 0..Len(evs) /\ k < Len(evs) /\ k + 1 # Len(evs)
        <5>1. evs \in Seq(SentEvent) /\ Len(evs) \in Nat /\ k \in Nat /\ k + 1 < Len(evs)
          BY <4>1, <4>3, <3>2, <1>2, LenProperties DEF GotOK
        <5>2. QED
          BY <5>1, <4>2, <4>3
      <4>6. Begins(R, e, Q) /\ Q # <<>>
        BY <4>4, <4>5, RestAfter
      <4>7. Starts(s, R) /\ Len(s) = Len(R) /\ Breaks(s) = {}
        <5>1. Ahead(R)
          BY <4>2, <4>3, <4>4
        <5>2. Len(unread) = 0 /\ Len(buffer) \in Nat
          BY <5>1, <1>1, EmptySeq, LenProperties DEF Ahead, Starts
        <5>3. QED
          BY <5>1, <5>2, <4>3, <3>1, <3>2 DEF Ahead
      <4>8. Len(s) <= m + 3
        BY <4>4, <4>6, <4>7, BreaksOfRest
      <4>9. m \in Nat /\ Len(Q) \in Nat /\ Len(R) = m + 4 + Len(Q)
        BY <4>4, <4>6 DEF Begins
      <4>10. QED
        BY <4>7, <4>8, <4>9
    <3>5. QED
      BY <3>3, <3>4
  <2>6. QED
    BY <1>2, <2>1, <2>2, <2>3, <2>4, <2>5 DEF FramesOK
<1>5. QED
  BY <1>2, <1>3, <1>4

LEMMA FramesNextKeeps == FramesOK /\ [FramesNext]_frameVars => FramesOK'
<1> SUFFICES ASSUME FramesOK, [FramesNext]_frameVars  PROVE FramesOK'
  OBVIOUS
<1>1. CASE Read        BY <1>1, ReadKeeps
<1>2. CASE TakeFrame   BY <1>2, TakeFrameKeeps
<1>3. CASE NoMoreFrames BY <1>3, NoMoreFramesKeeps
<1>4. CASE End         BY <1>4, EndKeeps
<1>5. CASE CutOff      BY <1>5, CutOffKeeps
<1>6. CASE Fails       BY <1>6, FailsKeeps
<1>7. CASE UNCHANGED frameVars
  <2>1. UNCHANGED <<reader, sent, unread, split, buffer, got, reading, torn, short>>
    BY <1>7 DEF frameVars
  <2>2. FramesTyped' = FramesTyped /\ Clean' = Clean /\ GotOK' = GotOK /\ SplitOK' = SplitOK
    BY <2>1 DEF FramesTyped, Clean, GotOK, SplitOK
  <2>3. Underway' = Underway /\ Breaks(buffer)' = Breaks(buffer)
    BY <2>1 DEF Underway, Ahead, Starts, Rests
  <2>4. AllEvents' = AllEvents /\ AnswerIsWhole' = AnswerIsWhole
    BY <2>1 DEF AllEvents, AnswerIsWhole
  <2>5. QED
    BY <2>1, <2>2, <2>3, <2>4 DEF FramesOK
<1>8. QED
  BY <1>1, <1>2, <1>3, <1>4, <1>5, <1>6, <1>7 DEF FramesNext

LEMMA FramesTold == FramesOK => FramesInv
<1> SUFFICES ASSUME FramesOK  PROVE FramesInv
  OBVIOUS
<1>1. EventsAsSent
  <2>1. CASE Clean
    <3>1. GotOK /\ sent \in Seq(SentEvent)
      BY <2>1 DEF FramesOK, FramesTyped
    <3>2. PICK so, evs : so = got /\ evs = sent
      OBVIOUS
    <3>3. /\ so \in Seq(SentEvent) /\ evs \in Seq(SentEvent) /\ Len(so) <= Len(evs)
          /\ \A i \in 1..Len(so) : so[i] = evs[i]
      BY <3>1, <3>2 DEF GotOK
    <3>4. Len(so) \in Nat /\ Len(evs) \in Nat
      BY <3>3, LenProperties
    <3>5. SubSeq(so, 1, Len(so)) = SubSeq(evs, 1, Len(so))
      BY <3>3, <3>4
    <3>6. QED
      BY <3>2, <3>3, <3>5 DEF EventsAsSent, IsPrefix
  <2>2. CASE ~Clean
    BY <2>2 DEF Clean, EventsAsSent, FramesOK, FramesTyped
  <2>3. QED
    BY <2>1, <2>2
<1>2. QED
  BY <1>1 DEF FramesInv, FramesOK, FramesTyped

(* For any events, wide characters and chunks: the two readers of event    *)
(* streams dispatch what was sent, in order and whole, and the page shows  *)
(* no reply that is cut off or came with an error (consumeSseResponse,     *)
(* HttpxTextStream.aiter_deltas).                                          *)
THEOREM EventsReadWhole == FramesSpec => []FramesInv
<1>1. FramesInit => FramesOK
  BY FramesBegin
<1>2. FramesOK /\ [FramesNext]_frameVars => FramesOK'
  BY FramesNextKeeps
<1>3. FramesOK => FramesInv
  BY FramesTold
<1>4. QED
  BY <1>1, <1>2, <1>3, PTL DEF FramesSpec
=============================================================================
