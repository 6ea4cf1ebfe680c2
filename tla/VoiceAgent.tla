------------------------------ MODULE VoiceAgent ------------------------------
(***************************************************************************)
(* The voice conversation as the practice page runs it: the hook           *)
(* useDeepgramVoiceAgent and the two handlers of PracticeSessionPage that  *)
(* use it.  The refs of the hook are shared by every connection the page   *)
(* opens, while sockets, permission prompts, timers and the closing of     *)
(* audio contexts each report in their own time: a callback of one         *)
(* connection works on whatever the refs hold when it runs.                *)
(*                                                                         *)
(* The code between two awaits runs without interruption, so a step is an  *)
(* operator on the record `voice', and a step that runs on into another    *)
(* (a cleanup that need not wait, the handler that awaited it) composes    *)
(* the two.                                                                *)
(***************************************************************************)
EXTENDS Naturals, Sequences, SequencesExt

CONSTANTS
  MaxStarts,    \* clicks on the start button (a bound)
  MaxMessages,  \* messages of the agent about the talk (a bound)
  Texts         \* what a line can say

ASSUME AgentAssumption ==
  MaxStarts \in Nat \ {0} /\ MaxMessages \in Nat

(* A click of the start button that comes as far as a socket gives the     *)
(* connection its number.                                                  *)
Conns == 1..MaxStarts

VARIABLE voice

(* voice.mounted   the page is on the screen                               *)
(* voice.clicks    clicks on the start button so far                       *)
(* voice.starting  where onStartConversation waits                         *)
(* voice.ending    where onEndConversation waits                           *)
(* voice.started   conversationStarted                                     *)
(* voice.sent      what the last endSession of this start returned         *)
(* voice.lit       the flags isConnected, isListening, isThinking and      *)
(*                 isSpeaking that are set                                 *)
(* voice.sock      readyState of each connection's socket                  *)
(* voice.capture   where beginCapture of each connection waits             *)
(* voice.settled   the promise of startSession                             *)
(* voice.mics      connections whose microphone tracks run                 *)
(* voice.cleaning  running cleanups: who called, and the context it waits  *)
(*                 for                                                     *)
(* The other fields are the refs of the hook.  `cut' and `heard' count the *)
(* chunks that had arrived when the playback was last stopped, and those   *)
(* that have arrived.  The keep-alive interval sends to its own socket     *)
(* while that is open, and is left out.                                    *)
NewVoice ==
  [mounted |-> TRUE, clicks |-> 0, starting |-> "no", ending |-> "no",
   started |-> FALSE, sent |-> << >>, lit |-> {},
   sock |-> [c \in Conns |-> "none"], capture |-> [c \in Conns |-> "none"],
   settled |-> [c \in Conns |-> FALSE], mics |-> {}, cleaning |-> {},
   ws |-> 0, initTimer |-> 0, thinkTimer |-> FALSE,
   stream |-> 0, input |-> "none", output |-> "none",
   ready |-> FALSE, manual |-> FALSE, transcript |-> << >>, messages |-> 0,
   queue |-> {}, chainOk |-> TRUE, playing |-> << >>, heard |-> 0, cut |-> 0]

AgentInit == voice = NewVoice

----------------------------------------------------------------------------
(* Playback.                                                               *)

(* stopPlayback: a new generation, the sources that play are stopped and   *)
(* the chain starts afresh.  The chunks of the old chain still come to     *)
(* their turn.                                                             *)
StopPlayback(v) ==
  [v EXCEPT !.queue = {[chunk |-> e.chunk, fresh |-> FALSE] : e \in @},
            !.playing = << >>, !.chainOk = TRUE, !.cut = v.heard,
            !.lit = @ \ {"speaking"}]

----------------------------------------------------------------------------
(* cleanup, as far as its next await.                                      *)

(* The page goes on once the cleanup it awaited is over, or has failed     *)
(* because the context was already being closed.                           *)
StartFailed(v) == [v EXCEPT !.starting = "no", !.started = FALSE]

Cleaned(v, caller) ==
  CASE caller = "start" ->
         [v EXCEPT !.starting = "output", !.transcript = << >>, !.ready = FALSE,
                   !.manual = FALSE, !.lit = {},
                   !.output = IF @ = "none" THEN "live" ELSE @]
    [] caller = "end" /\ v.sent = << >> -> [v EXCEPT !.ending = "no"]
    [] caller = "end" /\ v.sent # << >> -> [v EXCEPT !.ending = "posting"]
    [] OTHER -> v

Broken(v, caller) ==
  CASE caller = "start" -> StartFailed(v)
    [] caller = "end" -> [v EXCEPT !.ending = "no"]
    [] OTHER -> v

Closing(v, c) ==
  IF c # 0 /\ v.sock[c] \in {"connecting", "open"}
    THEN [v EXCEPT !.sock[c] = "closing"] ELSE v

CloseSocket(v, caller) ==
  Cleaned([Closing(v, v.ws) EXCEPT !.ws = 0, !.lit = {}], caller)

CloseOutput(v, caller) ==
  CASE v.output = "none" -> CloseSocket(v, caller)
    [] v.output = "closing" -> Broken(v, caller)
    [] v.output = "live" ->
         [v EXCEPT !.output = "closing", !.cleaning = @ \cup {<<caller, "output">>}]

CloseInput(v, caller) ==
  CASE v.input = "none" -> CloseOutput(v, caller)
    [] v.input = "closing" -> Broken(v, caller)
    [] v.input = "live" ->
         [v EXCEPT !.input = "closing", !.cleaning = @ \cup {<<caller, "input">>}]

(* Slips: the stopped stream is not forgotten, the conversation is.        *)
TeardownOfTracks(v) ==
  [StopPlayback(v) EXCEPT
     !.manual = TRUE, !.ready = FALSE, !.initTimer = 0, !.thinkTimer = FALSE,
     !.mics = @ \ {v.stream}]

Teardown(v) ==
  [StopPlayback(v) EXCEPT
     !.manual = TRUE, !.ready = FALSE, !.initTimer = 0, !.thinkTimer = FALSE,
     !.mics = @ \ {v.stream}, !.stream = 0]

Cleanup(v, caller) == CloseInput(Teardown(v), caller)

----------------------------------------------------------------------------
(* startSession, from its promise on.                                      *)

(* The page learns of the promise in the same step.                        *)
Resolve(v, c) ==
  IF v.settled[c] THEN v
    ELSE [v EXCEPT !.settled[c] = TRUE, !.starting = "no", !.started = TRUE]

Reject(v, c) ==
  IF v.settled[c] THEN v ELSE StartFailed([v EXCEPT !.settled[c] = TRUE])

HandleSessionFailure(v) == Cleanup(v, "failure")

FailSessionStart(v, c) == Reject(HandleSessionFailure(v), c)

Failure(v, c) ==
  IF v.ready THEN HandleSessionFailure(v) ELSE FailSessionStart(v, c)

----------------------------------------------------------------------------
(* What the learner does.                                                  *)

IsLive == voice.started \/ voice.lit # {}

Free == voice.mounted /\ voice.starting = "no" /\ voice.ending = "no"

(* The start button; bootstrapVoiceSession is on its way.                  *)
OnStart ==
  /\ Free /\ ~IsLive /\ voice.clicks < MaxStarts
  /\ voice' = [voice EXCEPT !.clicks = @ + 1, !.starting = "bootstrap",
                            !.sent = << >>]

(* The same button while the conversation is live.  What endSession        *)
(* returns is read before the cleanup.                                     *)
OnEnd ==
  /\ Free /\ IsLive
  /\ voice' = Cleanup([voice EXCEPT !.ending = "cleanup", !.sent = voice.transcript], "end")

(* The page is left, by a link or the address bar.                         *)
Leave(v) == Cleanup([v EXCEPT !.mounted = FALSE], "page")

LeavePage == voice.mounted /\ voice' = Leave(voice)

----------------------------------------------------------------------------
(* What the page waits for.                                                *)

BootstrapAnswers ==
  /\ voice.starting = "bootstrap"
  /\ \/ voice' = Cleanup([voice EXCEPT !.starting = "cleanup"], "start")
     \/ voice' = StartFailed(voice)

(* ensureOutputContext has resumed; the socket is made and its init timer  *)
(* armed.  A context that was closed meanwhile does not resume.            *)
OpenSocket ==
  /\ voice.starting = "output"
  /\ LET c == voice.clicks
     IN IF voice.output # "live" THEN voice' = StartFailed(voice)
        ELSE voice' = [voice EXCEPT !.starting = "promise", !.ws = c,
                                    !.sock[c] = "connecting", !.initTimer = c]

(* completeVoiceSession has stored the conversation, and the page goes on  *)
(* to the review; or it has failed, and the learner may end again.         *)
Posted ==
  /\ voice.ending = "posting"
  /\ \/ LET v == [voice EXCEPT !.ending = "no", !.started = FALSE]
        IN voice' = IF v.mounted THEN Leave(v) ELSE v
     \/ voice' = [voice EXCEPT !.ending = "no"]

ContextClosed ==
  \E waiting \in voice.cleaning :
    LET caller == waiting[1]
        rest == [voice EXCEPT !.cleaning = @ \ {waiting}]
    IN voice' = IF waiting[2] = "input"
                  THEN CloseOutput([rest EXCEPT !.input = "none"], caller)
                  ELSE CloseSocket([rest EXCEPT !.output = "none"], caller)

----------------------------------------------------------------------------
(* The callbacks of a connection.                                          *)

Welcome(c) ==
  /\ voice.sock[c] = "connecting"
  /\ voice' = [voice EXCEPT !.sock[c] = "open"]

SettingsApplied(c) ==
  /\ voice.sock[c] = "open" /\ voice.capture[c] = "none"
  /\ voice' = [voice EXCEPT !.initTimer = 0, !.capture[c] = "asking"]

(* The permission prompt, for as long as the learner leaves it there.      *)
Permitted(c) ==
  /\ voice.capture[c] = "asking"
  /\ voice' = [voice EXCEPT !.capture[c] = "resuming", !.mics = @ \cup {c}]

Denied(c) ==
  /\ voice.capture[c] = "asking"
  /\ voice' = Reject([voice EXCEPT !.capture[c] = "failed"], c)

BeginCapture(c) ==
  /\ voice.capture[c] = "resuming"
  /\ voice' = Resolve([voice EXCEPT
                 !.capture[c] = "done", !.stream = c, !.input = "live",
                 !.ready = TRUE,
                 !.lit = @ \cup {"connected", "listening"}], c)

(* A message of the agent about the talk arrives.                          *)
Hears(c) ==
  /\ voice.sock[c] = "open" /\ voice.capture[c] # "none"
  /\ voice.messages < MaxMessages

Noted == [voice EXCEPT !.messages = @ + 1]

(* appendTranscript leaves out a line that repeats the one before it.      *)
AppendTranscript(lines, next) ==
  IF lines # << >> /\ lines[Len(lines)].text = next.text
    THEN lines ELSE Append(lines, next)

ConversationText(c) ==
  /\ Hears(c)
  /\ \E t \in Texts :
       voice' = [Noted EXCEPT
                   !.transcript = AppendTranscript(@, [conn |-> c, text |-> t])]

UserStartedSpeaking(c) ==
  /\ Hears(c)
  /\ voice' = [StopPlayback(Noted) EXCEPT
                 !.thinkTimer = FALSE, !.lit = (@ \cup {"listening"}) \ {"thinking"}]

AgentThinking(c) ==
  /\ Hears(c)
  /\ voice' = [Noted EXCEPT !.thinkTimer = TRUE,
                            !.lit = (@ \ {"listening"}) \cup {"thinking"}]

AgentStartedSpeaking(c) ==
  /\ Hears(c)
  /\ voice' = [Noted EXCEPT !.thinkTimer = FALSE,
                            !.lit = (@ \ {"listening", "thinking"}) \cup {"speaking"}]

AgentAudioDone(c) ==
  /\ Hears(c)
  /\ voice' = [Noted EXCEPT !.thinkTimer = FALSE,
                            !.lit = (@ \ {"speaking", "thinking"}) \cup {"listening"}]

AudioChunk(c) ==
  /\ Hears(c)
  /\ voice' = [Noted EXCEPT
                 !.heard = @ + 1, !.thinkTimer = FALSE,
                 !.lit = (@ \ {"thinking"}) \cup {"speaking"},
                 !.queue = IF voice.chainOk
                             THEN @ \cup {[chunk |-> voice.heard + 1, fresh |-> TRUE]}
                             ELSE @]

AgentError(c) == voice.sock[c] = "open" /\ voice' = Failure(voice, c)

(* What onclose does first, whichever connection it is of.                 *)
Quiet(v) == [v EXCEPT !.initTimer = 0, !.thinkTimer = FALSE, !.lit = {}]

(* onerror, and right after it an onclose that finds manualClose set.      *)
SocketFails(c) ==
  /\ voice.sock[c] \in {"connecting", "open"}
  /\ voice' = Quiet(Failure([voice EXCEPT !.sock[c] = "closed"], c))

(* onclose, whoever closed the socket.                                     *)
SocketCloses(c) ==
  /\ voice.sock[c] \in {"connecting", "open", "closing"}
  /\ LET v == Quiet([voice EXCEPT !.sock[c] = "closed"])
     IN voice' = IF v.manual \/ v.ready THEN v ELSE FailSessionStart(v, c)

InitTimeout ==
  /\ voice.initTimer # 0
  /\ voice' = FailSessionStart(voice, voice.initTimer)

ThinkingTimeout ==
  /\ voice.thinkTimer
  /\ voice' = HandleSessionFailure(voice)

----------------------------------------------------------------------------
(* The chain of the playback.                                              *)

(* What was queued before the playback was last stopped, and what was      *)
(* queued since.                                                           *)
ChainOf(e) == {f \in voice.queue : f.fresh = e.fresh}

(* Each keeps its order.                                                   *)
NextInChain(e) == \A f \in ChainOf(e) : e.chunk <= f.chunk

(* A slip: a chunk whose turn comes is played.                             *)
PlayAnyChunk ==
  \E e \in voice.queue :
    /\ NextInChain(e)
    /\ voice' = [voice EXCEPT !.queue = @ \ {e}, !.playing = Append(@, e.chunk)]

(* Only a chunk of the current generation is started; a context that is    *)
(* being closed breaks the chain.                                          *)
PlayChunk ==
  \E e \in voice.queue :
    /\ NextInChain(e)
    /\ voice' =
         IF voice.output = "closing"
         THEN [voice EXCEPT !.queue = @ \ ChainOf(e), !.chainOk = @ /\ ~e.fresh]
         ELSE [voice EXCEPT
                 !.queue = @ \ {e}, !.output = "live",
                 !.playing = IF e.fresh THEN Append(@, e.chunk) ELSE @]

ChunkEnds ==
  /\ voice.playing # << >>
  /\ voice' = [voice EXCEPT !.playing = Tail(@)]

----------------------------------------------------------------------------
Connection(c) ==
  \/ Welcome(c) \/ SettingsApplied(c) \/ Permitted(c) \/ Denied(c)
  \/ BeginCapture(c) \/ ConversationText(c) \/ UserStartedSpeaking(c)
  \/ AgentThinking(c) \/ AgentStartedSpeaking(c) \/ AgentAudioDone(c)
  \/ AudioChunk(c) \/ AgentError(c) \/ SocketFails(c) \/ SocketCloses(c)

AgentNext ==
  \/ OnStart \/ OnEnd \/ LeavePage
  \/ BootstrapAnswers \/ OpenSocket \/ Posted \/ ContextClosed
  \/ \E c \in Conns : Connection(c)
  \/ InitTimeout \/ ThinkingTimeout \/ PlayChunk \/ ChunkEnds

(* Requests are answered, contexts close, a socket that is closing closes, *)
(* a timer that stays armed fires and the learner answers the prompt.      *)
AgentFair ==
  /\ WF_voice(BootstrapAnswers) /\ WF_voice(OpenSocket) /\ WF_voice(Posted)
  /\ WF_voice(ContextClosed) /\ WF_voice(InitTimeout)
  /\ \A c \in Conns :
       /\ WF_voice(voice.sock[c] = "closing" /\ SocketCloses(c))
       /\ WF_voice(Permitted(c) \/ Denied(c)) /\ WF_voice(BeginCapture(c))

AgentSpec == AgentInit /\ [][AgentNext]_voice /\ AgentFair

----------------------------------------------------------------------------
(* Properties.                                                             *)

(* The record is well formed; in particular a stream that the hook holds   *)
(* is one whose tracks run (beginCapture, cleanup).                        *)
AgentTypeOK ==
  /\ voice.starting \in {"no", "bootstrap", "cleanup", "output", "promise"}
  /\ voice.ending \in {"no", "cleanup", "posting"}
  /\ voice.lit \subseteq {"connected", "listening", "thinking", "speaking"}
  /\ voice.cleaning \subseteq
       {"start", "end", "page", "failure"} \X {"input", "output"}
  /\ voice.mics \subseteq Conns
  /\ voice.ws \in Conns \cup {0}
  /\ voice.initTimer \in Conns \cup {0} /\ voice.stream \in voice.mics \cup {0}
  /\ voice.input \in {"none", "live", "closing"}
  /\ voice.output \in {"none", "live", "closing"}

(* A chunk that had arrived when the learner spoke up or the connection    *)
(* was torn down is not heard afterwards, and chunks are heard in the      *)
(* order of their arrival (enqueuePlayback, stopPlayback): the turn of a   *)
(* chunk may come long after it was put into the chain.                    *)
SilencedStaysSilent ==
  \A i \in DOMAIN voice.playing :
    /\ voice.playing[i] > voice.cut
    /\ \A j \in 1..(i - 1) : voice.playing[j] < voice.playing[i]

(* The transcript, and with it what is sent to be stored, holds the lines  *)
(* of one connection, although lines arrive before a start has succeeded   *)
(* and while the connection is being torn down (startSession).             *)
OneConversation ==
  \A i, j \in DOMAIN voice.transcript :
    voice.transcript[i].conn = voice.transcript[j].conn

(* Once a conversation has been sent, what the page holds begins with it,  *)
(* so that ending again after a lost answer sends the same lines again,    *)
(* with at most new ones behind (endSession, cleanup, onEndConversation).  *)
SentIsKept == IsPrefix(voice.sent, voice.transcript)

(* While the page waits for endSession there is a cleanup that will tell   *)
(* it: another one that closes the same contexts first does not leave the  *)
(* button locked (onEndConversation, cleanup).                             *)
EndingIsServed ==
  voice.ending = "cleanup" => \E context \in {"input", "output"} :
                                <<"end", context>> \in voice.cleaning

(* What the runs check of the page's conversation, part by part.           *)
AgentInv == AgentTypeOK /\ OneConversation /\ SentIsKept /\ EndingIsServed

(* useDeepgramVoiceAgent.ts:184-186 of the teardown on leaving the page:   *)
(* it cuts the connection and stops the audio pipeline, so that once it is *)
(* over no microphone runs.                                                *)
MicStopsWithPage == ~voice.mounted /\ voice.cleaning = {} => voice.mics = {}

(* docs/features/deepgram_voice_agent/feature.md:42: the timeouts keep a   *)
(* session from being stuck waiting.                                       *)
StartSettles ==
  (voice.mounted /\ voice.starting # "no") ~> (voice.starting = "no" \/ ~voice.mounted)

=============================================================================
