--------------------------- MODULE VoiceSessions ---------------------------
(***************************************************************************)
(* The requests of a voice conversation:                                   *)
(*                                                                         *)
(*   voice/bootstrap, which mints a think token and records that the voice *)
(*     session is active: bootstrap_voice_session in                       *)
(*     src/api/modules/session_engine/agent.py;                            *)
(*   voice/complete, which joins the transcript to the session and records *)
(*     that the voice session is completed: run_voice_closeout in          *)
(*     src/api/modules/orchestration/voice_flow.py;                        *)
(*   the check of a think token against the voice fact in                  *)
(*     src/api/routes/v1/deepgram.py.                                      *)
(***************************************************************************)
EXTENDS ProfileRow, TranscriptMerge

CONSTANTS
  Conversation,  \* Conversation[c]: the lines closeout c sends
  OneAtATime     \* TRUE: the client waits for each voice request to end

Line == [role : {"user", "assistant"}, text : Words]

ASSUME ConversationAssumption ==
  /\ Conversation \in [Closeouts -> Seq(Line)]
  /\ OneAtATime \in BOOLEAN

VARIABLES
  closeout,      \* closeout[c]: how far closeout c has got
  bootstrap,     \* bootstrap[b]: how far bootstrap b has got
  revoked,       \* history: bootstraps followed by another or by a closeout
  crossed        \* history: a generation has been written that was worked out
                 \* from another than the one it replaced

voiceVars == <<closeout, bootstrap, revoked, crossed>>

CloseoutEnds == {"answered", "invalid", "failed", "lost"}
CloseoutPc ==
  {"waiting", "read", "joined", "built", "opened", "flushed", "loaded", "saved", "profiling"}
    \cup CloseoutEnds

BootstrapEnds == {"answered", "failed"}
BootstrapPc == {"waiting", "minted", "loaded", "saved"} \cup BootstrapEnds

(***************************************************************************)
(* What a closeout carries from one step to the next: the messages it will *)
(* append, the session row it read (with its own display names once it has *)
(* a review copy), the line of the learner that a template would quote,    *)
(* the review it has built, and the generation it will write back.         *)
(***************************************************************************)
CloseoutState ==
  [pc : CloseoutPc, fresh : Seq(Message), snapshot : SessionRow,
   quote : Quote, review : ReviewRow, generation : Nat]

BootstrapState == [pc : BootstrapPc, generation : Nat]

VoiceInit ==
  /\ closeout = [c \in Closeouts |-> [pc |-> "waiting", fresh |-> <<>>, snapshot |-> NoHead,
                                      quote |-> NoOne, review |-> NoReview, generation |-> 0]]
  /\ bootstrap = [b \in Bootstraps |-> [pc |-> "waiting", generation |-> 0]]
  /\ revoked = {}
  /\ crossed = FALSE

CloseoutGoes(c, from, to) ==
  /\ closeout[c].pc = from
  /\ closeout' = [closeout EXCEPT ![c].pc = to]

BootstrapGoes(b, from, to) ==
  /\ bootstrap[b].pc = from
  /\ bootstrap' = [bootstrap EXCEPT ![b].pc = to]

CloseoutEnded(c)  == closeout[c].pc \in CloseoutEnds
BootstrapEnded(b) == bootstrap[b].pc \in BootstrapEnds

(* An assumption about the client, not a guard of the server.              *)
ClientMayStart ==
  OneAtATime =>
    /\ \A c \in Closeouts : closeout[c].pc = "waiting" \/ CloseoutEnded(c)
    /\ \A b \in Bootstraps : bootstrap[b].pc = "waiting" \/ BootstrapEnded(b)

-----------------------------------------------------------------------------
(* voice/complete.                                                         *)

Transcript(c) ==
  [i \in DOMAIN Conversation[c] |->
     [role |-> Conversation[c][i].role, text |-> Conversation[c][i].text, by |-> c]]

HasUserLine(c) == \E i \in DOMAIN Conversation[c] : Conversation[c][i].role = "user"

(* get_session reads the session row, then the messages, each as of then.  *)
ReadSession(c) ==
  /\ ClientMayStart
  /\ closeout[c].pc = "waiting"
  /\ closeout' = [closeout EXCEPT ![c].pc = "read", ![c].snapshot = head]
  /\ UNCHANGED <<storeVars, profileVars, bootstrap, revoked, crossed>>

(* What the learner has said last.                                         *)
LatestLearnerText(lines) ==
  {lines[i].text : i \in {k \in DOMAIN lines :
                            /\ lines[k].role = "user"
                            /\ \A j \in DOMAIN lines : lines[j].role = "user" => j <= k}}

JoinTranscript(c) ==
  /\ closeout[c].pc = "read"
  /\ HasUserLine(c)
  /\ LET fresh == NewMessages(LoadMessages, Transcript(c))
     IN  \E text \in LatestLearnerText(LoadMessages \o fresh) :
           closeout' = [closeout EXCEPT ![c].pc = "joined", ![c].fresh = fresh,
                                        ![c].quote = <<text>>]
  /\ UNCHANGED <<storeVars, profileVars, bootstrap, revoked, crossed>>

(* A transcript without a line of the learner is refused.                  *)
RefuseTranscript(c) ==
  /\ ~HasUserLine(c)
  /\ CloseoutGoes(c, "read", "invalid")
  /\ UNCHANGED <<storeVars, profileVars, bootstrap, revoked, crossed>>

(* Feedback and review, as for a reply; without a review copy the display  *)
(* names stay those of the snapshot.  Then the voice fact is read.         *)
BuildReview(c) ==
  /\ closeout[c].pc = "joined"
  /\ \E degraded, summarized \in BOOLEAN :
       LET hasCopy == ~degraded /\ summarized
       IN  closeout' = [closeout EXCEPT
             ![c].pc = "built",
             ![c].snapshot = IF hasCopy THEN [@ EXCEPT !.names = c] ELSE @,
             ![c].review = BuiltReview(c, closeout[c].quote, degraded, hasCopy),
             ![c].generation = fact.generation]
  /\ UNCHANGED <<storeVars, profileVars, bootstrap, revoked, crossed>>

OpenFinalize(c) ==
  /\ CloseoutGoes(c, "built", "opened")
  /\ LoadHead(c)
  /\ UNCHANGED <<profileVars, bootstrap, revoked, crossed>>

FlushFinalize(c) ==
  /\ CloseoutGoes(c, "opened", "flushed")
  /\ FlushHead(c, closeout[c].snapshot)
  /\ UNCHANGED <<profileVars, bootstrap, revoked, crossed>>

ReadFinalize(c) ==
  /\ CloseoutGoes(c, "flushed", "loaded")
  /\ LoadFinalize(c)
  /\ UNCHANGED <<profileVars, bootstrap, revoked, crossed>>

Minted == {b \in Bootstraps : bootstrap[b].pc \in {"saved", "answered"}}

StoreCloseout(c) ==
  /\ CloseoutGoes(c, "loaded", "saved")
  /\ CommitFinalize(c, closeout[c].fresh, closeout[c].snapshot, closeout[c].generation,
                    closeout[c].review)
  /\ revoked' = revoked \cup Minted
  /\ crossed' = (crossed \/ closeout[c].generation # fact.generation)
  /\ UNCHANGED <<profileVars, bootstrap>>

ReadCloseoutProfile(c) ==
  /\ CloseoutGoes(c, "saved", "profiling")
  /\ ReadProfile(c)
  /\ UNCHANGED <<storeVars, bootstrap, revoked, crossed>>

WriteCloseoutProfile(c) ==
  /\ CloseoutGoes(c, "profiling", "answered")
  /\ WriteProfile(c)
  /\ UNCHANGED <<storeVars, bootstrap, revoked, crossed>>

SkipCloseoutProfile(c) ==
  /\ CloseoutGoes(c, "saved", "answered") \/ CloseoutGoes(c, "profiling", "answered")
  /\ UNCHANGED <<storeVars, profileVars, bootstrap, revoked, crossed>>

(* Nothing catches the IntegrityError of a closeout.                       *)
CloseoutConflicts(c) ==
  /\ CloseoutGoes(c, "loaded", "failed")
  /\ FinalizeViolatesUnique(c, closeout[c].fresh)
  /\ Rollback(c)
  /\ UNCHANGED <<profileVars, bootstrap, revoked, crossed>>

CloseoutFails(c) ==
  /\ \E from \in {"read", "joined", "built", "opened", "flushed", "loaded"} :
       CloseoutGoes(c, from, "failed")
  /\ Rollback(c)
  /\ UNCHANGED <<profileVars, bootstrap, revoked, crossed>>

CloseoutLoses(c) ==
  /\ CloseoutGoes(c, "saved", "lost") \/ CloseoutGoes(c, "profiling", "lost")
  /\ UNCHANGED <<storeVars, profileVars, bootstrap, revoked, crossed>>

CloseoutProgress(c) ==
  \/ ReadSession(c) \/ JoinTranscript(c) \/ RefuseTranscript(c) \/ BuildReview(c)
  \/ OpenFinalize(c) \/ FlushFinalize(c) \/ ReadFinalize(c)
  \/ StoreCloseout(c) \/ CloseoutConflicts(c)
  \/ ReadCloseoutProfile(c) \/ WriteCloseoutProfile(c) \/ SkipCloseoutProfile(c)

CloseoutStep(c) == CloseoutProgress(c) \/ CloseoutFails(c) \/ CloseoutLoses(c)

-----------------------------------------------------------------------------
(* voice/bootstrap.                                                        *)

(* The generation is one more than the one read; the token carries it.     *)
MintToken(b) ==
  /\ ClientMayStart
  /\ bootstrap[b].pc = "waiting"
  /\ bootstrap' = [bootstrap EXCEPT ![b].pc = "minted",
                                    ![b].generation = fact.generation + 1]
  /\ UNCHANGED <<storeVars, profileVars, closeout, revoked, crossed>>

OpenSaveFact(b) ==
  /\ BootstrapGoes(b, "minted", "loaded")
  /\ LoadFact(b)
  /\ UNCHANGED <<profileVars, closeout, revoked, crossed>>

SaveFact(b) ==
  /\ BootstrapGoes(b, "loaded", "saved")
  /\ CommitFact(b, bootstrap[b].generation)
  /\ revoked' = revoked \cup Minted
  /\ crossed' = (crossed \/ bootstrap[b].generation # fact.generation + 1)
  /\ UNCHANGED <<profileVars, closeout>>

(* The event is recorded and the token handed to the client.               *)
AnswerBootstrap(b) ==
  /\ BootstrapGoes(b, "saved", "answered")
  /\ UNCHANGED <<storeVars, profileVars, closeout, revoked, crossed>>

(* Two first bootstraps insert the same fact row; nothing catches that.    *)
BootstrapConflicts(b) ==
  /\ BootstrapGoes(b, "loaded", "failed")
  /\ FactInserted(b)
  /\ UNCHANGED <<storeVars, profileVars, closeout, revoked, crossed>>

BootstrapFails(b) ==
  /\ \E from \in {"minted", "loaded", "saved"} : BootstrapGoes(b, from, "failed")
  /\ UNCHANGED <<storeVars, profileVars, closeout, revoked, crossed>>

BootstrapProgress(b) ==
  \/ MintToken(b) \/ OpenSaveFact(b) \/ SaveFact(b) \/ BootstrapConflicts(b)
  \/ AnswerBootstrap(b)

BootstrapStep(b) == BootstrapProgress(b) \/ BootstrapFails(b)

-----------------------------------------------------------------------------
(* Would the think proxy take the token that bootstrap b has handed out?   *)
(* A token that has run out of time is refused in any case.                *)
Accepts(b) ==
  /\ bootstrap[b].pc = "answered"
  /\ fact.status = "active"
  /\ fact.generation = bootstrap[b].generation

=============================================================================
