---------------------------- MODULE StreamFrames ----------------------------
(***************************************************************************)
(* Reading events from a stream of bytes that arrives in chunks:           *)
(*                                                                         *)
(*   "provider"  the server reads a model's deltas                         *)
(*               (src/api/integrations/llm/streaming.py)                   *)
(*   "browser"   the page reads the events of a reply                      *)
(*               (src/frontend/src/services/sessionApi.ts)                 *)
(*                                                                         *)
(* A character takes one byte, or two if it is wide, and a chunk may end   *)
(* between them.  An event is its kind, its text and "end", without which  *)
(* it cannot be parsed, and two newlines, which the last event may lack.   *)
(***************************************************************************)
EXTENDS Naturals, Sequences, SequencesExt

CONSTANTS
  Letters,  \* the characters of texts
  Wide,     \* those of two bytes
  Scripts   \* Scripts[r]: what is sent to reader r, sequences of events

Kinds == {"feedback", "delta", "session", "error", "done"}
SentEvent == [kind : Kinds, text : Seq(Letters)]

(* Newlines are escaped in a text.                                         *)
ASSUME FramesAssumption ==
  /\ Wide \subseteq Letters /\ Letters \cap {"nl", "end", "bad"} = {}
  /\ DOMAIN Scripts = {"provider", "browser"}
  /\ \A r \in DOMAIN Scripts : Scripts[r] \subseteq Seq(SentEvent)

VARIABLES
  reader,   \* who reads
  sent,     \* the events sent to it
  unread,   \* the characters on their way
  split,    \* the first byte of the next one has been read
  buffer,   \* decoded, not yet dispatched
  got,      \* the events dispatched
  reading,  \* the reader's progress, in the end its outcome
  torn,     \* history: a chunk ended inside a character
  short     \* history: the connection ended early

frameVars == <<reader, sent, unread, split, buffer, got, reading, torn, short>>

Blank == <<"nl", "nl">>
Framed(e) == <<e.kind>> \o e.text \o <<"end">>

(* What events become on their way, the last one followed by tail.         *)
Encoded(events, tail) ==
  LET from[i \in 1..(Len(events) + 1)] ==
        IF i > Len(events) THEN <<>>
        ELSE Framed(events[i]) \o (IF i < Len(events) THEN Blank ELSE tail) \o from[i + 1]
  IN  from[1]

Outcomes == {"ended", "answered", "told", "truncated", "broken"}

FramesInit ==
  /\ reader \in {"provider", "browser"}
  /\ sent \in Scripts[reader]
  /\ \E tail \in {<<>>, Blank} : unread = Encoded(sent, tail)
  /\ split = FALSE /\ buffer = <<>> /\ got = <<>>
  /\ reading = "bytes"
  /\ torn = FALSE /\ short = FALSE

-----------------------------------------------------------------------------
(* A chunk: some characters, the first of which may have been begun by the *)
(* chunk before, and possibly the first byte of another.                   *)
IsChunk(n, inside) ==
  /\ inside => n < Len(unread) /\ unread[n + 1] \in Wide
  /\ n > 0 \/ (inside /\ ~split)

(* A decoder that knows one chunk only, errors="replace": half a character *)
(* becomes a replacement character.                                        *)
DecodedAlone(chars, inside) ==
  (IF split THEN <<"bad">> \o Tail(chars) ELSE chars) \o (IF inside THEN <<"bad">> ELSE <<>>)

(* The server decodes each chunk by itself, the browser's decoder carries  *)
(* half a character over to the next chunk.                                *)
Decoded(chars, inside) ==
  IF reader = "browser" THEN chars ELSE DecodedAlone(chars, inside)

Read ==
  /\ reading = "bytes"
  /\ \E n \in 0..Len(unread), inside \in BOOLEAN :
       /\ IsChunk(n, inside)
       /\ buffer' = buffer \o Decoded(SubSeq(unread, 1, n), inside)
       /\ unread' = SubSeq(unread, n + 1, Len(unread))
       /\ split' = inside
       /\ torn' = (torn \/ inside)
  /\ reading' = "frames"
  /\ UNCHANGED <<reader, sent, got, short>>

Breaks(s) == {i \in 1..(Len(s) - 1) : SubSeq(s, i, i + 1) = Blank}

(* A frame that cannot be parsed is passed over.                           *)
Parsed(frame) ==
  IF Len(frame) >= 2 /\ Last(frame) = "end"
    THEN <<[kind |-> frame[1], text |-> SubSeq(frame, 2, Len(frame) - 1)]>>
    ELSE <<>>

IsDone(events) == events # <<>> /\ events[1].kind = "done"

(* The first complete frame; the server stops at the done signal.          *)
TakeFrame ==
  LET first  == CHOOSE i \in Breaks(buffer) : \A j \in Breaks(buffer) : i <= j
      events == Parsed(SubSeq(buffer, 1, first - 1))
      done   == reader = "provider" /\ IsDone(events)
  IN  /\ reading = "frames" /\ Breaks(buffer) # {}
      /\ buffer' = SubSeq(buffer, first + 2, Len(buffer))
      /\ got' = IF done THEN got ELSE got \o events
      /\ reading' = IF done THEN "ended" ELSE reading
      /\ UNCHANGED <<reader, sent, unread, split, torn, short>>

NoMoreFrames ==
  /\ reading = "frames" /\ Breaks(buffer) = {}
  /\ reading' = "bytes"
  /\ UNCHANGED <<reader, sent, unread, split, buffer, got, torn, short>>

(* What submitPracticeTurnStream makes of the events.                      *)
Outcome(events) ==
  LET kinds == {events[i].kind : i \in DOMAIN events}
  IN  IF "error" \in kinds THEN "told" ELSE IF "session" \in kinds THEN "answered" ELSE "truncated"

(* What is left when the stream ends: half a character is replaced, and a  *)
(* newline at the end is cut off (trimEnd; there cannot be two).           *)
Leftover ==
  IF split THEN Append(buffer, "bad")
  ELSE IF buffer # <<>> /\ Last(buffer) = "nl" THEN Front(buffer)
  ELSE buffer

(* The end: the server drops what is left, the browser dispatches it.      *)
End ==
  LET events == IF reader = "browser" THEN got \o Parsed(Leftover) ELSE got
  IN  /\ reading = "bytes" /\ unread = <<>>
      /\ got' = events /\ buffer' = <<>> /\ split' = FALSE
      /\ reading' = IF reader = "browser" THEN Outcome(events) ELSE "ended"
      /\ UNCHANGED <<reader, sent, unread, torn, short>>

(* The connection ends early, or fails and the read raises.                *)
CutOff ==
  /\ reading = "bytes" /\ unread # <<>>
  /\ unread' = <<>> /\ short' = TRUE
  /\ UNCHANGED <<reader, sent, split, buffer, got, reading, torn>>

Fails ==
  /\ reading = "bytes" /\ unread # <<>>
  /\ reading' = "broken"
  /\ UNCHANGED <<reader, sent, unread, split, buffer, got, torn, short>>

FramesNext == Read \/ TakeFrame \/ NoMoreFrames \/ End \/ CutOff \/ Fails

FramesSpec == FramesInit /\ [][FramesNext]_frameVars

-----------------------------------------------------------------------------
(* However the bytes are cut into chunks, the reader gets the events as    *)
(* they were sent, in order.  Only the server's decoder damages a text:    *)
(* when a chunk ends inside a character.                                   *)
EventsAsSent == IsPrefix(got, sent) \/ (reader = "provider" /\ torn)

(* None is missing at the end: the server stops at the done signal, and    *)
(* wants the last event terminated.                                        *)
AllEvents ==
  reading \in Outcomes \ {"broken"} /\ ~short /\ ~torn =>
    IF reader = "browser" THEN got = sent
    ELSE /\ \A i \in DOMAIN got : got[i].kind # "done"
         /\ Len(got) + 1 < Len(sent) => sent[Len(got) + 1].kind = "done"

(* The page shows a reply only if its session event has arrived whole, and *)
(* no error came with it, wherever the connection was cut.                 *)
AnswerIsWhole ==
  reading = "answered" =>
    /\ \E i \in DOMAIN got : got[i].kind = "session" /\ got[i] \in ToSet(sent)
    /\ \A i \in DOMAIN got : got[i].kind # "error"

(* What the runs check of both readers, part by part.                      *)
FramesInv == reading \in {"bytes", "frames"} \cup Outcomes /\ EventsAsSent /\ AllEvents /\ AnswerIsWhole
=============================================================================
