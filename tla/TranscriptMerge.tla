-------------------------- MODULE TranscriptMerge --------------------------
(***************************************************************************)
(* How a voice closeout joins the transcript its client sends back to the  *)
(* messages the session already has: build_voice_messages and its helpers  *)
(* in src/api/modules/orchestration/voice_flow.py.                         *)
(*                                                                         *)
(* A message is a record with at least the fields role and text.           *)
(***************************************************************************)
EXTENDS Integers, Sequences, FiniteSetsExt

(* The two fields by which messages are compared. *)
Signature(m) == <<m.role, m.text>>

(* The last k messages of existing say the same as the first k of incoming. *)
OverlapsBy(existing, incoming, k) ==
  \A i \in 1..k :
    Signature(existing[Len(existing) - k + i]) = Signature(incoming[i])

TailOverlap(existing, incoming) ==
  Max({k \in 0..Len(existing) : k <= Len(incoming) /\ OverlapsBy(existing, incoming, k)})

(* The transcript without its first line, when the session opened with it. *)
Remainder(existing, transcript) ==
  IF transcript # <<>> /\ Signature(Head(transcript)) = Signature(Head(existing))
    THEN Tail(transcript)
    ELSE transcript

(* A slip: the tail of the history is not looked at.                       *)
AppendWholeRemainder(existing, transcript) ==
  IF existing = <<>> THEN transcript ELSE Remainder(existing, transcript)

(* A slip: the joined history is appended instead of its new part.         *)
AppendJoined(existing, transcript) ==
  LET rest == Remainder(existing, transcript)
  IN  existing \o SubSeq(rest, TailOverlap(existing, rest) + 1, Len(rest))

(* What is left of the transcript once everything the session already has  *)
(* at its end is taken off its front: the messages the closeout appends.   *)
NewMessages(existing, transcript) ==
  IF existing = <<>>
    THEN transcript
    ELSE LET rest == Remainder(existing, transcript)
         IN  SubSeq(rest, TailOverlap(existing, rest) + 1, Len(rest))
=============================================================================
