------------------------ MODULE SessionServiceProofs ------------------------
(***************************************************************************)
(* The message history of a session, for any number of requests: what the  *)
(* merge of a transcript returns, and from it the proofs of the type       *)
(* invariant and of the safety properties of the history, by the inductive *)
(* invariant HistoryInv.                                                   *)
(*                                                                         *)
(* Then what the turns of a session leave behind: proofs that a turn which *)
(* gives up has met two rivals, that the review, the session row and the   *)
(* learner profile are those of stored turns, that the review is of one    *)
(* turn unless a closeout was silent, and that SessionService implements   *)
(* TurnLog; that a token which was revoked is refused; and, for a client   *)
(* that waits for each of its voice requests to end, that a transcript     *)
(* sent again adds no line.                                                *)
(***************************************************************************)
EXTENDS SessionService, SequenceTheorems, WellFoundedInduction, TLAPS

-----------------------------------------------------------------------------
(***************************************************************************)
(* What NewMessages returns, for transcripts and histories of any length.  *)
(***************************************************************************)

(* A set of natural numbers with an upper bound has the maximum that Max   *)
(* chooses: the difference to the bound has a least value.                 *)
LEMMA MaxOfBounded ==
  ASSUME NEW n \in Nat, NEW S, S \subseteq 0..n, S # {}
  PROVE  /\ Max(S) \in S
         /\ \A y \in S : y <= Max(S)
<1> DEFINE D == {n - x : x \in S}
           R == OpToRel(<, Nat)
<1>1. D \subseteq Nat /\ D # {}
  <2>1. \A x \in S : x \in Int /\ n - x \in Nat
    OBVIOUS
  <2> QED  BY <2>1
<1>2. IsWellFoundedOn(R, Nat)
  BY NatLessThanWellFounded
<1>3. PICK d \in D : \A e \in D : ~(<<e, d>> \in R)
  <2> HIDE DEF D, R
  <2> QED  BY <1>1, <1>2, WFMin, Zenon
<1>4. \A e \in D : ~(e < d)
  BY <1>1, <1>3 DEF OpToRel
<1>5. PICK x \in S : d = n - x
  BY DEF D
<1>6. \A y \in S : x >= y
  <2> TAKE y \in S
  <2>1. n - y \in D
    BY DEF D
  <2>2. x \in 0..n /\ y \in 0..n /\ ~(n - y < n - x)
    BY <1>4, <1>5, <2>1
  <2> QED  BY <2>2
<1>7. QED
  BY <1>6 DEF Max

-----------------------------------------------------------------------------
(* TailOverlap is one of the overlaps, and none is longer.                 *)
LEMMA TailOverlapIsMax ==
  ASSUME NEW M, NEW existing \in Seq(M), NEW incoming \in Seq(M)
  PROVE  LET k == TailOverlap(existing, incoming)
         IN  /\ k \in 0..Len(existing) /\ k <= Len(incoming)
             /\ OverlapsBy(existing, incoming, k)
             /\ \A j \in 0..Len(existing) :
                  j <= Len(incoming) /\ OverlapsBy(existing, incoming, j) => j <= k
<1> DEFINE S == {k \in 0..Len(existing) :
                   k <= Len(incoming) /\ OverlapsBy(existing, incoming, k)}
<1>1. Len(existing) \in Nat /\ Len(incoming) \in Nat
  BY LenProperties
<1>2. S \subseteq 0..Len(existing)
  OBVIOUS
<1>3. 0 \in S
  BY <1>1 DEF OverlapsBy
<1>4. Max(S) \in S /\ \A y \in S : y <= Max(S)
  <2> HIDE DEF S
  <2> QED  BY <1>1, <1>2, <1>3, MaxOfBounded
<1>5. TailOverlap(existing, incoming) = Max(S)
  BY DEF TailOverlap
<1>6. QED
  BY <1>4, <1>5

(* An incoming sequence that is found whole at the end overlaps whole.     *)
LEMMA WholeOverlap ==
  ASSUME NEW M, NEW existing \in Seq(M), NEW incoming \in Seq(M),
         Len(incoming) <= Len(existing),
         OverlapsBy(existing, incoming, Len(incoming))
  PROVE  TailOverlap(existing, incoming) = Len(incoming)
<1>1. Len(existing) \in Nat /\ Len(incoming) \in Nat
  BY LenProperties
<1>2. Len(incoming) \in 0..Len(existing)
  BY <1>1
<1>3. /\ TailOverlap(existing, incoming) \in 0..Len(existing)
      /\ TailOverlap(existing, incoming) <= Len(incoming)
      /\ Len(incoming) <= TailOverlap(existing, incoming)
  BY <1>1, <1>2, TailOverlapIsMax
<1>4. QED
  BY <1>1, <1>3

(* s is t without its first d elements. *)
DropsFirst(s, t, d) ==
  /\ d <= Len(t) /\ Len(s) = Len(t) - d
  /\ \A i \in 1..Len(t) - d : s[i] = t[i + d]

(* Remainder is the transcript, or all of it but the first line.           *)
LEMMA RemainderIsSuffix ==
  ASSUME NEW M, NEW existing \in Seq(M), NEW transcript \in Seq(M)
  PROVE  /\ Remainder(existing, transcript) \in Seq(M)
         /\ \E d \in {0, 1} :
              /\ DropsFirst(Remainder(existing, transcript), transcript, d)
              /\ d = 1 <=> /\ transcript # <<>>
                           /\ Signature(Head(transcript)) = Signature(Head(existing))
<1>1. Len(transcript) \in Nat /\ (transcript # <<>> => Len(transcript) >= 1)
  BY LenProperties, EmptySeq
<1>2. CASE transcript # <<>> /\ Signature(Head(transcript)) = Signature(Head(existing))
  <2>1. Remainder(existing, transcript) = Tail(transcript)
    BY <1>2 DEF Remainder
  <2>2. /\ Tail(transcript) \in Seq(M)
        /\ Len(Tail(transcript)) = Len(transcript) - 1
        /\ \A i \in 1..Len(Tail(transcript)) : Tail(transcript)[i] = transcript[i + 1]
    BY <1>2, HeadTailProperties
  <2>3. QED
    BY <1>1, <1>2, <2>1, <2>2 DEF DropsFirst
<1>3. CASE ~(transcript # <<>> /\ Signature(Head(transcript)) = Signature(Head(existing)))
  <2>1. Remainder(existing, transcript) = transcript
    BY <1>3 DEF Remainder
  <2>2. QED
    BY <1>1, <1>3, <2>1 DEF DropsFirst
<1>4. QED
  BY <1>2, <1>3

(* A closeout appends an end of its transcript, in order and unchanged.    *)
LEMMA NewMessagesIsSuffix ==
  ASSUME NEW M, NEW existing \in Seq(M), NEW transcript \in Seq(M)
  PROVE  /\ NewMessages(existing, transcript) \in Seq(M)
         /\ \E d \in 0..Len(transcript) :
              DropsFirst(NewMessages(existing, transcript), transcript, d)
<1>1. Len(transcript) \in Nat
  BY LenProperties
<1>2. CASE existing = <<>>
  <2>1. NewMessages(existing, transcript) = transcript
    BY <1>2 DEF NewMessages
  <2>2. QED
    BY <1>1, <2>1 DEF DropsFirst
<1>3. CASE existing # <<>>
  <2> DEFINE rest == Remainder(existing, transcript)
             k == TailOverlap(existing, rest)
  <2>1. PICK d \in {0, 1} : rest \in Seq(M) /\ DropsFirst(rest, transcript, d)
    BY RemainderIsSuffix
  <2>2. NewMessages(existing, transcript) = SubSeq(rest, k + 1, Len(rest))
    BY <1>3 DEF NewMessages
  <2> HIDE DEF rest
  <2>3. k \in Nat /\ k <= Len(rest)
    BY <2>1, TailOverlapIsMax, LenProperties
  <2> HIDE DEF k
  <2>4. \A i \in (k + 1)..Len(rest) : rest[i] \in M
    BY <2>1, <2>3, ElementOfSeq, LenProperties
  <2>5. /\ SubSeq(rest, k + 1, Len(rest)) \in Seq(M)
        /\ DropsFirst(SubSeq(rest, k + 1, Len(rest)), rest, k)
    BY <2>1, <2>3, <2>4, SubSeqProperties, LenProperties DEF DropsFirst
  <2>6. /\ k + d \in 0..Len(transcript)
        /\ DropsFirst(SubSeq(rest, k + 1, Len(rest)), transcript, k + d)
    BY <1>1, <2>1, <2>3, <2>5 DEF DropsFirst
  <2>7. QED
    BY <2>2, <2>5, <2>6
<1>4. QED
  BY <1>2, <1>3

LEMMA HeadIsFirst ==
  ASSUME NEW M, NEW s \in Seq(M), s # <<>>
  PROVE  Head(s) = s[1]
OBVIOUS

-----------------------------------------------------------------------------
SaysTheSame(s, t) ==
  Len(s) = Len(t) /\ \A i \in 1..Len(s) : Signature(s[i]) = Signature(t[i])

(* A closeout that is sent again, when nothing has been added since, adds  *)
(* nothing: build_voice_messages is idempotent, whatever the history and   *)
(* the transcript are.                                                     *)
THEOREM RetryAppendsNothing ==
  ASSUME NEW M, NEW existing \in Seq(M), NEW transcript \in Seq(M),
         NEW again \in Seq(M), SaysTheSame(transcript, again)
  PROVE  NewMessages(existing \o NewMessages(existing, transcript), again) = <<>>
<1> DEFINE now == existing \o NewMessages(existing, transcript)
           rest == Remainder(now, again)
<1>1. /\ NewMessages(existing, transcript) \in Seq(M)
      /\ now \in Seq(M)
  BY NewMessagesIsSuffix, ConcatProperties
<1>2. /\ rest \in Seq(M)
      /\ Len(rest) \in Nat
      /\ Len(again) = Len(transcript)
      /\ Len(transcript) \in Nat
      /\ Len(now) \in Nat
  BY <1>1, RemainderIsSuffix, LenProperties DEF SaysTheSame
<1>3. SUFFICES now # <<>> => /\ Len(rest) <= Len(now)
                             /\ OverlapsBy(now, rest, Len(rest))
  <2> HIDE DEF now, rest
  <2>1. CASE now = <<>>
    <3>1. transcript = <<>>
      <4>1. existing = <<>> /\ NewMessages(existing, transcript) = <<>>
        BY <1>1, <2>1, ConcatEqualIffEmpty DEF now
      <4>2. QED
        BY <4>1 DEF NewMessages
    <3>2. again = <<>>
      BY <1>2, <3>1, EmptySeq
    <3>3. QED
      BY <2>1, <3>2 DEF NewMessages, now
  <2>2. CASE now # <<>>
    <3>1. TailOverlap(now, rest) = Len(rest)
      BY <1>1, <1>2, <1>3, <2>2, WholeOverlap
    <3>2. NewMessages(now, again) = SubSeq(rest, Len(rest) + 1, Len(rest))
      BY <2>2, <3>1 DEF NewMessages, rest
    <3>3. QED
      BY <1>2, <3>2, SubSeqEmpty DEF now
  <2>3. QED
    BY <2>1, <2>2
<1>4. PICK d \in {0, 1} :
        /\ DropsFirst(rest, again, d)
        /\ d = 1 <=> again # <<>> /\ Signature(Head(again)) = Signature(Head(now))
  <2> HIDE DEF now
  <2> QED  BY <1>1, RemainderIsSuffix, Zenon
<1>5. /\ transcript # <<>> <=> again # <<>>
      /\ transcript # <<>> => Signature(Head(transcript)) = Signature(Head(again))
  BY <1>2, EmptySeq, HeadTailProperties DEF SaysTheSame
<1>6. ASSUME now # <<>>, existing = <<>>
      PROVE  Len(rest) <= Len(now) /\ OverlapsBy(now, rest, Len(rest))
  <2>1. now = transcript
    BY <1>6, ConcatEmptySeq DEF NewMessages
  <2>2. d = 1
    BY <1>4, <1>5, <1>6, <2>1
  <2> HIDE DEF now, rest
  <2>3. \A i \in 1..Len(rest) : /\ rest[i] = again[i + 1]
                               /\ now[Len(now) - Len(rest) + i] = transcript[i + 1]
                               /\ i + 1 \in 1..Len(transcript)
    BY <1>2, <1>4, <2>1, <2>2 DEF DropsFirst
  <2>4. QED
    BY <1>2, <1>4, <2>1, <2>2, <2>3 DEF OverlapsBy, SaysTheSame, DropsFirst
<1>7. ASSUME existing # <<>>
      PROVE  Len(rest) <= Len(now) /\ OverlapsBy(now, rest, Len(rest))
  <2> DEFINE first == Remainder(existing, transcript)
             k == TailOverlap(existing, first)
             new == NewMessages(existing, transcript)
  <2>1. Len(existing) \in Nat \ {0}
    BY <1>7, EmptySeq
  <2>2. /\ Len(now) = Len(existing) + Len(new)
        /\ \A i \in 1..Len(now) :
             now[i] = IF i <= Len(existing) THEN existing[i] ELSE new[i - Len(existing)]
    BY <1>1, ConcatProperties
  <2>3. Len(new) \in Nat
    BY <1>1, LenProperties
  <2>4. now # <<>> /\ Head(now) = Head(existing)
    <3> HIDE DEF now, new
    <3>1. Len(now) >= 1 /\ now[1] = existing[1]
      BY <2>1, <2>2, <2>3
    <3>2. now # <<>>
      BY <3>1, EmptySeq
    <3>3. QED
      BY <1>1, <1>7, <3>1, <3>2, HeadIsFirst
  <2>5. first \in Seq(M)
    BY RemainderIsSuffix
  <2>6. PICK e \in {0, 1} :
          /\ DropsFirst(first, transcript, e)
          /\ e = 1 <=> /\ transcript # <<>>
                       /\ Signature(Head(transcript)) = Signature(Head(existing))
    <3> HIDE DEF now, rest, new, k
    <3> QED  BY RemainderIsSuffix, Zenon
  <2>7. d = e
    <3> HIDE DEF now, rest, first, new
    <3> QED  BY <1>4, <1>5, <2>4, <2>6
  <2>8. /\ Len(first) = Len(rest)
        /\ \A i \in 1..Len(rest) : Signature(first[i]) = Signature(rest[i])
    <3> HIDE DEF now, rest, first, new
    <3> QED  BY <1>2, <1>4, <2>6, <2>7 DEF SaysTheSame, DropsFirst
  <2>9. /\ k \in 0..Len(existing) /\ k <= Len(first)
        /\ OverlapsBy(existing, first, k)
    BY <2>5, TailOverlapIsMax
  <2>10. /\ Len(new) = Len(first) - k
        /\ \A i \in 1..Len(first) - k : new[i] = first[k + i]
    <3>1. new = SubSeq(first, k + 1, Len(first))
      BY <1>7 DEF NewMessages
    <3> HIDE DEF now, rest, first, k, new
    <3>2. \A i \in (k + 1)..Len(first) : first[i] \in M
      BY <2>5, <2>9, ElementOfSeq, LenProperties
    <3>3. QED
      BY <2>1, <2>5, <2>9, <3>1, <3>2, SubSeqProperties, LenProperties
  <2> HIDE DEF now, rest, first, k, new
  <2>11. Len(rest) <= Len(now) /\ Len(now) - Len(rest) = Len(existing) - k
    BY <1>2, <2>1, <2>2, <2>8, <2>9, <2>10
  <2>12. ASSUME NEW i \in 1..Len(rest)
         PROVE  Signature(now[Len(now) - Len(rest) + i]) = Signature(rest[i])
    <3>1. CASE i <= k
      <4>1. now[Len(existing) - k + i] = existing[Len(existing) - k + i]
        BY <1>2, <2>1, <2>2, <2>3, <2>9, <3>1
      <4>2. Signature(existing[Len(existing) - k + i]) = Signature(first[i])
        BY <2>1, <2>9, <3>1 DEF OverlapsBy
      <4>3. QED
        BY <2>8, <2>11, <4>1, <4>2
    <3>2. CASE i > k
      <4>1. now[Len(existing) - k + i] = new[i - k]
        <5>1. /\ Len(existing) - k + i \in 1..Len(now)
              /\ ~(Len(existing) - k + i <= Len(existing))
              /\ (Len(existing) - k + i) - Len(existing) = i - k
          BY <1>2, <2>1, <2>2, <2>8, <2>9, <2>10, <3>2
        <5>2. QED
          BY <2>2, <5>1
      <4>2. new[i - k] = first[i]
        BY <1>2, <2>1, <2>8, <2>9, <2>10, <3>2
      <4>3. QED
        BY <2>8, <2>11, <4>1, <4>2
    <3>3. QED
      BY <1>2, <2>1, <2>9, <3>1, <3>2
  <2>13. QED
    BY <2>11, <2>12 DEF OverlapsBy
<1>8. QED
  BY <1>6, <1>7

-----------------------------------------------------------------------------
(* The message table.                                                      *)

LEMMA MaxOfInitialSegment ==
  ASSUME NEW n \in Nat
  PROVE  Max((0..n) \cup {-1}) = n
<1>1. n \in (0..n) \cup {-1} /\ \A y \in (0..n) \cup {-1} : n >= y
  OBVIOUS
<1>2. \A x \in (0..n) \cup {-1} : (\A y \in (0..n) \cup {-1} : x >= y) => x = n
  OBVIOUS
<1>3. QED
  BY <1>1, <1>2 DEF Max

(* The positions are contiguous up to n exactly when n is the maximum.     *)
LEMMA MaxPositionIs ==
  ASSUME NEW n \in Nat, DOMAIN messages = 0..n
  PROVE  MaxPosition = n
BY MaxOfInitialSegment DEF MaxPosition

LEMMA BlocksAreMessages ==
  /\ \A r \in Replies : /\ ReplyBlock(r) \in Seq(Message)
                        /\ Len(ReplyBlock(r)) = 2
                        /\ ReplyBlock(r)[1].by = r /\ ReplyBlock(r)[2].by = r
  /\ \A c \in Closeouts : /\ Transcript(c) \in Seq(Message)
                          /\ \A i \in 1..Len(Transcript(c)) : Transcript(c)[i].by = c
<1>1. ASSUME NEW r \in Replies
      PROVE  /\ ReplyBlock(r) \in Seq(Message)
             /\ Len(ReplyBlock(r)) = 2
             /\ ReplyBlock(r)[1].by = r /\ ReplyBlock(r)[2].by = r
  BY DEF ReplyBlock, Message, Text, Author, Turns
<1>2. ASSUME NEW c \in Closeouts
      PROVE  /\ Transcript(c) \in Seq(Message)
             /\ \A i \in 1..Len(Transcript(c)) : Transcript(c)[i].by = c
  <2>1. Conversation[c] \in Seq(Line)
    BY ConversationAssumption
  <2>2. /\ DOMAIN Conversation[c] = 1..Len(Conversation[c])
        /\ Len(Conversation[c]) \in Nat
    BY <2>1, LenProperties
  <2>3. \A i \in 1..Len(Conversation[c]) : Conversation[c][i] \in Line
    BY <2>1, ElementOfSeq
  <2>4. \A i \in 1..Len(Conversation[c]) :
          [role |-> Conversation[c][i].role, text |-> Conversation[c][i].text, by |-> c]
            \in Message
    BY <2>3 DEF Line, Message, Text, Author, Turns
  <2>5. QED
    BY <2>2, <2>4 DEF Transcript
<1>3. QED
  BY <1>1, <1>2

(* A block that meets no constraint is put at the end of the history.      *)
LEMMA InsertAppends ==
  ASSUME PositionsContiguous, messages \in [DOMAIN messages -> Message],
         NEW q \in Requests, tx[q].next \in 0..(MaxPosition + 1),
         NEW block \in Seq(Message), ~PositionTaken(q, block)
  PROVE  LET m == Insert(q, block)
         IN  /\ DOMAIN m = 0..(MaxPosition + Len(block))
             /\ m \in [0..(MaxPosition + Len(block)) -> Message]
             /\ \A i \in 0..MaxPosition : m[i] = messages[i]
             /\ \A i \in 1..Len(block) : m[MaxPosition + i] = block[i]
<1> DEFINE n == MaxPosition
           new == Positions(tx[q].next, block)
<1>1. Len(block) \in Nat /\ \A i \in 1..Len(block) : block[i] \in Message
  BY LenProperties, ElementOfSeq
<1>2. DOMAIN messages = 0..n /\ n \in Nat
  BY DEF PositionsContiguous
<1>3. Len(block) > 0 => tx[q].next = n + 1
  <2>1. Len(block) > 0 => tx[q].next \in new
    BY <1>1, <1>2 DEF Positions
  <2>2. tx[q].next \in new => tx[q].next \notin 0..n
    BY <1>2 DEF PositionTaken
  <2> HIDE DEF n, new
  <2>3. QED
    BY <1>2, <2>1, <2>2 DEF n
<1>4. new = (n + 1)..(n + Len(block))
  BY <1>1, <1>2, <1>3 DEF Positions
<1>5. DOMAIN messages \cup new = 0..(n + Len(block))
  BY <1>1, <1>2, <1>4
<1>6. Insert(q, block) = [i \in 0..(n + Len(block)) |->
                            IF i \in new THEN block[i - tx[q].next + 1] ELSE messages[i]]
  BY <1>5 DEF Insert
<1>7. ASSUME NEW i \in 0..n
      PROVE  Insert(q, block)[i] = messages[i] /\ messages[i] \in Message
  <2>1. i \in 0..(n + Len(block)) /\ i \notin new
    BY <1>1, <1>2, <1>4
  <2> HIDE DEF n, new
  <2>2. QED
    BY <1>2, <1>6, <2>1
<1>8. ASSUME NEW i \in 1..Len(block)
      PROVE  Insert(q, block)[n + i] = block[i]
  <2>1. n + i \in 0..(n + Len(block)) /\ n + i \in new
    BY <1>1, <1>2, <1>4
  <2>2. (n + i) - tx[q].next + 1 = i
    BY <1>1, <1>2, <1>3
  <2> HIDE DEF n, new
  <2>3. QED
    BY <1>6, <2>1, <2>2
<1>9. \A i \in 0..(n + Len(block)) : Insert(q, block)[i] \in Message
  <2> TAKE i \in 0..(n + Len(block))
  <2>1. CASE i \in 0..n
    BY <1>7, <2>1
  <2>2. CASE i \notin 0..n
    <3>1. i - n \in 1..Len(block) /\ n + (i - n) = i
      BY <1>1, <1>2, <2>2
    <3> HIDE DEF n, new
    <3>2. QED
      BY <1>1, <1>8, <3>1
  <2>3. QED
    BY <2>1, <2>2
<1>10. QED
  <2> HIDE DEF n, new
  <2>1. QED
    BY <1>6, <1>7, <1>8, <1>9 DEF n

-----------------------------------------------------------------------------
(* Which steps change what.                                                *)

(* Only the two commits of turns change the messages and what is stored.   *)
LEMMA HistorySteps ==
  ASSUME [Next]_vars
  PROVE  \/ messages' = messages /\ stored' = stored
         \/ \E r \in Replies : CommitSave(r)
         \/ \E c \in Closeouts : StoreCloseout(c)
<1>1. CASE \E r \in Replies : ReplyStep(r)
  BY <1>1 DEF ReplyStep, ReplyProgress, GenerateReply, BuildReply, CoachFails, BeginSave, RetrySave,
     GiveUpSave, ReadReplyProfile, WriteReplyProfile, SkipReplyProfile, ReplyFails,
     ReplyLoses, LoadReplyTurn, Rollback, storeVars
<1>2. CASE \E c \in Closeouts : CloseoutStep(c)
  BY <1>2 DEF CloseoutStep, CloseoutProgress, ReadSession, JoinTranscript,
     RefuseTranscript, BuildReview, OpenFinalize, FlushFinalize, ReadFinalize,
     CloseoutConflicts, ReadCloseoutProfile, WriteCloseoutProfile, SkipCloseoutProfile,
     CloseoutFails, CloseoutLoses, LoadHead, FlushHead, LoadFinalize, Rollback, storeVars
<1>3. CASE \E b \in Bootstraps : BootstrapStep(b)
  BY <1>3 DEF BootstrapStep, BootstrapProgress, MintToken, OpenSaveFact, SaveFact,
     BootstrapConflicts, AnswerBootstrap, BootstrapFails, LoadFact, CommitFact, storeVars
<1>4. CASE UNCHANGED vars
  BY <1>4 DEF vars, storeVars
<1>5. QED
  BY <1>1, <1>2, <1>3, <1>4 DEF Next, Finished

(* A transaction reads the next free position, or keeps the one it has.    *)
LEMMA LoadsReadTheEnd ==
  ASSUME TypeOK, NEW p \in Requests, NEW q \in Requests,
         LoadReplyTurn(p) \/ LoadHead(p) \/ LoadFinalize(p) \/ LoadFact(p)
  PROVE  tx'[q].next \in {tx[q].next, MaxPosition + 1}
<1>1. tx \in [Requests -> TxView]
  BY DEF TypeOK
<1>2. CASE LoadReplyTurn(p)
  BY <1>1, <1>2 DEF LoadReplyTurn, TxView
<1>3. CASE LoadHead(p)
  BY <1>1, <1>3 DEF LoadHead, TxView
<1>4. CASE LoadFinalize(p)
  BY <1>1, <1>4 DEF LoadFinalize, TxView
<1>5. CASE LoadFact(p)
  BY <1>1, <1>5 DEF LoadFact, TxView
<1>6. QED
  BY <1>2, <1>3, <1>4, <1>5

LEMMA PositionReads ==
  ASSUME TypeOK, [Next]_vars, NEW q \in Requests
  PROVE  tx'[q].next \in {tx[q].next, MaxPosition + 1}
<1>1. CASE \E r \in Replies : ReplyStep(r)
  <2>1. PICK r \in Replies : ReplyStep(r)
    BY <1>1
  <2>2. tx' = tx \/ LoadReplyTurn(r)
    BY <2>1 DEF ReplyStep, ReplyProgress, GenerateReply, BuildReply, CoachFails, BeginSave, CommitSave,
       RetrySave, GiveUpSave, ReadReplyProfile, WriteReplyProfile, SkipReplyProfile,
       ReplyFails, ReplyLoses, CommitReplyTurn, Rollback, storeVars
  <2>3. QED
    BY <2>2, LoadsReadTheEnd DEF Requests, Turns
<1>2. CASE \E c \in Closeouts : CloseoutStep(c)
  <2>1. PICK c \in Closeouts : CloseoutStep(c)
    BY <1>2
  <2>2. tx' = tx \/ LoadHead(c) \/ LoadFinalize(c)
    BY <2>1 DEF CloseoutStep, CloseoutProgress, ReadSession, JoinTranscript,
       RefuseTranscript, BuildReview, OpenFinalize, FlushFinalize, ReadFinalize,
       StoreCloseout, CloseoutConflicts, ReadCloseoutProfile, WriteCloseoutProfile,
       SkipCloseoutProfile, CloseoutFails, CloseoutLoses, FlushHead, CommitFinalize,
       Rollback, storeVars
  <2>3. QED
    BY <2>2, LoadsReadTheEnd DEF Requests, Turns
<1>3. CASE \E b \in Bootstraps : BootstrapStep(b)
  <2>1. PICK b \in Bootstraps : BootstrapStep(b)
    BY <1>3
  <2>2. tx' = tx \/ LoadFact(b)
    BY <2>1 DEF BootstrapStep, BootstrapProgress, MintToken, OpenSaveFact, SaveFact,
       BootstrapConflicts, AnswerBootstrap, BootstrapFails, CommitFact, storeVars
  <2>3. QED
    BY <2>2, LoadsReadTheEnd DEF Requests
<1>4. CASE UNCHANGED vars
  BY <1>4 DEF vars, storeVars
<1>5. QED
  BY <1>1, <1>2, <1>3, <1>4 DEF Next, Finished

-----------------------------------------------------------------------------
(* The type invariant.                                                     *)

(* The inductive invariant gives every read of the store its type.         *)
LEMMA StoreTypes ==
  ASSUME TypeOK, PositionsContiguous
  PROVE  /\ MaxPosition \in Nat
         /\ LoadMessages \in Seq(Message) /\ Len(LoadMessages) = MaxPosition + 1
         /\ MaxPosition + 1 \in Nat
<1>1. MaxPosition \in Nat /\ DOMAIN messages = 0..MaxPosition
  BY DEF PositionsContiguous
<1>2. \A i \in 1..(MaxPosition + 1) : messages[i - 1] \in Message
  <2> TAKE i \in 1..(MaxPosition + 1)
  <2>1. i - 1 \in DOMAIN messages
    BY <1>1
  <2>2. QED
    BY <2>1 DEF TypeOK
<1>3. /\ LoadMessages \in [1..(MaxPosition + 1) -> Message]
      /\ MaxPosition + 1 \in Nat
  BY <1>1, <1>2 DEF LoadMessages
<1>4. LoadMessages \in Seq(Message)
  BY <1>3, SeqDef
<1>5. DOMAIN LoadMessages = 1..(MaxPosition + 1) /\ DOMAIN LoadMessages = 1..Len(LoadMessages)
        /\ Len(LoadMessages) \in Nat
  BY <1>3, <1>4, LenProperties
<1>6. QED
  BY <1>1, <1>3, <1>4, <1>5

LEMMA LoadTypes ==
  ASSUME TypeOK, PositionsContiguous, NEW q \in Requests,
         LoadReplyTurn(q) \/ LoadHead(q) \/ LoadFinalize(q) \/ LoadFact(q)
  PROVE  tx' \in [Requests -> TxView]
<1>1. tx \in [Requests -> TxView] /\ MaxPosition + 1 \in Nat
  BY StoreTypes DEF TypeOK
<1>2. CASE LoadReplyTurn(q)
  BY <1>1, <1>2 DEF LoadReplyTurn, TxView, TypeOK
<1>3. CASE LoadHead(q)
  BY <1>1, <1>3 DEF LoadHead, TxView, TypeOK
<1>4. CASE LoadFinalize(q)
  <2>1. fact \in FactRow /\ review \in ReviewRow
    BY DEF TypeOK
  <2>2. QED
    BY <1>1, <1>4, <2>1 DEF LoadFinalize, TxView
<1>5. CASE LoadFact(q)
  BY <1>1, <1>5 DEF LoadFact, TxView, TypeOK
<1>6. QED
  BY <1>2, <1>3, <1>4, <1>5

LEMMA CommitTypes ==
  ASSUME TypeOK, PositionsContiguous, ReadPositionsBounded,
         NEW q \in Requests, NEW block \in Seq(Message),
         ~PositionTaken(q, block), messages' = Insert(q, block)
  PROVE  DOMAIN messages' \in SUBSET Nat /\ messages' \in [DOMAIN messages' -> Message]
<1>1. tx[q].next \in 0..(MaxPosition + 1) /\ messages \in [DOMAIN messages -> Message]
  BY DEF ReadPositionsBounded, TypeOK
<1>2. /\ DOMAIN messages' = 0..(MaxPosition + Len(block))
      /\ messages' \in [0..(MaxPosition + Len(block)) -> Message]
  BY <1>1, InsertAppends
<1>3. QED
  BY <1>2

LEMMA UpdatedFactType ==
  ASSUME TypeOK, NEW q \in Requests, NEW new \in FactRow
  PROVE  UpdatedFact(q, new) \in FactRow
BY DEF TypeOK, UpdatedFact, Unless, FactRow

(* The rows that are built and written for reviews are review rows.        *)
LEMMA NoReviewType == NoReview \in ReviewRow
BY DEF NoReview, ReviewRow, Highlight, Quote, Author

LEMMA ReviewTypes ==
  ASSUME NEW t \in Turns, NEW quote \in Quote, NEW degraded \in BOOLEAN, NEW hasCopy \in BOOLEAN
  PROVE  BuiltReview(t, quote, degraded, hasCopy) \in ReviewRow
<1>1. t \in Author /\ NoOne \in Author
  BY DEF Author
<1>2. t \in Highlight /\ quote \in Highlight
  BY DEF Highlight
<1>3. QED
  BY <1>1, <1>2 DEF BuiltReview, ReviewRow

LEMMA UpdatedReviewType ==
  ASSUME TypeOK, NEW q \in Requests, NEW new \in ReviewRow
  PROVE  UpdatedReview(q, new) \in ReviewRow
BY DEF TypeOK, UpdatedReview, Unless, ReviewRow

LEMMA ReplyTypes ==
  ASSUME TypeOK, PositionsContiguous, ReadPositionsBounded,
         NEW r \in Replies, ReplyStep(r), UNCHANGED voiceVars
  PROVE  TypeOK'
<1>1. /\ r \in Requests /\ r \in Turns /\ r \in Author
      /\ reply \in [Replies -> ReplyState]
  BY DEF TypeOK, Requests, Turns, Author
<1>2. CASE GenerateReply(r)
  <2>0. <<r>> \in Quote
    BY DEF Quote, Text
  <2>1. PICK copy \in BOOLEAN, built \in ReviewRow :
          reply' = [reply EXCEPT ![r].pc = "built", ![r].hasCopy = copy, ![r].review = built]
    BY <1>1, <1>2, <2>0, ReviewTypes DEF GenerateReply, BuildReply
  <2>2. reply' \in [Replies -> ReplyState]
    BY <1>1, <2>1 DEF ReplyState, ReplyPc
  <2>3. QED
    BY <1>2, <2>2 DEF GenerateReply, TypeOK, storeVars, profileVars, voiceVars
<1>3. CASE CoachFails(r)
  BY <1>1, <1>3 DEF CoachFails, ReplyGoes, TypeOK, ReplyState, ReplyPc, ReplyEnds, storeVars, profileVars, voiceVars
<1>4. CASE BeginSave(r)
  <2>1. tx' \in [Requests -> TxView]
    BY <1>1, <1>4, LoadTypes DEF BeginSave
  <2>2. reply' \in [Replies -> ReplyState]
    BY <1>1, <1>4 DEF BeginSave, ReplyGoes, ReplyState, ReplyPc
  <2>3. QED
    BY <1>4, <2>1, <2>2 DEF BeginSave, LoadReplyTurn, TypeOK, profileVars, voiceVars
<1>5. CASE CommitSave(r)
  <2>1. ~PositionTaken(r, ReplyBlock(r)) /\ messages' = Insert(r, ReplyBlock(r))
    BY <1>5 DEF CommitSave, CommitReplyTurn, TurnViolatesUnique
  <2>2. DOMAIN messages' \in SUBSET Nat /\ messages' \in [DOMAIN messages' -> Message]
    BY <1>1, <2>1, CommitTypes, BlocksAreMessages
  <2>3. head' \in SessionRow /\ stored' \in SUBSET Turns /\ review' \in ReviewRow
    <3>1. reply[r].review \in ReviewRow
      BY <1>1 DEF ReplyState
    <3>2. UpdatedReview(r, reply[r].review) \in ReviewRow
      BY <1>1, <3>1, UpdatedReviewType
    <3>3. QED
      BY <1>1, <1>5, <3>2 DEF CommitSave, CommitReplyTurn, TypeOK, SessionRow
  <2>4. reply' \in [Replies -> ReplyState]
    BY <1>1, <1>5 DEF CommitSave, ReplyGoes, ReplyState, ReplyPc
  <2>5. QED
    BY <1>5, <2>2, <2>3, <2>4 DEF CommitSave, CommitReplyTurn, TypeOK, profileVars, voiceVars
<1>6. CASE RetrySave(r)
  BY <1>1, <1>6 DEF RetrySave, TypeOK, ReplyState, ReplyPc, Attempts, Rollback, Author, profileVars, voiceVars
<1>7. CASE GiveUpSave(r)
  BY <1>1, <1>7 DEF GiveUpSave, ReplyGoes, TypeOK, ReplyState, ReplyPc, ReplyEnds, Rollback, Author, profileVars, voiceVars
<1>8. CASE ReadReplyProfile(r)
  BY <1>1, <1>8 DEF ReadReplyProfile, ReadProfile, ReplyGoes, TypeOK, ReplyState, ReplyPc, storeVars, voiceVars
<1>9. CASE WriteReplyProfile(r)
  BY <1>1, <1>9 DEF WriteReplyProfile, WriteProfile, ReplyGoes, TypeOK, ReplyState, ReplyPc, ReplyEnds, storeVars, voiceVars
<1>10. CASE SkipReplyProfile(r)
  BY <1>1, <1>10 DEF SkipReplyProfile, ReplyGoes, TypeOK, ReplyState, ReplyPc, ReplyEnds, storeVars, profileVars, voiceVars
<1>11. CASE ReplyFails(r)
  BY <1>1, <1>11 DEF ReplyFails, ReplyGoes, TypeOK, ReplyState, ReplyPc, ReplyEnds, Rollback, Author, profileVars, voiceVars
<1>12. CASE ReplyLoses(r)
  BY <1>1, <1>12 DEF ReplyLoses, ReplyGoes, TypeOK, ReplyState, ReplyPc, ReplyEnds, storeVars, profileVars, voiceVars
<1>13. QED
  BY <1>2, <1>3, <1>4, <1>5, <1>6, <1>7, <1>8, <1>9, <1>10, <1>11, <1>12
     DEF ReplyStep, ReplyProgress

LEMMA CloseoutTypes ==
  ASSUME TypeOK, PositionsContiguous, ReadPositionsBounded,
         NEW c \in Closeouts, CloseoutStep(c), UNCHANGED replyVars
  PROVE  TypeOK'
<1>1. /\ c \in Requests /\ c \in Turns /\ c \in Author
      /\ closeout \in [Closeouts -> CloseoutState]
  BY DEF TypeOK, Requests, Turns, Author
<1>2. CASE ReadSession(c)
  <2>1. closeout' \in [Closeouts -> CloseoutState]
    BY <1>1, <1>2 DEF ReadSession, TypeOK, CloseoutState, CloseoutPc
  <2>2. QED
    BY <1>2, <2>1 DEF ReadSession, TypeOK, storeVars, profileVars, replyVars
<1>3. CASE JoinTranscript(c)
  <2>1. NewMessages(LoadMessages, Transcript(c)) \in Seq(Message)
    BY StoreTypes, BlocksAreMessages, NewMessagesIsSuffix
  <2>2. PICK quote \in Quote :
          closeout' = [closeout EXCEPT ![c].pc = "joined",
                                       ![c].fresh = NewMessages(LoadMessages, Transcript(c)),
                                       ![c].quote = quote]
    <3> DEFINE fresh == NewMessages(LoadMessages, Transcript(c))
               lines == LoadMessages \o fresh
    <3>1. lines \in Seq(Message)
      BY <2>1, StoreTypes, ConcatProperties
    <3> HIDE DEF lines
    <3>2. \A i \in DOMAIN lines : lines[i].text \in Text
      <4>1. DOMAIN lines = 1..Len(lines) /\ \A i \in 1..Len(lines) : lines[i] \in Message
        BY <3>1, ElementOfSeq, LenProperties
      <4>2. QED
        BY <4>1 DEF Message
    <3>3. \A text \in LatestLearnerText(lines) : <<text>> \in Quote
      BY <3>2 DEF LatestLearnerText, Quote
    <3>4. QED
      BY <1>3, <3>3 DEF JoinTranscript, lines
  <2>4. closeout' \in [Closeouts -> CloseoutState]
    BY <1>1, <2>1, <2>2 DEF CloseoutState, CloseoutPc
  <2>3. QED
    BY <1>3, <2>4 DEF JoinTranscript, TypeOK, storeVars, profileVars, replyVars
<1>4. CASE RefuseTranscript(c)
  BY <1>1, <1>4 DEF RefuseTranscript, CloseoutGoes, TypeOK, CloseoutState, CloseoutPc,
     CloseoutEnds, storeVars, profileVars, replyVars
<1>5. CASE BuildReview(c)
  <2>1. fact.generation \in Nat /\ closeout[c].snapshot \in SessionRow
    BY <1>1 DEF TypeOK, FactRow, CloseoutState
  <2>2. [closeout[c].snapshot EXCEPT !.names = c] \in SessionRow
    BY <1>1, <2>1 DEF SessionRow
  <2>0. closeout[c].quote \in Quote
    BY <1>1 DEF CloseoutState
  <2>3. PICK row \in SessionRow, built \in ReviewRow :
          closeout' = [closeout EXCEPT ![c].pc = "built", ![c].snapshot = row,
                                       ![c].review = built,
                                       ![c].generation = fact.generation]
    BY <1>1, <1>5, <2>0, <2>1, <2>2, ReviewTypes DEF BuildReview
  <2>4. closeout' \in [Closeouts -> CloseoutState]
    <3> DEFINE now == [closeout[c] EXCEPT !.pc = "built", !.snapshot = row, !.review = built,
                                          !.generation = fact.generation]
    <3>1. now \in CloseoutState
      BY <1>1, <2>1, <2>3 DEF CloseoutState, CloseoutPc
    <3>2. closeout' = [closeout EXCEPT ![c] = now]
      BY <1>1, <2>3
    <3> HIDE DEF now
    <3>3. QED
      BY <1>1, <3>1, <3>2
  <2>5. QED
    BY <1>5, <2>4 DEF BuildReview, TypeOK, storeVars, profileVars, replyVars
<1>6. CASE OpenFinalize(c)
  <2>1. tx' \in [Requests -> TxView]
    BY <1>1, <1>6, LoadTypes DEF OpenFinalize
  <2>2. closeout' \in [Closeouts -> CloseoutState]
    BY <1>1, <1>6 DEF OpenFinalize, CloseoutGoes, CloseoutState, CloseoutPc
  <2>3. QED
    BY <1>6, <2>1, <2>2 DEF OpenFinalize, LoadHead, TypeOK, profileVars, replyVars
<1>7. CASE FlushFinalize(c)
  <2>1. closeout' \in [Closeouts -> CloseoutState]
    BY <1>1, <1>7 DEF FlushFinalize, CloseoutGoes, CloseoutState, CloseoutPc
  <2>2. QED
    BY <1>1, <1>7, <2>1 DEF FlushFinalize, FlushHead, TypeOK, profileVars, replyVars
<1>8. CASE ReadFinalize(c)
  <2>1. tx' \in [Requests -> TxView]
    BY <1>1, <1>8, LoadTypes DEF ReadFinalize
  <2>2. closeout' \in [Closeouts -> CloseoutState]
    BY <1>1, <1>8 DEF ReadFinalize, CloseoutGoes, CloseoutState, CloseoutPc
  <2>3. QED
    BY <1>8, <2>1, <2>2 DEF ReadFinalize, LoadFinalize, TypeOK, profileVars, replyVars
<1>9. CASE StoreCloseout(c)
  <2>1. /\ ~PositionTaken(c, closeout[c].fresh)
        /\ messages' = Insert(c, closeout[c].fresh)
        /\ closeout[c].fresh \in Seq(Message)
    BY <1>1, <1>9 DEF StoreCloseout, CommitFinalize, FinalizeViolatesUnique,
       TurnViolatesUnique, CloseoutState
  <2>2. DOMAIN messages' \in SUBSET Nat /\ messages' \in [DOMAIN messages' -> Message]
    BY <1>1, <2>1, CommitTypes
  <2>3. head' \in SessionRow /\ stored' \in SUBSET Turns /\ review' \in ReviewRow
          /\ rowLock' \in Author
    <3>1. closeout[c].review \in ReviewRow
      BY <1>1 DEF CloseoutState
    <3>2. UpdatedReview(c, closeout[c].review) \in ReviewRow
      BY <1>1, <3>1, UpdatedReviewType
    <3>3. QED
      BY <1>1, <1>9, <3>2 DEF StoreCloseout, CommitFinalize, Unless, TypeOK, SessionRow,
         CloseoutState, Author
  <2>4. fact' \in FactRow
    <3>1. [status |-> "completed", generation |-> closeout[c].generation] \in FactRow
      BY <1>1 DEF FactRow, CloseoutState
    <3>2. QED
      BY <1>1, <1>9, <3>1, UpdatedFactType DEF StoreCloseout, CommitFinalize
  <2>5. closeout' \in [Closeouts -> CloseoutState]
    BY <1>1, <1>9 DEF StoreCloseout, CloseoutGoes, CloseoutState, CloseoutPc
  <2>6. revoked' \in SUBSET Bootstraps /\ crossed' \in BOOLEAN
    BY <1>9 DEF StoreCloseout, Minted, TypeOK
  <2>7. QED
    BY <1>9, <2>2, <2>3, <2>4, <2>5, <2>6
       DEF StoreCloseout, CommitFinalize, TypeOK, profileVars, replyVars
<1>10. CASE CloseoutConflicts(c)
  BY <1>1, <1>10 DEF CloseoutConflicts, CloseoutGoes, TypeOK, CloseoutState, CloseoutPc,
     CloseoutEnds, Rollback, Author, profileVars, replyVars
<1>11. CASE ReadCloseoutProfile(c)
  BY <1>1, <1>11 DEF ReadCloseoutProfile, ReadProfile, CloseoutGoes, TypeOK, CloseoutState,
     CloseoutPc, storeVars, replyVars
<1>12. CASE WriteCloseoutProfile(c)
  BY <1>1, <1>12 DEF WriteCloseoutProfile, WriteProfile, CloseoutGoes, TypeOK, CloseoutState,
     CloseoutPc, CloseoutEnds, storeVars, replyVars
<1>13. CASE SkipCloseoutProfile(c)
  <2>1. closeout' \in [Closeouts -> CloseoutState]
    BY <1>1, <1>13 DEF SkipCloseoutProfile, CloseoutGoes, CloseoutState, CloseoutPc, CloseoutEnds
  <2>2. QED
    BY <1>13, <2>1 DEF SkipCloseoutProfile, TypeOK, storeVars, profileVars, replyVars
<1>14. CASE CloseoutFails(c)
  <2>1. closeout' \in [Closeouts -> CloseoutState]
    BY <1>1, <1>14 DEF CloseoutFails, CloseoutGoes, CloseoutState, CloseoutPc, CloseoutEnds
  <2>2. QED
    BY <1>14, <2>1 DEF CloseoutFails, TypeOK, Rollback, Author, profileVars, replyVars
<1>15. CASE CloseoutLoses(c)
  <2>1. closeout' \in [Closeouts -> CloseoutState]
    BY <1>1, <1>15 DEF CloseoutLoses, CloseoutGoes, CloseoutState, CloseoutPc, CloseoutEnds
  <2>2. QED
    BY <1>15, <2>1 DEF CloseoutLoses, TypeOK, storeVars, profileVars, replyVars
<1>16. QED
  BY <1>2, <1>3, <1>4, <1>5, <1>6, <1>7, <1>8, <1>9, <1>10, <1>11, <1>12, <1>13,
     <1>14, <1>15 DEF CloseoutStep, CloseoutProgress

LEMMA BootstrapTypes ==
  ASSUME TypeOK, PositionsContiguous,
         NEW b \in Bootstraps, BootstrapStep(b), UNCHANGED replyVars
  PROVE  TypeOK'
<1>1. b \in Requests /\ bootstrap \in [Bootstraps -> BootstrapState]
  BY DEF TypeOK, Requests
<1>2. CASE MintToken(b)
  <2>1. fact.generation + 1 \in Nat
    BY DEF TypeOK, FactRow
  <2>2. bootstrap' \in [Bootstraps -> BootstrapState]
    BY <1>1, <1>2, <2>1 DEF MintToken, BootstrapState, BootstrapPc
  <2>3. QED
    BY <1>2, <2>2 DEF MintToken, TypeOK, storeVars, profileVars, replyVars
<1>3. CASE OpenSaveFact(b)
  <2>1. tx' \in [Requests -> TxView]
    BY <1>1, <1>3, LoadTypes DEF OpenSaveFact
  <2>2. bootstrap' \in [Bootstraps -> BootstrapState]
    BY <1>1, <1>3 DEF OpenSaveFact, BootstrapGoes, BootstrapState, BootstrapPc
  <2>3. QED
    BY <1>3, <2>1, <2>2 DEF OpenSaveFact, LoadFact, TypeOK, profileVars, replyVars
<1>4. CASE SaveFact(b)
  <2>1. fact' \in FactRow
    <3>1. [status |-> "active", generation |-> bootstrap[b].generation] \in FactRow
      BY <1>1 DEF FactRow, BootstrapState
    <3>2. QED
      BY <1>1, <1>4, <3>1, UpdatedFactType DEF SaveFact, CommitFact
  <2>2. bootstrap' \in [Bootstraps -> BootstrapState] /\ revoked' \in SUBSET Bootstraps
    BY <1>1, <1>4 DEF SaveFact, BootstrapGoes, BootstrapState, BootstrapPc, Minted, TypeOK
  <2>4. crossed' \in BOOLEAN
    BY <1>4 DEF SaveFact, TypeOK
  <2>3. QED
    BY <1>4, <2>1, <2>2, <2>4 DEF SaveFact, CommitFact, TypeOK, profileVars, replyVars
<1>5. CASE AnswerBootstrap(b)
  BY <1>1, <1>5 DEF AnswerBootstrap, BootstrapGoes, TypeOK, BootstrapState, BootstrapPc,
     BootstrapEnds, storeVars, profileVars, replyVars
<1>6. CASE BootstrapConflicts(b)
  BY <1>1, <1>6 DEF BootstrapConflicts, BootstrapGoes, TypeOK, BootstrapState, BootstrapPc,
     BootstrapEnds, storeVars, profileVars, replyVars
<1>7. CASE BootstrapFails(b)
  BY <1>1, <1>7 DEF BootstrapFails, BootstrapGoes, TypeOK, BootstrapState, BootstrapPc,
     BootstrapEnds, storeVars, profileVars, replyVars
<1>8. QED
  BY <1>2, <1>3, <1>4, <1>5, <1>6, <1>7 DEF BootstrapStep, BootstrapProgress

LEMMA TypeStep ==
  ASSUME TypeOK, PositionsContiguous, ReadPositionsBounded, [Next]_vars
  PROVE  TypeOK'
<1>1. CASE UNCHANGED vars
  BY <1>1 DEF vars, storeVars, profileVars, replyVars, voiceVars, TypeOK
<1>2. QED
  BY <1>1, ReplyTypes, CloseoutTypes, BootstrapTypes DEF Next, Finished

-----------------------------------------------------------------------------
(* The history grows at its end.                                           *)

(* What a commit does to the messages.                                     *)
LEMMA CommitAppends ==
  ASSUME TypeOK, PositionsContiguous, ReadPositionsBounded,
         NEW q \in Requests, NEW block \in Seq(Message),
         ~PositionTaken(q, block), messages' = Insert(q, block)
  PROVE  /\ Len(block) \in Nat
         /\ MaxPosition' = MaxPosition + Len(block)
         /\ DOMAIN messages' = 0..(MaxPosition + Len(block))
         /\ \A i \in 0..MaxPosition : messages'[i] = messages[i]
         /\ \A i \in 1..Len(block) : messages'[MaxPosition + i] = block[i]
<1>1. tx[q].next \in 0..(MaxPosition + 1) /\ messages \in [DOMAIN messages -> Message]
  BY DEF ReadPositionsBounded, TypeOK
<1>2. /\ DOMAIN messages' = 0..(MaxPosition + Len(block))
      /\ \A i \in 0..MaxPosition : messages'[i] = messages[i]
      /\ \A i \in 1..Len(block) : messages'[MaxPosition + i] = block[i]
  BY <1>1, InsertAppends
<1>3. Len(block) \in Nat /\ MaxPosition + Len(block) \in Nat
  BY LenProperties DEF PositionsContiguous
<1>4. MaxPosition' = MaxPosition + Len(block)
  BY <1>2, <1>3, MaxOfInitialSegment DEF MaxPosition
<1>5. QED
  BY <1>2, <1>3, <1>4

LEMMA ReplyCommitAppends ==
  ASSUME TypeOK, PositionsContiguous, ReadPositionsBounded,
         NEW r \in Replies, CommitSave(r)
  PROVE  /\ ReplyBlock(r) \in Seq(Message) /\ Len(ReplyBlock(r)) \in Nat
         /\ MaxPosition' = MaxPosition + Len(ReplyBlock(r))
         /\ DOMAIN messages' = 0..(MaxPosition + Len(ReplyBlock(r)))
         /\ \A i \in 0..MaxPosition : messages'[i] = messages[i]
         /\ \A i \in 1..Len(ReplyBlock(r)) : messages'[MaxPosition + i] = ReplyBlock(r)[i]
         /\ stored' = stored \cup {r}
<1>1. /\ ~PositionTaken(r, ReplyBlock(r)) /\ messages' = Insert(r, ReplyBlock(r))
      /\ stored' = stored \cup {r}
  BY DEF CommitSave, CommitReplyTurn, TurnViolatesUnique
<1>2. r \in Requests /\ ReplyBlock(r) \in Seq(Message)
  BY BlocksAreMessages DEF Requests, Turns
<1>3. QED
  BY <1>1, <1>2, CommitAppends

LEMMA CloseoutCommitAppends ==
  ASSUME TypeOK, PositionsContiguous, ReadPositionsBounded,
         NEW c \in Closeouts, StoreCloseout(c)
  PROVE  LET fresh == closeout[c].fresh
         IN  /\ fresh \in Seq(Message) /\ Len(fresh) \in Nat
             /\ MaxPosition' = MaxPosition + Len(fresh)
             /\ DOMAIN messages' = 0..(MaxPosition + Len(fresh))
             /\ \A i \in 0..MaxPosition : messages'[i] = messages[i]
             /\ \A i \in 1..Len(fresh) : messages'[MaxPosition + i] = fresh[i]
             /\ stored' = stored \cup {c}
<1> DEFINE fresh == closeout[c].fresh
<1>1. /\ ~PositionTaken(c, fresh) /\ messages' = Insert(c, fresh)
      /\ stored' = stored \cup {c}
  BY DEF StoreCloseout, CommitFinalize, FinalizeViolatesUnique, TurnViolatesUnique
<1>2. c \in Requests /\ fresh \in Seq(Message)
  BY DEF Requests, Turns, TypeOK, CloseoutState
<1> HIDE DEF fresh
<1>3. QED
  BY <1>1, <1>2, CommitAppends DEF fresh

(* Whatever the step, the messages there are stay, and the positions       *)
(* remain contiguous.                                                      *)
LEMMA HistoryGrows ==
  ASSUME TypeOK, PositionsContiguous, ReadPositionsBounded, [Next]_vars
  PROVE  /\ MaxPosition' \in Nat /\ MaxPosition <= MaxPosition'
         /\ DOMAIN messages' = 0..MaxPosition'
         /\ \A i \in 0..MaxPosition : messages'[i] = messages[i]
<1>0. MaxPosition \in Nat /\ DOMAIN messages = 0..MaxPosition
  BY DEF PositionsContiguous
<1>1. CASE messages' = messages
  BY <1>0, <1>1 DEF MaxPosition
<1>2. CASE \E r \in Replies : CommitSave(r)
  BY <1>0, <1>2, ReplyCommitAppends
<1>3. CASE \E c \in Closeouts : StoreCloseout(c)
  <2>1. PICK c \in Closeouts : StoreCloseout(c)
    BY <1>3
  <2> DEFINE fresh == closeout[c].fresh
  <2>2. /\ Len(fresh) \in Nat
        /\ MaxPosition' = MaxPosition + Len(fresh)
        /\ DOMAIN messages' = 0..(MaxPosition + Len(fresh))
        /\ \A i \in 0..MaxPosition : messages'[i] = messages[i]
    BY <2>1, CloseoutCommitAppends
  <2>3. QED
    BY <1>0, <2>2
<1>4. QED
  BY <1>1, <1>2, <1>3, HistorySteps

LEMMA PositionsStep ==
  ASSUME TypeOK, PositionsContiguous, ReadPositionsBounded, [Next]_vars
  PROVE  PositionsContiguous' /\ ReadPositionsBounded'
<1>1. PositionsContiguous'
  BY HistoryGrows DEF PositionsContiguous
<1>2. ASSUME NEW q \in Requests
      PROVE  tx'[q].next \in 0..(MaxPosition' + 1)
  <2>1. tx[q].next \in 0..(MaxPosition + 1) /\ MaxPosition \in Nat
    BY DEF ReadPositionsBounded, PositionsContiguous
  <2>2. tx'[q].next \in {tx[q].next, MaxPosition + 1}
    BY PositionReads
  <2>3. MaxPosition' \in Nat /\ MaxPosition <= MaxPosition'
    BY HistoryGrows
  <2>4. QED
    BY <2>1, <2>2, <2>3
<1>3. QED
  BY <1>1, <1>2 DEF ReadPositionsBounded

-----------------------------------------------------------------------------
(* The steps that change more of a request than how far it has got.        *)

LEMMA GeneratedReply ==
  ASSUME TypeOK, NEW r \in Replies, GenerateReply(r)
  PROVE  /\ reply[r].pc = "generating" /\ reply'[r].pc = "built"
         /\ reply'[r].attempt = reply[r].attempt
         /\ UNCHANGED <<storeVars, profileVars>>
<1>1. PICK copy, built :
        reply' = [reply EXCEPT ![r].pc = "built", ![r].hasCopy = copy, ![r].review = built]
  BY DEF GenerateReply, BuildReply
<1>2. QED
  BY <1>1 DEF GenerateReply, TypeOK, ReplyState

LEMMA PreparedCloseout ==
  ASSUME TypeOK, NEW c \in Closeouts
  PROVE  /\ ReadSession(c) => closeout[c].pc = "waiting" /\ closeout'[c].pc = "read"
         /\ JoinTranscript(c) => closeout[c].pc = "read" /\ closeout'[c].pc = "joined"
         /\ BuildReview(c) => closeout[c].pc = "joined" /\ closeout'[c].pc = "built"
<1>0. closeout \in [Closeouts -> CloseoutState]
  BY DEF TypeOK
<1>1. CASE ReadSession(c)
  BY <1>0, <1>1 DEF ReadSession, CloseoutState, JoinTranscript, BuildReview
<1>2. CASE JoinTranscript(c)
  <2>1. PICK fresh, quote :
          closeout' = [closeout EXCEPT ![c].pc = "joined", ![c].fresh = fresh, ![c].quote = quote]
    BY <1>2 DEF JoinTranscript
  <2>2. QED
    BY <1>0, <1>2, <2>1 DEF ReadSession, CloseoutState, JoinTranscript, BuildReview
<1>3. CASE BuildReview(c)
  <2>1. PICK row, built, g :
          closeout' = [closeout EXCEPT ![c].pc = "built", ![c].snapshot = row,
                                       ![c].review = built, ![c].generation = g]
    BY <1>3 DEF BuildReview
  <2>2. QED
    BY <1>0, <1>3, <2>1 DEF ReadSession, CloseoutState, JoinTranscript, BuildReview
<1>4. QED
  BY <1>1, <1>2, <1>3

-----------------------------------------------------------------------------
(* Replies are stored once and whole.                                      *)

StoredPc == {"saved", "profiling", "answered", "lost"}

(* A reply counts as stored exactly from its own commit on.                *)
LEMMA StoredStep ==
  ASSUME TypeOK, StoredSinceCommit, [Next]_vars
  PROVE  StoredSinceCommit'
<1>0. /\ reply \in [Replies -> ReplyState]
      /\ Replies \cap Closeouts = {}
      /\ \A r \in Replies : r \in stored <=> reply[r].pc \in StoredPc
  BY StoreAssumption DEF TypeOK, StoredSinceCommit, StoredPc
<1>1. CASE \E r \in Replies : ReplyStep(r) /\ UNCHANGED voiceVars
  <2>1. PICK r \in Replies : ReplyStep(r)
    BY <1>1
  <2>2. \A s \in Replies \ {r} : reply'[s] = reply[s] /\ (s \in stored' <=> s \in stored)
    BY <1>0, <2>1 DEF ReplyStep, ReplyProgress, ReplyGoes, GenerateReply, BuildReply, CoachFails, BeginSave,
       CommitSave, RetrySave, GiveUpSave, ReadReplyProfile, WriteReplyProfile,
       SkipReplyProfile, ReplyFails, ReplyLoses, LoadReplyTurn, CommitReplyTurn, Rollback,
       storeVars
  <2>3. r \in stored' <=> reply'[r].pc \in StoredPc
    <3>1. CASE CommitSave(r)
      BY <1>0, <3>1 DEF CommitSave, CommitReplyTurn, ReplyGoes, StoredPc, ReplyState
    <3>2. CASE stored' = stored /\ reply[r].pc \notin StoredPc /\ reply'[r].pc \notin StoredPc
      BY <1>0, <3>2
    <3>3. CASE stored' = stored /\ reply[r].pc \in StoredPc /\ reply'[r].pc \in StoredPc
      BY <1>0, <3>3
    <3>4. QED
      BY <1>0, <2>1, <3>1, <3>2, <3>3, GeneratedReply DEF ReplyStep, ReplyProgress, ReplyGoes,
         CoachFails, BeginSave, RetrySave, GiveUpSave, ReadReplyProfile, WriteReplyProfile,
         SkipReplyProfile, ReplyFails, ReplyLoses, LoadReplyTurn, Rollback, storeVars,
         StoredPc, ReplyState
  <2>4. QED
    BY <1>0, <2>2, <2>3 DEF StoredSinceCommit, StoredPc
<1>2. CASE /\ reply' = reply
           /\ stored' = stored \/ \E c \in Closeouts : stored' = stored \cup {c}
  BY <1>0, <1>2 DEF StoredSinceCommit, StoredPc
<1>3. CASE \E c \in Closeouts : CloseoutStep(c) /\ UNCHANGED replyVars
  <2>1. PICK c \in Closeouts : CloseoutStep(c) /\ UNCHANGED replyVars
    BY <1>3
  <2>2. stored' = stored \/ stored' = stored \cup {c}
    BY <2>1 DEF CloseoutStep, CloseoutProgress, ReadSession, JoinTranscript,
       RefuseTranscript, BuildReview, OpenFinalize, FlushFinalize, ReadFinalize,
       StoreCloseout, CloseoutConflicts, ReadCloseoutProfile, WriteCloseoutProfile,
       SkipCloseoutProfile, CloseoutFails, CloseoutLoses, LoadHead, FlushHead,
       LoadFinalize, CommitFinalize, Rollback, storeVars
  <2>3. QED
    BY <1>2, <2>1, <2>2 DEF replyVars
<1>4. CASE \E b \in Bootstraps : BootstrapStep(b) /\ UNCHANGED replyVars
  <2>1. stored' = stored
    BY <1>4 DEF BootstrapStep, BootstrapProgress, MintToken, OpenSaveFact, SaveFact,
       BootstrapConflicts, AnswerBootstrap, BootstrapFails, LoadFact, CommitFact, storeVars
  <2>2. QED
    BY <1>2, <1>4, <2>1 DEF replyVars
<1>5. CASE UNCHANGED vars
  BY <1>2, <1>5 DEF vars, storeVars, replyVars
<1>6. QED
  BY <1>1, <1>3, <1>4, <1>5 DEF Next, Finished

(* A closeout appends only lines of its own transcript.                    *)
LEMMA JoinedLinesOwn ==
  ASSUME TypeOK, PositionsContiguous, NEW c \in Closeouts
  PROVE  \A i \in DOMAIN NewMessages(LoadMessages, Transcript(c)) :
           NewMessages(LoadMessages, Transcript(c))[i].by = c
<1> DEFINE new == NewMessages(LoadMessages, Transcript(c))
           lines == Transcript(c)
<1>1. LoadMessages \in Seq(Message) /\ lines \in Seq(Message)
  BY StoreTypes, BlocksAreMessages
<1>2. PICK d \in 0..Len(lines) : DropsFirst(new, lines, d)
  BY <1>1, NewMessagesIsSuffix
<1>3. new \in Seq(Message)
  BY <1>1, NewMessagesIsSuffix
<1>4. \A i \in 1..Len(lines) : lines[i].by = c
  BY BlocksAreMessages
<1> HIDE DEF new, lines
<1>5. DOMAIN new = 1..Len(new) /\ Len(new) \in Nat /\ Len(lines) \in Nat
  BY <1>1, <1>3, LenProperties
<1>6. \A i \in 1..Len(new) : new[i].by = c
  BY <1>2, <1>4, <1>5 DEF DropsFirst
<1>7. QED
  BY <1>5, <1>6 DEF new

(* Only the join of a transcript changes what a closeout will append.      *)
LEMMA FreshChanges ==
  ASSUME TypeOK, [Next]_vars
  PROVE  \/ \A s \in Closeouts : closeout'[s].fresh = closeout[s].fresh
         \/ \E c \in Closeouts : closeout[c].pc = "read" /\ \A s \in Closeouts :
              closeout'[s].fresh = IF s = c THEN NewMessages(LoadMessages, Transcript(c))
                                            ELSE closeout[s].fresh
<1>0. closeout \in [Closeouts -> CloseoutState]
  BY DEF TypeOK
<1>1. ASSUME NEW c \in Closeouts, JoinTranscript(c), NEW s \in Closeouts
      PROVE  /\ closeout[c].pc = "read"
             /\ closeout'[s].fresh = IF s = c THEN NewMessages(LoadMessages, Transcript(c))
                                              ELSE closeout[s].fresh
  BY <1>0, <1>1 DEF JoinTranscript, CloseoutState
<1>2. ASSUME NEW c \in Closeouts, CloseoutStep(c), ~JoinTranscript(c), NEW s \in Closeouts
      PROVE  closeout'[s].fresh = closeout[s].fresh
  <2>1. CASE ReadSession(c)
    BY <1>0, <2>1 DEF ReadSession, CloseoutState
  <2>2. CASE BuildReview(c)
    BY <1>0, <2>2 DEF BuildReview, CloseoutState
  <2>3. CASE \E from, to \in CloseoutPc : CloseoutGoes(c, from, to)
    BY <1>0, <2>3 DEF CloseoutGoes, CloseoutState
  <2>4. QED
    BY <1>2, <2>1, <2>2, <2>3 DEF CloseoutStep, CloseoutProgress, RefuseTranscript,
       OpenFinalize, FlushFinalize, ReadFinalize, StoreCloseout, CloseoutConflicts,
       ReadCloseoutProfile, WriteCloseoutProfile, SkipCloseoutProfile, CloseoutFails,
       CloseoutLoses, CloseoutPc, CloseoutEnds
<1>3. ASSUME NEW b \in Bootstraps, BootstrapStep(b)
      PROVE  closeout' = closeout
  BY <1>3 DEF BootstrapStep, BootstrapProgress, MintToken, OpenSaveFact, SaveFact,
     BootstrapConflicts, AnswerBootstrap, BootstrapFails
<1>4. QED
  BY <1>1, <1>2, <1>3 DEF Next, Finished, vars, voiceVars

LEMMA FreshStep ==
  ASSUME TypeOK, PositionsContiguous, FreshLinesOwn, [Next]_vars
  PROVE  FreshLinesOwn'
BY FreshChanges, JoinedLinesOwn DEF FreshLinesOwn

(* RepliesWhole, of one reply.                                             *)
Whole(r) ==
  IF r \in stored
    THEN \E i \in DOMAIN messages : /\ PositionsBy(r) = {i, i + 1}
                                   /\ messages[i] = ReplyBlock(r)[1]
                                   /\ messages[i + 1] = ReplyBlock(r)[2]
    ELSE PositionsBy(r) = {}

(* The messages of a reply stay as they are while others' are added.       *)
LEMMA OthersStayWhole ==
  ASSUME NEW r \in Replies, Whole(r), r \in stored' <=> r \in stored,
         DOMAIN messages \subseteq DOMAIN messages',
         \A i \in DOMAIN messages : messages'[i] = messages[i],
         \A i \in DOMAIN messages' \ DOMAIN messages : messages'[i].by # r
  PROVE  Whole(r)'
<1>1. PositionsBy(r)' = PositionsBy(r)
  BY DEF PositionsBy
<1>2. CASE r \in stored
  <2>1. PICK i \in DOMAIN messages : /\ PositionsBy(r) = {i, i + 1}
                                     /\ messages[i] = ReplyBlock(r)[1]
                                     /\ messages[i + 1] = ReplyBlock(r)[2]
    BY <1>2 DEF Whole
  <2>2. i + 1 \in DOMAIN messages
    BY <2>1 DEF PositionsBy
  <2>3. QED
    BY <1>1, <1>2, <2>1, <2>2 DEF Whole, ReplyBlock
<1>3. CASE r \notin stored
  BY <1>1, <1>3 DEF Whole
<1>4. QED
  BY <1>2, <1>3

LEMMA WholeStep ==
  ASSUME HistoryInv, [Next]_vars
  PROVE  RepliesWhole'
<1>0. /\ TypeOK /\ PositionsContiguous /\ ReadPositionsBounded
      /\ MaxPosition \in Nat /\ DOMAIN messages = 0..MaxPosition
      /\ \A r \in Replies : Whole(r)
  BY DEF HistoryInv, PositionsContiguous, RepliesWhole, Whole
<1>1. CASE messages' = messages /\ stored' = stored
  BY <1>1 DEF HistoryInv, RepliesWhole, PositionsBy
<1>2. CASE \E r \in Replies : CommitSave(r)
  <2>1. PICK r \in Replies : CommitSave(r)
    BY <1>2
  <2>2. Len(ReplyBlock(r)) = 2 /\ ReplyBlock(r)[1].by = r /\ ReplyBlock(r)[2].by = r
    BY BlocksAreMessages
  <2>3. /\ DOMAIN messages' = 0..(MaxPosition + 2)
        /\ \A i \in 0..MaxPosition : messages'[i] = messages[i]
        /\ \A i \in 1..2 : messages'[MaxPosition + i] = ReplyBlock(r)[i]
        /\ stored' = stored \cup {r}
    BY <1>0, <2>1, <2>2, ReplyCommitAppends
  <2>4. /\ DOMAIN messages \subseteq DOMAIN messages'
        /\ DOMAIN messages' \ DOMAIN messages = {MaxPosition + 1, MaxPosition + 2}
        /\ messages'[MaxPosition + 1] = ReplyBlock(r)[1]
        /\ messages'[MaxPosition + 2] = ReplyBlock(r)[2]
    BY <1>0, <2>3
  <2>5. ASSUME NEW s \in Replies, s # r
        PROVE  Whole(s)'
    BY <1>0, <2>2, <2>3, <2>4, <2>5, OthersStayWhole
  <2>6. Whole(r)'
    <3>1. r \notin stored
      BY <2>1 DEF HistoryInv, StoredSinceCommit, CommitSave, ReplyGoes
    <3>2. \A i \in DOMAIN messages : messages[i].by # r
      BY <1>0, <3>1 DEF Whole, PositionsBy
    <3>3. PositionsBy(r)' = {MaxPosition + 1, (MaxPosition + 1) + 1}
      BY <1>0, <2>2, <2>3, <2>4, <3>2 DEF PositionsBy
    <3>4. /\ MaxPosition + 1 \in DOMAIN messages' /\ r \in stored'
          /\ (MaxPosition + 1) + 1 = MaxPosition + 2
      BY <1>0, <2>3
    <3>5. \E i \in DOMAIN messages' : /\ PositionsBy(r)' = {i, i + 1}
                                      /\ messages'[i] = ReplyBlock(r)[1]
                                      /\ messages'[i + 1] = ReplyBlock(r)[2]
      BY <2>4, <3>3, <3>4
    <3>6. QED
      BY <3>4, <3>5 DEF Whole, ReplyBlock
  <2>7. QED
    BY <2>5, <2>6 DEF RepliesWhole, Whole
<1>3. CASE \E c \in Closeouts : StoreCloseout(c)
  <2>1. PICK c \in Closeouts : StoreCloseout(c)
    BY <1>3
  <2> DEFINE fresh == closeout[c].fresh
  <2>2. /\ fresh \in Seq(Message) /\ Len(fresh) \in Nat
        /\ DOMAIN messages' = 0..(MaxPosition + Len(fresh))
        /\ \A i \in 0..MaxPosition : messages'[i] = messages[i]
        /\ \A i \in 1..Len(fresh) : messages'[MaxPosition + i] = fresh[i]
        /\ stored' = stored \cup {c}
    BY <1>0, <2>1, CloseoutCommitAppends
  <2>3. \A i \in DOMAIN fresh : fresh[i].by = c
    BY DEF HistoryInv, FreshLinesOwn
  <2> HIDE DEF fresh
  <2>4. DOMAIN fresh = 1..Len(fresh)
    BY <2>2, LenProperties
  <2>5. \A i \in DOMAIN messages' \ DOMAIN messages : messages'[i].by = c
    <3> TAKE i \in DOMAIN messages' \ DOMAIN messages
    <3>1. i - MaxPosition \in 1..Len(fresh) /\ MaxPosition + (i - MaxPosition) = i
      BY <1>0, <2>2
    <3>2. QED
      BY <2>2, <2>3, <2>4, <3>1
  <2>6. ASSUME NEW s \in Replies
        PROVE  Whole(s)'
    <3>1. s # c
      BY StoreAssumption
    <3>2. DOMAIN messages \subseteq DOMAIN messages'
      BY <1>0, <2>2
    <3>3. QED
      BY <1>0, <2>2, <2>5, <3>1, <3>2, OthersStayWhole
  <2>7. QED
    BY <2>6 DEF RepliesWhole, Whole
<1>4. QED
  BY <1>1, <1>2, <1>3, HistorySteps

-----------------------------------------------------------------------------
(* The inductive invariant and the theorems.                               *)

LEMMA HistoryInvInit == Init => HistoryInv
<1> SUFFICES ASSUME Init PROVE HistoryInv
  OBVIOUS
<1> USE DEF Init, StoreInit, ProfileInit, ReplyInit, VoiceInit
<1>1. /\ messages = [i \in {0} |-> OpeningMessage]
      /\ DOMAIN messages = 0..0
      /\ messages[0] = OpeningMessage
  OBVIOUS
<1>2. MaxPosition = 0
  BY <1>1, MaxPositionIs
<1>3. TypeOK
  <2>1. OpeningMessage \in Message
    BY StoreAssumption DEF OpeningMessage, Message, Text, Author
  <2>2. messages \in [DOMAIN messages -> Message] /\ DOMAIN messages \in SUBSET Nat
    BY <1>1, <2>1
  <2>3. head \in SessionRow /\ fact \in FactRow /\ review \in ReviewRow /\ rowLock \in Author
    BY NoReviewType DEF NoHead, NoFact, SessionRow, FactRow, Author
  <2>4. tx \in [Requests -> TxView]
    BY NoReviewType DEF TxView, NoView, NoHead, NoFact, SessionRow, FactRow, Author
  <2>5. stored \in SUBSET Turns /\ profile \in SUBSET Turns /\ seen \in [Turns -> SUBSET Turns]
          /\ revoked \in SUBSET Bootstraps /\ crossed \in BOOLEAN
    OBVIOUS
  <2>6. reply \in [Replies -> ReplyState]
    BY NoReviewType DEF NewReply, ReplyState, ReplyPc, Attempts
  <2>7. closeout \in [Closeouts -> CloseoutState]
    <3>1. <<>> \in Seq(Message)
      BY EmptySeq
    <3>2. QED
      BY <3>1, NoReviewType DEF CloseoutState, CloseoutPc, NoHead, SessionRow, Author, Quote
  <2>8. bootstrap \in [Bootstraps -> BootstrapState]
    BY DEF BootstrapState, BootstrapPc
  <2>9. QED
    BY <2>2, <2>3, <2>4, <2>5, <2>6, <2>7, <2>8 DEF TypeOK
<1>4. PositionsContiguous /\ ReadPositionsBounded
  BY <1>1, <1>2 DEF PositionsContiguous, ReadPositionsBounded, NoView
<1>5. StoredSinceCommit
  BY DEF StoredSinceCommit, NewReply
<1>6. FreshLinesOwn
  BY DEF FreshLinesOwn
<1>7. RepliesWhole
  <2>1. \A r \in Replies : r # NoOne /\ r \notin stored
    BY StoreAssumption DEF Requests, Turns
  <2>2. QED
    BY <1>1, <2>1 DEF RepliesWhole, PositionsBy, OpeningMessage
<1>8. QED
  BY <1>3, <1>4, <1>5, <1>6, <1>7 DEF HistoryInv

LEMMA HistoryInvStep == HistoryInv /\ [Next]_vars => HistoryInv'
<1> SUFFICES ASSUME HistoryInv, [Next]_vars PROVE HistoryInv'
  OBVIOUS
<1>1. /\ TypeOK /\ PositionsContiguous /\ ReadPositionsBounded
      /\ StoredSinceCommit /\ FreshLinesOwn
  BY DEF HistoryInv
<1>2. TypeOK'
  BY <1>1, TypeStep
<1>3. PositionsContiguous' /\ ReadPositionsBounded'
  BY <1>1, PositionsStep
<1>4. StoredSinceCommit'
  BY <1>1, StoredStep
<1>5. FreshLinesOwn'
  BY <1>1, FreshStep
<1>6. RepliesWhole'
  BY WholeStep
<1>7. QED
  BY <1>2, <1>3, <1>4, <1>5, <1>6 DEF HistoryInv

(* HistoryInv holds throughout, with any number of replies, closeouts and  *)
(* bootstraps at once and transcripts of any length.                       *)
THEOREM HistoryInvariant == Spec => []HistoryInv
BY HistoryInvInit, HistoryInvStep, PTL DEF Spec

(* Every row, every open transaction and every request keeps its type.     *)
THEOREM TypeCorrectness == Spec => []TypeOK
<1>1. HistoryInv => TypeOK
  BY DEF HistoryInv
<1>2. QED
  BY <1>1, HistoryInvariant, PTL

(* Saves that compute their positions from a maximum read before others    *)
(* committed never leave a gap in a session's history.                     *)
THEOREM NoGaps == Spec => []PositionsContiguous
<1>1. HistoryInv => PositionsContiguous
  BY DEF HistoryInv
<1>2. QED
  BY <1>1, HistoryInvariant, PTL

(* Both lines of a reply are stored, next to each other and only once, if  *)
(* its save has committed, and none of them otherwise.                     *)
THEOREM NoHalfReplies == Spec => []RepliesWhole
<1>1. HistoryInv => RepliesWhole
  BY DEF HistoryInv
<1>2. QED
  BY <1>1, HistoryInvariant, PTL

(* A reply that is answered is stored, one that failed is not.             *)
THEOREM TruthfulAnswers == Spec => []ReplyOutcomeTrue
<1>1. HistoryInv => ReplyOutcomeTrue
  BY DEF HistoryInv, StoredSinceCommit, ReplyOutcomeTrue
<1>2. QED
  BY <1>1, HistoryInvariant, PTL

(* No save, retry or closeout changes or removes a stored message.         *)
THEOREM MessagesStay == Spec => AppendOnly
<1>1. HistoryInv /\ [Next]_vars =>
        [\A i \in DOMAIN messages : i \in DOMAIN messages' /\ messages'[i] = messages[i]]_vars
  <2> SUFFICES ASSUME HistoryInv, [Next]_vars
               PROVE  \A i \in DOMAIN messages :
                        i \in DOMAIN messages' /\ messages'[i] = messages[i]
    OBVIOUS
  <2>1. TypeOK /\ PositionsContiguous /\ ReadPositionsBounded
    BY DEF HistoryInv
  <2>2. DOMAIN messages = 0..MaxPosition /\ MaxPosition \in Nat
    BY <2>1 DEF PositionsContiguous
  <2>3. /\ MaxPosition' \in Nat /\ MaxPosition <= MaxPosition'
        /\ DOMAIN messages' = 0..MaxPosition'
        /\ \A i \in 0..MaxPosition : messages'[i] = messages[i]
    BY <2>1, HistoryGrows
  <2>4. QED
    BY <2>2, <2>3
<1>2. QED
  BY <1>1, HistoryInvariant, PTL DEF Spec, AppendOnly

-----------------------------------------------------------------------------
(* How far the turns get in a step.                                        *)

(* Nothing stored yet; told so; stored and not yet answered. *)
WorkingPc == {"generating", "waiting", "read", "joined", "built", "opened", "flushed", "loaded"}
RefusedPc == {"failed", "conflict", "invalid"}
KeptPc    == {"saved", "profiling"}

TurnPc(t) == IF t \in Replies THEN reply[t].pc ELSE closeout[t].pc

(* From one step of a turn to the next, its commit left aside. *)
Moves(from, to) ==
  \/ from \in WorkingPc /\ to \in WorkingPc \cup RefusedPc
  \/ from \in KeptPc /\ to \in KeptPc \cup {"answered", "lost"}

TurnsStand == (\A t \in Turns : TurnPc(t)' = TurnPc(t)) /\ messages' = messages /\ stored' = stored

TurnMoves(t) ==
  /\ \A u \in Turns \ {t} : TurnPc(u)' = TurnPc(u)
  /\ \/ messages' = messages /\ stored' = stored /\ Moves(TurnPc(t), TurnPc(t)')
     \/ t \in Replies /\ CommitSave(t)
     \/ t \in Closeouts /\ StoreCloseout(t)

LEMMA ReplyMoves ==
  ASSUME TypeOK, NEW r \in Replies, ReplyStep(r)
  PROVE  /\ \A s \in Replies \ {r} : reply'[s] = reply[s]
         /\ \/ /\ messages' = messages /\ stored' = stored
               /\ Moves(reply[r].pc, reply'[r].pc)
            \/ CommitSave(r)
<1>0. reply \in [Replies -> ReplyState]
  BY DEF TypeOK
<1>1. \A s \in Replies \ {r} : reply'[s] = reply[s]
  BY <1>0 DEF ReplyStep, ReplyProgress, ReplyGoes, GenerateReply, BuildReply, CoachFails, BeginSave,
     CommitSave, RetrySave, GiveUpSave, ReadReplyProfile, WriteReplyProfile,
     SkipReplyProfile, ReplyFails, ReplyLoses
<1>2. CASE CommitSave(r)
  BY <1>1, <1>2
<1>3. ASSUME ~CommitSave(r)
      PROVE  messages' = messages /\ stored' = stored
  BY <1>3 DEF ReplyStep, ReplyProgress, GenerateReply, BuildReply, CoachFails, BeginSave, RetrySave,
     GiveUpSave, ReadReplyProfile, WriteReplyProfile, SkipReplyProfile, ReplyFails,
     ReplyLoses, LoadReplyTurn, Rollback, storeVars
<1>4. ASSUME ~CommitSave(r)
      PROVE  Moves(reply[r].pc, reply'[r].pc)
  BY <1>0, <1>4, GeneratedReply DEF ReplyStep, ReplyProgress, ReplyGoes, CoachFails, BeginSave,
     RetrySave, GiveUpSave, ReadReplyProfile, WriteReplyProfile, SkipReplyProfile,
     ReplyFails, ReplyLoses, Moves, WorkingPc, RefusedPc, KeptPc, ReplyState
<1>5. QED
  BY <1>1, <1>2, <1>3, <1>4

LEMMA CloseoutMoves ==
  ASSUME TypeOK, NEW c \in Closeouts, CloseoutStep(c)
  PROVE  /\ \A d \in Closeouts \ {c} : closeout'[d] = closeout[d]
         /\ \/ /\ messages' = messages /\ stored' = stored
               /\ Moves(closeout[c].pc, closeout'[c].pc)
            \/ StoreCloseout(c)
<1>0. closeout \in [Closeouts -> CloseoutState]
  BY DEF TypeOK
<1>1. \A d \in Closeouts \ {c} : closeout'[d] = closeout[d]
  BY <1>0 DEF CloseoutStep, CloseoutProgress, CloseoutGoes, ReadSession, JoinTranscript,
     RefuseTranscript, BuildReview, OpenFinalize, FlushFinalize, ReadFinalize,
     StoreCloseout, CloseoutConflicts, ReadCloseoutProfile, WriteCloseoutProfile,
     SkipCloseoutProfile, CloseoutFails, CloseoutLoses
<1>2. CASE StoreCloseout(c)
  BY <1>1, <1>2
<1>3. ASSUME ~StoreCloseout(c)
      PROVE  messages' = messages /\ stored' = stored
  BY <1>3 DEF CloseoutStep, CloseoutProgress, ReadSession, JoinTranscript,
     RefuseTranscript, BuildReview, OpenFinalize, FlushFinalize, ReadFinalize,
     CloseoutConflicts, ReadCloseoutProfile, WriteCloseoutProfile, SkipCloseoutProfile,
     CloseoutFails, CloseoutLoses, LoadHead, FlushHead, LoadFinalize, Rollback, storeVars
<1>4. ASSUME ~StoreCloseout(c)
      PROVE  Moves(closeout[c].pc, closeout'[c].pc)
  <2>1. CASE ReadSession(c) \/ JoinTranscript(c) \/ BuildReview(c)
    BY <2>1, PreparedCloseout DEF Moves, WorkingPc
  <2>2. ASSUME NEW from, NEW to, CloseoutGoes(c, from, to), Moves(from, to)
        PROVE  Moves(closeout[c].pc, closeout'[c].pc)
    BY <1>0, <2>2 DEF CloseoutGoes, CloseoutState
  <2>3. CASE \E from \in WorkingPc : \E to \in WorkingPc \cup RefusedPc : CloseoutGoes(c, from, to)
    BY <2>2, <2>3 DEF Moves
  <2>4. CASE \E from \in KeptPc : \E to \in KeptPc \cup {"answered", "lost"} : CloseoutGoes(c, from, to)
    BY <2>2, <2>4 DEF Moves
  <2>5. CASE RefuseTranscript(c) \/ OpenFinalize(c) \/ FlushFinalize(c) \/ ReadFinalize(c)
    BY <2>3, <2>5 DEF RefuseTranscript, OpenFinalize, FlushFinalize, ReadFinalize, WorkingPc, RefusedPc
  <2>6. CASE CloseoutConflicts(c) \/ CloseoutFails(c)
    BY <2>3, <2>6 DEF CloseoutConflicts, CloseoutFails, WorkingPc, RefusedPc
  <2>7. CASE ReadCloseoutProfile(c) \/ WriteCloseoutProfile(c) \/ SkipCloseoutProfile(c) \/ CloseoutLoses(c)
    BY <2>4, <2>7 DEF ReadCloseoutProfile, WriteCloseoutProfile, SkipCloseoutProfile,
       CloseoutLoses, KeptPc
  <2>8. QED
    BY <1>4, <2>1, <2>5, <2>6, <2>7 DEF CloseoutStep, CloseoutProgress
<1>5. QED
  BY <1>1, <1>2, <1>3, <1>4

LEMMA BootstrapMoves ==
  ASSUME NEW b \in Bootstraps, BootstrapStep(b)
  PROVE  UNCHANGED <<messages, head, review, stored, profileVars, closeout>>
BY DEF BootstrapStep, BootstrapProgress, MintToken, OpenSaveFact, SaveFact,
   BootstrapConflicts, AnswerBootstrap, BootstrapFails, LoadFact, CommitFact, storeVars

(* In a step at most one turn moves. *)
LEMMA TurnSteps ==
  ASSUME TypeOK, [Next]_vars
  PROVE  TurnsStand \/ \E t \in Turns : TurnMoves(t)
<1>0. Replies \cap Closeouts = {} /\ Turns = Replies \cup Closeouts
  BY StoreAssumption DEF Turns
<1>1. ASSUME NEW r \in Replies, ReplyStep(r), UNCHANGED voiceVars
      PROVE  TurnMoves(r)
  BY <1>0, <1>1, ReplyMoves DEF TurnMoves, TurnPc, voiceVars
<1>2. ASSUME NEW c \in Closeouts, CloseoutStep(c), UNCHANGED replyVars
      PROVE  TurnMoves(c)
  BY <1>0, <1>2, CloseoutMoves DEF TurnMoves, TurnPc, replyVars
<1>3. ASSUME NEW b \in Bootstraps, BootstrapStep(b), UNCHANGED replyVars
      PROVE  TurnsStand
  BY <1>3, BootstrapMoves DEF TurnsStand, TurnPc, replyVars
<1>4. CASE UNCHANGED vars
  BY <1>4 DEF vars, storeVars, replyVars, voiceVars, TurnsStand, TurnPc
<1>5. QED
  BY <1>0, <1>1, <1>2, <1>3, <1>4 DEF Next, Finished

(* A commit is a step of a turn whose transaction is open.                 *)
LEMMA CommitsWhenLoaded ==
  ASSUME TypeOK, NEW t \in Turns,
         (t \in Replies /\ CommitSave(t)) \/ (t \in Closeouts /\ StoreCloseout(t))
  PROVE  /\ TurnPc(t) = "loaded" /\ TurnPc(t)' = "saved"
         /\ stored' = stored \cup {t} /\ head'.updatedAt = t
         /\ review' = UpdatedReview(t, ReviewOf(t)) /\ ReviewOf(t)' = ReviewOf(t)
         /\ UNCHANGED profileVars
<1>0. /\ Replies \cap Closeouts = {}
      /\ reply \in [Replies -> ReplyState] /\ closeout \in [Closeouts -> CloseoutState]
  BY StoreAssumption DEF TypeOK
<1>1. CASE t \in Replies /\ CommitSave(t)
  BY <1>0, <1>1 DEF CommitSave, CommitReplyTurn, ReplyGoes, TurnPc, ReviewOf, ReplyState
<1>2. CASE t \in Closeouts /\ StoreCloseout(t)
  BY <1>0, <1>2 DEF StoreCloseout, CommitFinalize, CloseoutGoes, TurnPc, ReviewOf, CloseoutState
<1>3. QED
  BY <1>1, <1>2

-----------------------------------------------------------------------------
(* A turn counts as stored from its commit on.                             *)

StoredIffCommitted == \A t \in Turns : t \in stored <=> TurnPc(t) \in StoredPc

LEMMA StoredSplits ==
  StoredIffCommitted <=> StoredSinceCommit /\ ClosedSinceCommit
<1>1. Replies \cap Closeouts = {} /\ Turns = Replies \cup Closeouts
  BY StoreAssumption DEF Turns
<1>2. QED
  BY <1>1 DEF StoredIffCommitted, StoredSinceCommit, ClosedSinceCommit, TurnPc, StoredPc

LEMMA CommittedStep ==
  ASSUME TypeOK, StoredIffCommitted, [Next]_vars
  PROVE  StoredIffCommitted'
<1>1. CASE TurnsStand
  BY <1>1 DEF TurnsStand, StoredIffCommitted
<1>2. ASSUME NEW t \in Turns, TurnMoves(t)
      PROVE  StoredIffCommitted'
  <2>1. CASE messages' = messages /\ stored' = stored /\ Moves(TurnPc(t), TurnPc(t)')
    <3>1. TurnPc(t)' \in StoredPc <=> TurnPc(t) \in StoredPc
      BY <2>1 DEF Moves, WorkingPc, RefusedPc, KeptPc, StoredPc
    <3>2. QED
      BY <1>2, <2>1, <3>1 DEF StoredIffCommitted, TurnMoves
  <2>2. CASE (t \in Replies /\ CommitSave(t)) \/ (t \in Closeouts /\ StoreCloseout(t))
    <3>1. stored' = stored \cup {t} /\ TurnPc(t)' \in StoredPc
      BY <2>2, CommitsWhenLoaded DEF StoredPc
    <3>2. QED
      BY <1>2, <3>1 DEF StoredIffCommitted, TurnMoves
  <2>3. QED
    BY <1>2, <2>1, <2>2 DEF TurnMoves
<1>3. QED
  BY <1>1, <1>2, TurnSteps

-----------------------------------------------------------------------------
(* The review and the session row.                                         *)

(* Only the commits of turns change the review and the session row.        *)
LEMMA RowSteps ==
  ASSUME TypeOK, [Next]_vars
  PROVE  \/ head' = head /\ review' = review /\ stored' = stored /\ messages' = messages
         \/ \E t \in Turns : (t \in Replies /\ CommitSave(t)) \/ (t \in Closeouts /\ StoreCloseout(t))
<1>0. Turns = Replies \cup Closeouts
  BY DEF Turns
<1>1. CASE (\E r \in Replies : CommitSave(r)) \/ (\E c \in Closeouts : StoreCloseout(c))
  BY <1>0, <1>1
<1>2. ASSUME NEW r \in Replies, ReplyStep(r), ~CommitSave(r)
      PROVE  head' = head /\ review' = review /\ stored' = stored /\ messages' = messages
  BY <1>2 DEF ReplyStep, ReplyProgress, GenerateReply, CoachFails, BeginSave, RetrySave,
     GiveUpSave, ReadReplyProfile, WriteReplyProfile, SkipReplyProfile, ReplyFails,
     ReplyLoses, LoadReplyTurn, Rollback, storeVars
<1>3. ASSUME NEW c \in Closeouts, CloseoutStep(c), ~StoreCloseout(c)
      PROVE  head' = head /\ review' = review /\ stored' = stored /\ messages' = messages
  BY <1>3 DEF CloseoutStep, CloseoutProgress, ReadSession, JoinTranscript,
     RefuseTranscript, BuildReview, OpenFinalize, FlushFinalize, ReadFinalize,
     CloseoutConflicts, ReadCloseoutProfile, WriteCloseoutProfile, SkipCloseoutProfile,
     CloseoutFails, CloseoutLoses, LoadHead, FlushHead, LoadFinalize, Rollback, storeVars
<1>4. ASSUME NEW b \in Bootstraps, BootstrapStep(b)
      PROVE  head' = head /\ review' = review /\ stored' = stored /\ messages' = messages
  BY <1>4, BootstrapMoves
<1>5. CASE UNCHANGED vars
  BY <1>5 DEF vars, storeVars
<1>6. QED
  BY <1>1, <1>2, <1>3, <1>4, <1>5 DEF Next, Finished

(* A row whose every column is turn t's own, a quotation or a template.    *)
MadeBy(row, t) ==
  /\ row.updatedAt = t
  /\ row.nextTry \in {t, NoOne} /\ row.feedback \in {t, NoOne}
  /\ row.highlight \in {t} \cup Quote

(* The states of a turn that has built its review. *)
ReviewedPc == {"built", "opened", "flushed", "loaded"} \cup StoredPc

ReviewsOwn == \A t \in Turns : TurnPc(t) \in ReviewedPc => MadeBy(ReviewOf(t), t)

LEMMA BuiltReviewMade ==
  ASSUME NEW t \in Turns, NEW quote \in Quote, NEW degraded \in BOOLEAN, NEW hasCopy \in BOOLEAN
  PROVE  MadeBy(BuiltReview(t, quote, degraded, hasCopy), t)
BY DEF MadeBy, BuiltReview

(* A turn builds its review once, and keeps it.                            *)
LEMMA ReplyReviewSteps ==
  ASSUME TypeOK, NEW r \in Replies, ReplyStep(r)
  PROVE  \/ /\ reply'[r].review = reply[r].review
            /\ reply'[r].pc \in ReviewedPc => reply[r].pc \in ReviewedPc
         \/ reply[r].pc = "generating" /\ MadeBy(reply'[r].review, r)
<1>0. reply \in [Replies -> ReplyState]
  BY DEF TypeOK
<1>1. CASE GenerateReply(r)
  <2>1. r \in Turns /\ <<r>> \in Quote
    BY DEF Turns, Quote, Text
  <2>2. PICK copy \in BOOLEAN, built \in ReviewRow :
          /\ reply' = [reply EXCEPT ![r].pc = "built", ![r].hasCopy = copy, ![r].review = built]
          /\ MadeBy(built, r)
    BY <1>1, <2>1, ReviewTypes, BuiltReviewMade DEF GenerateReply, BuildReply
  <2>3. reply'[r].review = built
    BY <1>0, <2>2 DEF ReplyState
  <2>4. QED
    BY <1>1, <2>2, <2>3 DEF GenerateReply
<1>2. ASSUME ~GenerateReply(r)
      PROVE  /\ reply'[r].review = reply[r].review
             /\ reply'[r].pc \in ReviewedPc => reply[r].pc \in ReviewedPc
  BY <1>0, <1>2 DEF ReplyStep, ReplyProgress, ReplyGoes, CoachFails, BeginSave, CommitSave,
     RetrySave, GiveUpSave, ReadReplyProfile, WriteReplyProfile, SkipReplyProfile, ReplyFails,
     ReplyLoses, ReplyState, ReviewedPc, StoredPc
<1>3. QED
  BY <1>1, <1>2

LEMMA CloseoutReviewSteps ==
  ASSUME TypeOK, NEW c \in Closeouts, CloseoutStep(c)
  PROVE  \/ /\ closeout'[c].review = closeout[c].review
            /\ closeout'[c].pc \in ReviewedPc => closeout[c].pc \in ReviewedPc
         \/ closeout[c].pc = "joined" /\ MadeBy(closeout'[c].review, c)
<1>0. closeout \in [Closeouts -> CloseoutState]
  BY DEF TypeOK
<1>1. CASE BuildReview(c)
  <2>1. c \in Turns /\ closeout[c].quote \in Quote
    BY <1>0 DEF Turns, CloseoutState
  <2>2. PICK row, built :
          /\ closeout' = [closeout EXCEPT ![c].pc = "built", ![c].snapshot = row,
                                          ![c].review = built,
                                          ![c].generation = fact.generation]
          /\ MadeBy(built, c)
    BY <1>1, <2>1, ReviewTypes, BuiltReviewMade DEF BuildReview
  <2>3. closeout'[c].review = built
    BY <1>0, <2>2 DEF CloseoutState
  <2>4. QED
    BY <1>1, <2>2, <2>3 DEF BuildReview
<1>2. CASE ReadSession(c) \/ JoinTranscript(c)
  BY <1>0, <1>2 DEF ReadSession, JoinTranscript, CloseoutState, ReviewedPc, StoredPc
<1>3. ASSUME NEW from, NEW to, CloseoutGoes(c, from, to),
             to \in ReviewedPc => from \in ReviewedPc
      PROVE  /\ closeout'[c].review = closeout[c].review
             /\ closeout'[c].pc \in ReviewedPc => closeout[c].pc \in ReviewedPc
  BY <1>0, <1>3 DEF CloseoutGoes, CloseoutState
<1>4. CASE OpenFinalize(c) \/ FlushFinalize(c) \/ ReadFinalize(c) \/ StoreCloseout(c)
  BY <1>3, <1>4 DEF OpenFinalize, FlushFinalize, ReadFinalize, StoreCloseout, ReviewedPc, StoredPc
<1>5. CASE ReadCloseoutProfile(c) \/ WriteCloseoutProfile(c) \/ SkipCloseoutProfile(c) \/ CloseoutLoses(c)
  BY <1>3, <1>5 DEF ReadCloseoutProfile, WriteCloseoutProfile, SkipCloseoutProfile,
     CloseoutLoses, ReviewedPc, StoredPc
<1>6. CASE RefuseTranscript(c) \/ CloseoutConflicts(c) \/ CloseoutFails(c)
  BY <1>3, <1>6 DEF RefuseTranscript, CloseoutConflicts, CloseoutFails, ReviewedPc, StoredPc
<1>7. QED
  BY <1>1, <1>2, <1>4, <1>5, <1>6 DEF CloseoutStep, CloseoutProgress

LEMMA ReviewChanges ==
  ASSUME TypeOK, [Next]_vars, NEW t \in Turns
  PROVE  \/ /\ ReviewOf(t)' = ReviewOf(t)
            /\ TurnPc(t)' \in ReviewedPc => TurnPc(t) \in ReviewedPc
         \/ TurnPc(t) \notin ReviewedPc /\ MadeBy(ReviewOf(t)', t)
<1>0. Replies \cap Closeouts = {} /\ Turns = Replies \cup Closeouts
  BY StoreAssumption DEF Turns
<1>1. ASSUME NEW r \in Replies, ReplyStep(r), UNCHANGED voiceVars
      PROVE  \/ /\ ReviewOf(t)' = ReviewOf(t)
                /\ TurnPc(t)' \in ReviewedPc => TurnPc(t) \in ReviewedPc
             \/ TurnPc(t) \notin ReviewedPc /\ MadeBy(ReviewOf(t)', t)
  <2>1. CASE t = r
    BY <1>1, <2>1, ReplyReviewSteps DEF ReviewOf, TurnPc, ReviewedPc, StoredPc
  <2>2. CASE t # r
    BY <1>0, <1>1, <2>2, ReplyMoves DEF ReviewOf, TurnPc, voiceVars
  <2>3. QED
    BY <2>1, <2>2
<1>2. ASSUME NEW c \in Closeouts, CloseoutStep(c), UNCHANGED replyVars
      PROVE  \/ /\ ReviewOf(t)' = ReviewOf(t)
                /\ TurnPc(t)' \in ReviewedPc => TurnPc(t) \in ReviewedPc
             \/ TurnPc(t) \notin ReviewedPc /\ MadeBy(ReviewOf(t)', t)
  <2>1. CASE t = c
    BY <1>0, <1>2, <2>1, CloseoutReviewSteps DEF ReviewOf, TurnPc, ReviewedPc, StoredPc
  <2>2. CASE t # c
    BY <1>0, <1>2, <2>2, CloseoutMoves DEF ReviewOf, TurnPc, replyVars
  <2>3. QED
    BY <2>1, <2>2
<1>3. ASSUME NEW b \in Bootstraps, BootstrapStep(b), UNCHANGED replyVars
      PROVE  ReviewOf(t)' = ReviewOf(t) /\ TurnPc(t)' = TurnPc(t)
  BY <1>3, BootstrapMoves DEF ReviewOf, TurnPc, replyVars
<1>4. CASE UNCHANGED vars
  BY <1>4 DEF vars, replyVars, voiceVars, ReviewOf, TurnPc
<1>5. QED
  BY <1>1, <1>2, <1>3, <1>4 DEF Next, Finished

LEMMA ReviewsOwnStep ==
  ASSUME TypeOK, ReviewsOwn, [Next]_vars
  PROVE  ReviewsOwn'
<1>1. ASSUME NEW t \in Turns, TurnPc(t)' \in ReviewedPc
      PROVE  MadeBy(ReviewOf(t)', t)
  BY <1>1, ReviewChanges DEF ReviewsOwn
<1>2. QED
  BY <1>1 DEF ReviewsOwn, MadeBy

ReviewInv == ReviewMatchesSession /\ ReviewOfStoredTurn

(* The columns of an updated row are the new one's or those there were.    *)
LEMMA UpdatedColumns ==
  ASSUME NEW q, NEW new
  PROVE  LET row == UpdatedReview(q, new)
         IN  /\ row.updatedAt = new.updatedAt
             /\ row.nextTry \in {new.nextTry, review.nextTry}
             /\ row.feedback \in {new.feedback, review.feedback}
             /\ row.highlight \in {new.highlight, review.highlight}
BY DEF UpdatedReview, Unless

LEMMA ReviewStep ==
  ASSUME TypeOK, ReviewsOwn, ReviewInv, [Next]_vars
  PROVE  ReviewInv'
<1>1. CASE head' = head /\ review' = review /\ stored' = stored
  BY <1>1 DEF ReviewInv, ReviewMatchesSession, ReviewOfStoredTurn
<1>2. ASSUME NEW t \in Turns,
             (t \in Replies /\ CommitSave(t)) \/ (t \in Closeouts /\ StoreCloseout(t))
      PROVE  ReviewInv'
  <2>1. t # NoOne
    BY StoreAssumption DEF Requests
  <2>2. /\ stored' = stored \cup {t} /\ head'.updatedAt = t
        /\ review' = UpdatedReview(t, ReviewOf(t))
        /\ MadeBy(ReviewOf(t), t)
    BY <1>2, CommitsWhenLoaded DEF ReviewsOwn, ReviewedPc
  <2> DEFINE new == ReviewOf(t)
  <2>3. /\ review'.updatedAt = new.updatedAt
        /\ review'.nextTry \in {new.nextTry, review.nextTry}
        /\ review'.feedback \in {new.feedback, review.feedback}
        /\ review'.highlight \in {new.highlight, review.highlight}
    BY <2>2, UpdatedColumns
  <2> HIDE DEF new
  <2>4. /\ review'.updatedAt = t
        /\ review'.nextTry \in {t, NoOne, review.nextTry}
        /\ review'.feedback \in {t, NoOne, review.feedback}
        /\ review'.highlight \in {t, review.highlight} \cup Quote
    BY <2>2, <2>3 DEF MadeBy, new
  <2>5. /\ {review'.nextTry, review'.feedback, review'.updatedAt} \subseteq stored' \cup {NoOne}
        /\ review'.highlight \in stored' \cup Quote
    BY <2>2, <2>4 DEF ReviewInv, ReviewOfStoredTurn
  <2>6. QED
    BY <2>1, <2>2, <2>4, <2>5 DEF ReviewInv, ReviewMatchesSession, ReviewOfStoredTurn
<1>3. QED
  BY <1>1, <1>2, RowSteps

-----------------------------------------------------------------------------
(* The learner profile.                                                    *)

ProfileInv == ProfileFromStoredTurns /\ ReadProfilesStored

(* What a step does to the profile, told of the turn that does it.         *)
LEMMA ProfileSteps ==
  ASSUME TypeOK, [Next]_vars
  PROVE  \/ UNCHANGED profileVars /\ \A u \in Turns : TurnPc(u)' = "profiling" => TurnPc(u) = "profiling"
         \/ \E t \in Turns :
              /\ TurnPc(t) \in KeptPc
              /\ \A u \in Turns \ {t} : TurnPc(u)' = TurnPc(u)
              /\ \/ ReadProfile(t)
                 \/ TurnPc(t) = "profiling" /\ TurnPc(t)' # "profiling" /\ WriteProfile(t)
<1>0. /\ Replies \cap Closeouts = {} /\ Turns = Replies \cup Closeouts
      /\ reply \in [Replies -> ReplyState] /\ closeout \in [Closeouts -> CloseoutState]
  BY StoreAssumption DEF TypeOK, Turns
<1> DEFINE Still == /\ UNCHANGED profileVars
                    /\ \A u \in Turns : TurnPc(u)' = "profiling" => TurnPc(u) = "profiling"
           Does(t) == /\ TurnPc(t) \in KeptPc
                      /\ \A u \in Turns \ {t} : TurnPc(u)' = TurnPc(u)
                      /\ \/ ReadProfile(t)
                         \/ TurnPc(t) = "profiling" /\ TurnPc(t)' # "profiling" /\ WriteProfile(t)
<1>1. ASSUME NEW r \in Replies, ReplyStep(r), UNCHANGED voiceVars
      PROVE  Still \/ Does(r)
  <2>1. \A u \in Turns \ {r} : TurnPc(u)' = TurnPc(u)
    BY <1>0, <1>1, ReplyMoves DEF TurnPc, voiceVars
  <2>2. CASE ReadReplyProfile(r)
    BY <1>0, <2>1, <2>2 DEF ReadReplyProfile, ReplyGoes, TurnPc, KeptPc
  <2>3. CASE WriteReplyProfile(r)
    BY <1>0, <2>1, <2>3 DEF WriteReplyProfile, ReplyGoes, TurnPc, KeptPc, ReplyState
  <2>4. ASSUME ~ReadReplyProfile(r), ~WriteReplyProfile(r)
        PROVE  UNCHANGED profileVars /\ reply'[r].pc # "profiling"
    BY <1>0, <1>1, <2>4, GeneratedReply DEF ReplyStep, ReplyProgress, ReplyGoes, CoachFails,
       BeginSave, CommitSave, RetrySave, GiveUpSave, SkipReplyProfile, ReplyFails, ReplyLoses,
       ReplyState
  <2>5. QED
    BY <1>0, <2>1, <2>2, <2>3, <2>4 DEF TurnPc
<1>2. ASSUME NEW c \in Closeouts, CloseoutStep(c), UNCHANGED replyVars
      PROVE  Still \/ Does(c)
  <2>1. \A u \in Turns \ {c} : TurnPc(u)' = TurnPc(u)
    BY <1>0, <1>2, CloseoutMoves DEF TurnPc, replyVars
  <2>2. CASE ReadCloseoutProfile(c)
    BY <1>0, <2>1, <2>2 DEF ReadCloseoutProfile, CloseoutGoes, TurnPc, KeptPc
  <2>3. CASE WriteCloseoutProfile(c)
    BY <1>0, <2>1, <2>3 DEF WriteCloseoutProfile, CloseoutGoes, TurnPc, KeptPc, CloseoutState
  <2>4. ASSUME ~ReadCloseoutProfile(c), ~WriteCloseoutProfile(c)
        PROVE  UNCHANGED profileVars /\ closeout'[c].pc # "profiling"
    <3>1. UNCHANGED profileVars
      BY <1>2, <2>4 DEF CloseoutStep, CloseoutProgress, ReadSession, JoinTranscript,
         RefuseTranscript, BuildReview, OpenFinalize, FlushFinalize, ReadFinalize,
         StoreCloseout, CloseoutConflicts, SkipCloseoutProfile, CloseoutFails, CloseoutLoses
    <3>2. CASE ReadSession(c) \/ JoinTranscript(c) \/ BuildReview(c)
      <4>1. CASE ReadSession(c)
        BY <1>0, <3>1, <4>1 DEF ReadSession, CloseoutState
      <4>2. CASE JoinTranscript(c)
        BY <1>0, <3>1, <4>2 DEF JoinTranscript, CloseoutState
      <4>3. CASE BuildReview(c)
        BY <1>0, <3>1, <4>3 DEF BuildReview, CloseoutState
      <4>4. QED
        BY <3>2, <4>1, <4>2, <4>3
    <3>3. CASE \E from \in CloseoutPc : \E to \in CloseoutPc \ {"profiling"} : CloseoutGoes(c, from, to)
      BY <1>0, <3>1, <3>3 DEF CloseoutGoes, CloseoutState
    <3>4. QED
      BY <1>2, <2>4, <3>2, <3>3 DEF CloseoutStep, CloseoutProgress, RefuseTranscript,
         OpenFinalize, FlushFinalize, ReadFinalize, StoreCloseout, CloseoutConflicts,
         SkipCloseoutProfile, CloseoutFails, CloseoutLoses, CloseoutPc, CloseoutEnds
  <2>5. QED
    BY <1>0, <2>1, <2>2, <2>3, <2>4 DEF TurnPc
<1>3. ASSUME NEW b \in Bootstraps, BootstrapStep(b), UNCHANGED replyVars
      PROVE  Still
  BY <1>3, BootstrapMoves DEF TurnPc, replyVars
<1>4. CASE UNCHANGED vars
  BY <1>4 DEF vars, profileVars, replyVars, voiceVars, TurnPc
<1>5. QED
  BY <1>0, <1>1, <1>2, <1>3, <1>4 DEF Next, Finished

LEMMA ProfilingIsMember ==
  ASSUME ReadProfilesStored, NEW t \in Turns, TurnPc(t) = "profiling"
  PROVE  Member
BY DEF ReadProfilesStored, TurnPc, Turns

LEMMA ProfileStep ==
  ASSUME TypeOK, StoredIffCommitted, ProfileInv, [Next]_vars
  PROVE  ProfileInv'
<1>0. /\ profile \subseteq stored /\ (profile # {} => Member)
      /\ \A t \in Turns : seen[t] \subseteq stored
      /\ seen \in [Turns -> SUBSET Turns]
      /\ stored \subseteq stored'
  BY HistorySteps, CommitsWhenLoaded DEF ProfileInv, ProfileFromStoredTurns, ReadProfilesStored, TypeOK, Turns
<1>1. ASSUME UNCHANGED profileVars,
             \A u \in Turns : TurnPc(u)' = "profiling" => TurnPc(u) = "profiling" \/ Member
      PROVE  ProfileInv'
  <2>1. ProfileFromStoredTurns' /\ \A t \in Turns : seen'[t] \subseteq stored'
    BY <1>0, <1>1 DEF ProfileFromStoredTurns, profileVars
  <2>2. \A u \in Turns : TurnPc(u)' = "profiling" => Member
    BY <1>1, ProfilingIsMember DEF ProfileInv
  <2>3. QED
    BY <2>1, <2>2, StoreAssumption DEF ProfileInv, ReadProfilesStored, TurnPc, Turns
<1>2. ASSUME NEW t \in Turns, TurnPc(t) \in KeptPc,
             \A u \in Turns \ {t} : TurnPc(u)' = TurnPc(u),
             ReadProfile(t)
      PROVE  ProfileInv'
  <2>1. Member /\ profile' = profile /\ \A u \in Turns : seen'[u] \subseteq stored'
    BY <1>0, <1>2 DEF ReadProfile
  <2>2. QED
    BY <1>0, <2>1 DEF ProfileInv, ProfileFromStoredTurns, ReadProfilesStored
<1>3. ASSUME NEW t \in Turns, TurnPc(t) = "profiling", WriteProfile(t)
      PROVE  ProfileInv'
  <2>1. Member /\ t \in stored
    BY <1>3, ProfilingIsMember DEF ProfileInv, StoredIffCommitted, StoredPc
  <2>2. profile' \subseteq stored' /\ seen' = seen
    BY <1>0, <1>3, <2>1 DEF WriteProfile
  <2>3. QED
    BY <1>0, <2>1, <2>2 DEF ProfileInv, ProfileFromStoredTurns, ReadProfilesStored
<1>4. QED
  BY <1>1, <1>2, <1>3, ProfileSteps

-----------------------------------------------------------------------------
(* A reply that gives up has met two rivals.                               *)

RivalsInv == RetriesMetRivals /\ ConflictNeedsTwoRivals

(* Before the first turn is stored, no open reply meets a constraint; in   *)
(* a second attempt, none meets one before a second turn is stored.        *)
LEMMA ConstraintNeedsRival ==
  ASSUME TypeOK, PositionsContiguous, ReadPositionsBounded, ReviewInv, RetriesMetRivals,
         NEW r \in Replies, reply[r].pc = "loaded", TurnViolatesUnique(r, ReplyBlock(r))
  PROVE  /\ stored # {}
         /\ reply[r].attempt = Attempts => TwoStored
<1>1. /\ MaxPosition \in Nat /\ DOMAIN messages = 0..MaxPosition
      /\ r \in Requests /\ tx[r].next \in 0..(MaxPosition + 1)
      /\ tx[r].next # 0
  BY DEF PositionsContiguous, ReadPositionsBounded, RetriesMetRivals, Requests, Turns
<1>2. Len(ReplyBlock(r)) = 2
  BY BlocksAreMessages
<1>3. PositionTaken(r, ReplyBlock(r)) => tx[r].next <= MaxPosition
  BY <1>1, <1>2 DEF PositionTaken, Positions
<1>4. CASE PositionTaken(r, ReplyBlock(r))
  BY <1>1, <1>3, <1>4 DEF RetriesMetRivals
<1>5. CASE ReviewInserted(r)
  <2>1. stored # {} /\ tx[r].review.updatedAt = NoOne
    BY <1>5 DEF ReviewInserted, ReviewInv, ReviewOfStoredTurn
  <2>2. QED
    BY <2>1 DEF RetriesMetRivals
<1>6. QED
  BY <1>4, <1>5 DEF TurnViolatesUnique

(* What a step of a reply does to its attempt and to what it has read.     *)
LEMMA AttemptSteps ==
  ASSUME TypeOK, NEW r \in Replies, ReplyStep(r)
  PROVE  \/ /\ LoadReplyTurn(r)
            /\ reply'[r].pc = "loaded" /\ reply'[r].attempt = reply[r].attempt
         \/ /\ reply[r].pc = "loaded" /\ TurnViolatesUnique(r, ReplyBlock(r))
            /\ \/ reply'[r].pc = "built"
               \/ reply'[r].pc = "conflict" /\ reply[r].attempt = Attempts
         \/ /\ reply'[r].pc \notin {"loaded", "conflict"}
            /\ reply'[r].attempt = reply[r].attempt
<1>0. reply \in [Replies -> ReplyState]
  BY DEF TypeOK
<1>1. CASE BeginSave(r)
  BY <1>0, <1>1 DEF BeginSave, ReplyGoes, ReplyState
<1>2. CASE RetrySave(r) \/ GiveUpSave(r)
  BY <1>0, <1>2 DEF RetrySave, GiveUpSave, ReplyGoes, ReplyState
<1>3. ASSUME ~BeginSave(r), ~RetrySave(r), ~GiveUpSave(r)
      PROVE  reply'[r].pc \notin {"loaded", "conflict"} /\ reply'[r].attempt = reply[r].attempt
  BY <1>0, <1>3, GeneratedReply DEF ReplyStep, ReplyProgress, ReplyGoes, CoachFails, CommitSave,
     ReadReplyProfile, WriteReplyProfile, SkipReplyProfile, ReplyFails, ReplyLoses, ReplyState
<1>4. QED
  BY <1>1, <1>2, <1>3

(* What another request reads is not what reply r has read.                *)
LEMMA OwnReads ==
  ASSUME TypeOK, [Next]_vars, NEW r \in Replies
  PROVE  \/ ReplyStep(r) /\ UNCHANGED voiceVars
         \/ reply'[r] = reply[r] /\ tx'[r] = tx[r]
<1>0. /\ Replies \cap Closeouts = {} /\ Replies \cap Bootstraps = {} /\ r \in Requests
      /\ tx \in [Requests -> TxView]
  BY StoreAssumption DEF TypeOK, Requests, Turns
<1>1. ASSUME NEW s \in Replies, ReplyStep(s), s # r
      PROVE  reply'[r] = reply[r] /\ tx'[r] = tx[r]
  <2>1. reply'[r] = reply[r]
    BY <1>1, ReplyMoves
  <2>2. tx'[r] = tx[r]
    BY <1>0, <1>1 DEF ReplyStep, ReplyProgress, GenerateReply, BuildReply, CoachFails, BeginSave,
       CommitSave, RetrySave, GiveUpSave, ReadReplyProfile, WriteReplyProfile,
       SkipReplyProfile, ReplyFails, ReplyLoses, LoadReplyTurn, CommitReplyTurn, Rollback,
       storeVars
  <2>3. QED
    BY <2>1, <2>2
<1>2. ASSUME NEW c \in Closeouts, CloseoutStep(c), UNCHANGED replyVars
      PROVE  reply'[r] = reply[r] /\ tx'[r] = tx[r]
  BY <1>0, <1>2 DEF CloseoutStep, CloseoutProgress, ReadSession, JoinTranscript,
     RefuseTranscript, BuildReview, OpenFinalize, FlushFinalize, ReadFinalize, StoreCloseout,
     CloseoutConflicts, ReadCloseoutProfile, WriteCloseoutProfile, SkipCloseoutProfile,
     CloseoutFails, CloseoutLoses, LoadHead, FlushHead, LoadFinalize, CommitFinalize,
     Rollback, storeVars, replyVars
<1>3. ASSUME NEW b \in Bootstraps, BootstrapStep(b), UNCHANGED replyVars
      PROVE  reply'[r] = reply[r] /\ tx'[r] = tx[r]
  BY <1>0, <1>3 DEF BootstrapStep, BootstrapProgress, MintToken, OpenSaveFact, SaveFact,
     BootstrapConflicts, AnswerBootstrap, BootstrapFails, LoadFact, CommitFact, storeVars,
     replyVars
<1>4. CASE UNCHANGED vars
  BY <1>4 DEF vars, storeVars, replyVars
<1>5. QED
  BY <1>1, <1>2, <1>3, <1>4 DEF Next, Finished

(* Once a turn is stored, the history and what is stored only grow, and a  *)
(* second stored turn is a second one.                                     *)
LEMMA StoredGrows ==
  ASSUME TypeOK, PositionsContiguous, ReadPositionsBounded, StoredIffCommitted, [Next]_vars
  PROVE  /\ \/ messages' = messages /\ MaxPosition' = MaxPosition /\ stored' = stored
            \/ stored' # {} /\ (stored # {} => TwoStored')
         /\ TwoStored => TwoStored'
         /\ stored \subseteq stored'
<1>1. CASE messages' = messages /\ stored' = stored
  BY <1>1 DEF MaxPosition, TwoStored
<1>2. ASSUME NEW t \in Turns,
             (t \in Replies /\ CommitSave(t)) \/ (t \in Closeouts /\ StoreCloseout(t))
      PROVE  stored' = stored \cup {t} /\ t \notin stored
  BY <1>2, CommitsWhenLoaded DEF StoredIffCommitted, StoredPc
<1>3. QED
  BY <1>1, <1>2, HistorySteps DEF TwoStored, Turns

LEMMA RivalsStep ==
  ASSUME TypeOK, PositionsContiguous, ReadPositionsBounded, StoredIffCommitted, ReviewInv,
         RivalsInv, [Next]_vars
  PROVE  RivalsInv'
<1>0. /\ MaxPosition \in Nat /\ MaxPosition' \in Nat
      /\ stored = {} => MaxPosition = 0
      /\ reply \in [Replies -> ReplyState] /\ tx \in [Requests -> TxView]
      /\ TwoStored => TwoStored'
      /\ stored \subseteq stored'
  BY HistoryGrows, StoredGrows DEF PositionsContiguous, RivalsInv, RetriesMetRivals, TypeOK
<1>1. stored' = {} => MaxPosition' = 0
  BY <1>0, StoredGrows
<1> DEFINE Fine(r) ==
      /\ reply[r].attempt = Attempts => stored # {}
      /\ reply[r].pc = "loaded" =>
           /\ tx[r].next # 0
           /\ reply[r].attempt = Attempts =>
                tx[r].review.updatedAt # NoOne /\ (tx[r].next <= MaxPosition => TwoStored)
      /\ reply[r].pc = "conflict" => TwoStored
<1>2. ASSUME NEW r \in Replies
      PROVE  Fine(r)'
  <2>0. Fine(r)
    BY DEF RivalsInv, RetriesMetRivals, ConflictNeedsTwoRivals, TwoStored
  <2>1. r \in Requests
    BY DEF Requests, Turns
  <2>2. CASE reply'[r] = reply[r] /\ tx'[r] = tx[r]
    BY <1>0, <2>0, <2>2, StoredGrows
  <2>3. CASE ReplyStep(r) /\ UNCHANGED voiceVars
    <3>1. CASE /\ LoadReplyTurn(r)
               /\ reply'[r].pc = "loaded" /\ reply'[r].attempt = reply[r].attempt
      <4>1. /\ tx'[r].next = MaxPosition + 1 /\ tx'[r].review = review
            /\ MaxPosition' = MaxPosition /\ stored' = stored
        BY <1>0, <2>1, <3>1 DEF LoadReplyTurn, MaxPosition, TxView
      <4>2. stored # {} => review.updatedAt # NoOne
        BY DEF ReviewInv, ReviewOfStoredTurn
      <4>3. QED
        BY <1>0, <2>0, <3>1, <4>1, <4>2
    <3>2. CASE /\ reply[r].pc = "loaded" /\ TurnViolatesUnique(r, ReplyBlock(r))
               /\ \/ reply'[r].pc = "built"
                  \/ reply'[r].pc = "conflict" /\ reply[r].attempt = Attempts
      <4>1. stored # {} /\ (reply[r].attempt = Attempts => TwoStored)
        BY <3>2, ConstraintNeedsRival DEF RivalsInv
      <4>2. QED
        BY <1>0, <3>2, <4>1
    <3>3. CASE /\ reply'[r].pc \notin {"loaded", "conflict"}
               /\ reply'[r].attempt = reply[r].attempt
      BY <1>0, <2>0, <3>3
    <3>4. QED
      BY <2>3, <3>1, <3>2, <3>3, AttemptSteps
  <2>4. QED
    BY <2>2, <2>3, OwnReads
<1>3. QED
  BY <1>1, <1>2 DEF RivalsInv, RetriesMetRivals, ConflictNeedsTwoRivals, TwoStored

-----------------------------------------------------------------------------
(* A closeout appends an end of its own transcript.                        *)

LEMMA DropsAsSubSeq ==
  ASSUME NEW M, NEW s \in Seq(M), NEW t \in Seq(M), NEW d \in 0..Len(t), DropsFirst(s, t, d)
  PROVE  s = SubSeq(t, d + 1, Len(t))
<1>1. Len(t) \in Nat /\ Len(s) \in Nat /\ Len(s) = Len(t) - d
  BY LenProperties DEF DropsFirst
<1>2. \A i \in (d + 1)..Len(t) : t[i] \in M
  BY <1>1, ElementOfSeq
<1>3. /\ SubSeq(t, d + 1, Len(t)) \in Seq(M)
      /\ Len(SubSeq(t, d + 1, Len(t))) = Len(t) - d
      /\ \A i \in 1..(Len(t) - d) : SubSeq(t, d + 1, Len(t))[i] = t[i + d]
  BY <1>1, <1>2, SubSeqProperties
<1>4. QED
  BY <1>1, <1>3, SeqEqual DEF DropsFirst

LEMMA BlocksOfCloseout ==
  ASSUME NEW c \in Closeouts
  PROVE  BlocksOf[c] = {SubSeq(Transcript(c), i, Len(Transcript(c))) :
                          i \in 1..(Len(Transcript(c)) + 1)}
BY StoreAssumption DEF BlocksOf, Turns

LEMMA FreshSentStep ==
  ASSUME TypeOK, PositionsContiguous, FreshLinesSent, [Next]_vars
  PROVE  FreshLinesSent'
<1>1. ASSUME NEW c \in Closeouts
      PROVE  NewMessages(LoadMessages, Transcript(c)) \in BlocksOf[c]
  <2> DEFINE new == NewMessages(LoadMessages, Transcript(c))
             lines == Transcript(c)
  <2>1. LoadMessages \in Seq(Message) /\ lines \in Seq(Message)
    BY StoreTypes, BlocksAreMessages
  <2>2. PICK d \in 0..Len(lines) : DropsFirst(new, lines, d)
    BY <2>1, NewMessagesIsSuffix
  <2>3. new \in Seq(Message)
    BY <2>1, NewMessagesIsSuffix
  <2> HIDE DEF new
  <2>4. new = SubSeq(lines, d + 1, Len(lines))
    BY <2>1, <2>2, <2>3, DropsAsSubSeq
  <2>5. d + 1 \in 1..(Len(lines) + 1)
    BY <2>1, <2>2, LenProperties
  <2>6. QED
    BY <2>4, <2>5, BlocksOfCloseout DEF new
<1>2. QED
  BY <1>1, FreshChanges DEF FreshLinesSent

-----------------------------------------------------------------------------
(* The review is of one turn, unless a closeout was silent.                *)

NoSilence == \A c \in Closeouts : ~Silent(c)

(* A transaction that may still append has read the review there is.       *)
LatestReads ==
  \A t \in Turns :
    (TurnPc(t) = "loaded" /\ tx[t].next = MaxPosition + 1) => tx[t].review = review

OneTurnInv == NoSilence => ReviewOfOneTurn /\ LatestReads

LEMMA SilenceStays ==
  ASSUME TypeOK, StoredIffCommitted, [Next]_vars, NoSilence'
  PROVE  NoSilence
<1>1. ASSUME NEW c \in Closeouts, Silent(c)
      PROVE  Silent(c)'
  <2>1. c \in Turns /\ c \notin Replies /\ c \in stored
    BY <1>1, StoreAssumption DEF Turns, Silent
  <2>2. closeout[c].pc # "read"
    BY <2>1 DEF StoredIffCommitted, TurnPc, StoredPc
  <2>3. closeout'[c].fresh = closeout[c].fresh
    BY <2>2, FreshChanges
  <2>4. stored \subseteq stored'
    BY HistorySteps, CommitsWhenLoaded DEF Turns
  <2>5. QED
    BY <1>1, <2>3, <2>4 DEF Silent
<1>2. QED
  BY <1>1 DEF NoSilence

(* A turn whose transaction is open has just read the review, or before.   *)
LEMMA LoadedReads ==
  ASSUME TypeOK, [Next]_vars, NEW t \in Turns, TurnPc(t)' = "loaded"
  PROVE  \/ TurnPc(t) = "loaded" /\ tx'[t] = tx[t]
         \/ tx'[t].review = review /\ review' = review
<1>0. /\ Replies \cap Closeouts = {} /\ Turns = Replies \cup Closeouts
      /\ Turns \cap Bootstraps = {} /\ t \in Requests
      /\ reply \in [Replies -> ReplyState] /\ closeout \in [Closeouts -> CloseoutState]
      /\ tx \in [Requests -> TxView]
  BY StoreAssumption DEF TypeOK, Turns, Requests
<1>1. CASE t \in Replies
  <2>1. CASE reply'[t] = reply[t] /\ tx'[t] = tx[t]
    BY <1>1, <2>1 DEF TurnPc
  <2>2. CASE ReplyStep(t)
    <3>1. CASE BeginSave(t)
      BY <1>0, <3>1 DEF BeginSave, LoadReplyTurn
    <3>2. CASE ~BeginSave(t)
      <4>1. reply'[t].pc # "loaded"
        BY <1>0, <1>1, <2>2, <3>2, GeneratedReply DEF ReplyStep, ReplyProgress, ReplyGoes,
           CoachFails, CommitSave, RetrySave, GiveUpSave, ReadReplyProfile, WriteReplyProfile,
           SkipReplyProfile, ReplyFails, ReplyLoses, ReplyState
      <4>2. QED
        BY <1>1, <4>1 DEF TurnPc
    <3>3. QED
      BY <3>1, <3>2
  <2>3. QED
    BY <1>1, <2>1, <2>2, OwnReads
<1>2. CASE t \in Closeouts
  <2>0. t \notin Replies
    BY <1>0, <1>2
  <2>1. CASE closeout'[t] = closeout[t] /\ tx'[t] = tx[t]
    BY <2>0, <2>1 DEF TurnPc
  <2>2. CASE CloseoutStep(t)
    <3>1. CASE ReadFinalize(t)
      BY <1>0, <3>1 DEF ReadFinalize, LoadFinalize
    <3>2. CASE ReadSession(t) \/ JoinTranscript(t) \/ BuildReview(t)
      <4>1. closeout'[t].pc # "loaded"
        BY <1>2, <3>2, PreparedCloseout
      <4>2. QED
        BY <2>0, <4>1 DEF TurnPc
    <3>3. CASE \E from \in CloseoutPc : \E to \in CloseoutPc \ {"loaded"} : CloseoutGoes(t, from, to)
      <4>1. closeout'[t].pc # "loaded"
        BY <1>0, <1>2, <3>3 DEF CloseoutGoes, CloseoutState
      <4>2. QED
        BY <2>0, <4>1 DEF TurnPc
    <3>4. QED
      BY <2>2, <3>1, <3>2, <3>3 DEF CloseoutStep, CloseoutProgress, RefuseTranscript,
         OpenFinalize, FlushFinalize, StoreCloseout, CloseoutConflicts, ReadCloseoutProfile,
         WriteCloseoutProfile, SkipCloseoutProfile, CloseoutFails, CloseoutLoses, CloseoutPc,
         CloseoutEnds
  <2>3. ASSUME NEW r \in Replies, ReplyStep(r), UNCHANGED voiceVars
        PROVE  closeout'[t] = closeout[t] /\ tx'[t] = tx[t]
    <3>1. tx'[t] = tx[t]
      BY <1>0, <2>0, <2>3 DEF ReplyStep, ReplyProgress, GenerateReply, BuildReply, CoachFails,
         BeginSave, CommitSave, RetrySave, GiveUpSave, ReadReplyProfile, WriteReplyProfile,
         SkipReplyProfile, ReplyFails, ReplyLoses, LoadReplyTurn, CommitReplyTurn, Rollback,
         storeVars
    <3>2. QED
      BY <2>3, <3>1 DEF voiceVars
  <2>4. ASSUME NEW c \in Closeouts, CloseoutStep(c), c # t
        PROVE  closeout'[t] = closeout[t] /\ tx'[t] = tx[t]
    <3>1. closeout'[t] = closeout[t]
      BY <1>2, <2>4, CloseoutMoves
    <3>2. tx'[t] = tx[t]
      BY <1>0, <2>4 DEF CloseoutStep, CloseoutProgress, ReadSession, JoinTranscript,
         RefuseTranscript, BuildReview, OpenFinalize, FlushFinalize, ReadFinalize,
         StoreCloseout, CloseoutConflicts, ReadCloseoutProfile, WriteCloseoutProfile,
         SkipCloseoutProfile, CloseoutFails, CloseoutLoses, LoadHead, FlushHead, LoadFinalize,
         CommitFinalize, Rollback, storeVars
    <3>3. QED
      BY <3>1, <3>2
  <2>5. ASSUME NEW b \in Bootstraps, BootstrapStep(b)
        PROVE  closeout'[t] = closeout[t] /\ tx'[t] = tx[t]
    <3>1. closeout' = closeout
      BY <2>5, BootstrapMoves
    <3>2. tx'[t] = tx[t]
      BY <1>0, <2>5 DEF BootstrapStep, BootstrapProgress, MintToken, OpenSaveFact, SaveFact,
         BootstrapConflicts, AnswerBootstrap, BootstrapFails, LoadFact, CommitFact, storeVars
    <3>3. QED
      BY <3>1, <3>2
  <2>6. CASE UNCHANGED vars
    BY <2>1, <2>6 DEF vars, storeVars, voiceVars
  <2>7. QED
    BY <2>1, <2>2, <2>3, <2>4, <2>5, <2>6 DEF Next, Finished
<1>3. QED
  BY <1>0, <1>1, <1>2

(* A block that meets no constraint starts at the next free position.      *)
LEMMA FreePosition ==
  ASSUME PositionsContiguous, NEW q, tx[q].next \in 0..(MaxPosition + 1),
         NEW block, Len(block) \in Nat \ {0}, ~PositionTaken(q, block)
  PROVE  tx[q].next = MaxPosition + 1
<1>1. MaxPosition \in Nat /\ DOMAIN messages = 0..MaxPosition
  BY DEF PositionsContiguous
<1>2. tx[q].next \in Positions(tx[q].next, block)
  BY <1>1 DEF Positions
<1>3. tx[q].next \notin 0..MaxPosition
  BY <1>1, <1>2 DEF PositionTaken
<1>4. QED
  BY <1>1, <1>3

LEMMA CommitsAtTheEnd ==
  ASSUME TypeOK, PositionsContiguous, ReadPositionsBounded, NEW t \in Turns,
         (t \in Replies /\ CommitSave(t)) \/ (t \in Closeouts /\ StoreCloseout(t)),
         t \in Closeouts => closeout[t].fresh # <<>>
  PROVE  tx[t].next = MaxPosition + 1 /\ MaxPosition < MaxPosition'
<1>0. MaxPosition \in Nat /\ tx[t].next \in 0..(MaxPosition + 1)
  BY DEF PositionsContiguous, ReadPositionsBounded, Requests
<1>1. CASE t \in Replies /\ CommitSave(t)
  <2>1. Len(ReplyBlock(t)) = 2 /\ ~PositionTaken(t, ReplyBlock(t))
    BY <1>1, BlocksAreMessages DEF CommitSave, CommitReplyTurn, TurnViolatesUnique
  <2>2. tx[t].next = MaxPosition + 1
    <3>1. Len(ReplyBlock(t)) \in Nat \ {0}
      BY <2>1
    <3>2. QED
      BY <1>0, <2>1, <3>1, FreePosition
  <2>3. QED
    <3>1. MaxPosition' = MaxPosition + 2
      BY <1>1, <2>1, ReplyCommitAppends
    <3>2. QED
      BY <1>0, <2>2, <3>1
<1>2. CASE t \in Closeouts /\ StoreCloseout(t)
  <2> DEFINE fresh == closeout[t].fresh
  <2>1. /\ fresh \in Seq(Message) /\ Len(fresh) \in Nat
        /\ MaxPosition' = MaxPosition + Len(fresh)
    BY <1>2, CloseoutCommitAppends
  <2>2. fresh # <<>> /\ ~PositionTaken(t, fresh)
    BY <1>2 DEF StoreCloseout, CommitFinalize, FinalizeViolatesUnique, TurnViolatesUnique
  <2> HIDE DEF fresh
  <2>3. Len(fresh) \in Nat \ {0}
    BY <2>1, <2>2, EmptySeq
  <2>4. tx[t].next = MaxPosition + 1
    BY <1>0, <2>2, <2>3, FreePosition
  <2>5. QED
    BY <1>0, <2>1, <2>3, <2>4
<1>3. QED
  BY <1>1, <1>2

(* What has read the row writes its own over all of it.                    *)
LEMMA UpdatesWhole ==
  ASSUME NEW q, NEW new \in ReviewRow, tx[q].review = review
  PROVE  UpdatedReview(q, new) = new
BY DEF UpdatedReview, Unless, ReviewRow

LEMMA OneTurnStep ==
  ASSUME TypeOK, PositionsContiguous, ReadPositionsBounded, StoredIffCommitted,
         ReviewsOwn, ReviewInv, OneTurnInv, [Next]_vars
  PROVE  OneTurnInv'
<1> SUFFICES ASSUME NoSilence' PROVE ReviewOfOneTurn' /\ LatestReads'
  BY DEF OneTurnInv
<1>0. /\ NoSilence /\ ReviewOfOneTurn /\ LatestReads
      /\ MaxPosition \in Nat /\ MaxPosition' \in Nat
      /\ Turns \subseteq Requests /\ NoOne \notin Turns
  BY SilenceStays, HistoryGrows, StoreAssumption DEF OneTurnInv, PositionsContiguous, Requests
<1>1. CASE head' = head /\ review' = review /\ stored' = stored /\ messages' = messages
  <2>1. MaxPosition' = MaxPosition
    BY <1>1 DEF MaxPosition
  <2>2. LatestReads'
    <3>1. ASSUME NEW t \in Turns, TurnPc(t)' = "loaded", tx'[t].next = MaxPosition + 1
          PROVE  tx'[t].review = review'
      BY <1>0, <1>1, <3>1, LoadedReads DEF LatestReads
    <3>2. QED
      BY <2>1, <3>1 DEF LatestReads
  <2>3. ReviewOfOneTurn'
    <3>1. CASE review.updatedAt = NoOne
      BY <1>0, <1>1, <3>1 DEF ReviewOfOneTurn, NoReview
    <3>2. CASE review.updatedAt # NoOne
      <4>1. PICK t \in Turns : t = review.updatedAt /\ t \in stored
        BY <3>2 DEF ReviewInv, ReviewOfStoredTurn, TypeOK
      <4>2. TurnPc(t) \in ReviewedPc
        BY <4>1 DEF StoredIffCommitted, ReviewedPc
      <4>3. ReviewOf(t)' = ReviewOf(t)
        BY <4>2, ReviewChanges
      <4>4. review' = ReviewOf(t)'
        BY <1>0, <1>1, <3>2, <4>1, <4>3 DEF ReviewOfOneTurn
      <4>5. QED
        BY <1>1, <3>2, <4>1, <4>4 DEF ReviewOfOneTurn, ReviewOf
    <3>3. QED
      BY <3>1, <3>2
  <2>4. QED
    BY <2>2, <2>3
<1>2. ASSUME NEW t \in Turns,
             (t \in Replies /\ CommitSave(t)) \/ (t \in Closeouts /\ StoreCloseout(t))
      PROVE  ReviewOfOneTurn' /\ LatestReads'
  <2>1. /\ TurnPc(t) = "loaded" /\ TurnPc(t)' = "saved" /\ stored' = stored \cup {t}
        /\ review' = UpdatedReview(t, ReviewOf(t)) /\ ReviewOf(t)' = ReviewOf(t)
    BY <1>2, CommitsWhenLoaded
  <2>2. t \in Closeouts => closeout[t].fresh # <<>>
    <3>1. ASSUME t \in Closeouts
          PROVE  closeout'[t].fresh = closeout[t].fresh
      <4>1. closeout[t].pc # "read"
        BY <2>1, <3>1, StoreAssumption DEF TurnPc
      <4>2. QED
        BY <3>1, <4>1, FreshChanges
    <3>2. ASSUME t \in Closeouts
          PROVE  closeout'[t].fresh # <<>>
      BY <2>1, <3>2 DEF NoSilence, Silent
    <3>3. QED
      BY <3>1, <3>2
  <2>3. tx[t].next = MaxPosition + 1 /\ MaxPosition < MaxPosition'
    BY <1>2, <2>2, CommitsAtTheEnd
  <2>4. ReviewOf(t) \in ReviewRow /\ MadeBy(ReviewOf(t), t)
    <3>1. MadeBy(ReviewOf(t), t)
      BY <2>1 DEF ReviewsOwn, ReviewedPc
    <3>2. ReviewOf(t) \in ReviewRow
      BY DEF ReviewOf, Turns, TypeOK, ReplyState, CloseoutState
    <3>3. QED
      BY <3>1, <3>2
  <2>5. review' = ReviewOf(t)
    BY <1>0, <2>1, <2>3, <2>4, UpdatesWhole DEF LatestReads
  <2>6. ReviewOfOneTurn'
    <3>1. review'.updatedAt = t /\ t # NoOne /\ review' = ReviewOf(t)'
      BY <1>0, <2>1, <2>4, <2>5 DEF MadeBy
    <3>2. QED
      BY <3>1 DEF ReviewOfOneTurn, ReviewOf
  <2>7. LatestReads'
    <3>1. ASSUME NEW u \in Turns, TurnPc(u)' = "loaded", tx'[u].next = MaxPosition' + 1
          PROVE  tx'[u].review = review'
      <4>1. CASE TurnPc(u) = "loaded" /\ tx'[u] = tx[u]
        <5>1. tx[u].next \in 0..(MaxPosition + 1)
          BY <1>0 DEF ReadPositionsBounded
        <5>2. QED
          BY <1>0, <2>3, <3>1, <4>1, <5>1
      <4>2. CASE tx'[u].review = review /\ review' = review
        BY <4>2
      <4>3. QED
        BY <3>1, <4>1, <4>2, LoadedReads
    <3>2. QED
      BY <3>1 DEF LatestReads
  <2>8. QED
    BY <2>6, <2>7
<1>3. QED
  BY <1>1, <1>2, RowSteps

-----------------------------------------------------------------------------
(* All of it together: the inductive invariant.                            *)

SessionInv ==
  /\ HistoryInv /\ TurnInv
  /\ ReviewsOwn /\ ReviewInv /\ OneTurnInv
  /\ ProfileFromStoredTurns /\ ConflictNeedsTwoRivals

LEMMA SessionInvInit == Init => SessionInv
<1> SUFFICES ASSUME Init PROVE SessionInv
  OBVIOUS
<1> USE DEF Init, StoreInit, ProfileInit, ReplyInit, VoiceInit
<1>1. HistoryInv
  BY HistoryInvInit
<1>2. ClosedSinceCommit
  BY DEF ClosedSinceCommit
<1>3. FreshLinesSent
  <2>1. ASSUME NEW c \in Closeouts
        PROVE  <<>> \in BlocksOf[c]
    <3>1. Transcript(c) \in Seq(Message) /\ Len(Transcript(c)) \in Nat
      BY BlocksAreMessages, LenProperties
    <3>2. SubSeq(Transcript(c), Len(Transcript(c)) + 1, Len(Transcript(c))) = <<>>
      BY <3>1, SubSeqEmpty
    <3>3. Len(Transcript(c)) + 1 \in 1..(Len(Transcript(c)) + 1)
      BY <3>1
    <3>4. QED
      BY <3>2, <3>3, BlocksOfCloseout, Zenon
  <2>2. QED
    BY <2>1 DEF FreshLinesSent
<1>4. ReadProfilesStored /\ ProfileFromStoredTurns
  BY DEF ReadProfilesStored, ProfileFromStoredTurns, NewReply
<1>5. MaxPosition = 0
  <2>1. DOMAIN messages = 0..0
    OBVIOUS
  <2>2. QED
    BY <2>1, MaxPositionIs
<1>6. RetriesMetRivals /\ ConflictNeedsTwoRivals
  BY <1>5 DEF RetriesMetRivals, ConflictNeedsTwoRivals, Attempts, NewReply
<1>7. ReviewInv
  BY DEF ReviewInv, ReviewMatchesSession, ReviewOfStoredTurn, NoHead, NoReview, Quote
<1>8. \A t \in Turns : TurnPc(t) \in {"generating", "waiting"}
  BY DEF TurnPc, Turns, NewReply
<1>9. ReviewsOwn /\ OneTurnInv
  BY <1>8 DEF ReviewsOwn, ReviewedPc, StoredPc, OneTurnInv, ReviewOfOneTurn, LatestReads, NoReview
<1>10. QED
  BY <1>1, <1>2, <1>3, <1>4, <1>6, <1>7, <1>9 DEF SessionInv, TurnInv

LEMMA SessionInvStep == SessionInv /\ [Next]_vars => SessionInv'
<1> SUFFICES ASSUME SessionInv, [Next]_vars PROVE SessionInv'
  OBVIOUS
<1>1. /\ HistoryInv /\ TypeOK /\ PositionsContiguous /\ ReadPositionsBounded
      /\ StoredSinceCommit /\ ClosedSinceCommit /\ FreshLinesSent
      /\ ProfileInv /\ RivalsInv /\ ReviewsOwn /\ ReviewInv /\ OneTurnInv
  BY DEF SessionInv, HistoryInv, TurnInv, ProfileInv, RivalsInv
<1>2. HistoryInv'
  BY <1>1, HistoryInvStep
<1>3. StoredIffCommitted /\ StoredIffCommitted'
  BY <1>1, StoredSplits, CommittedStep
<1>4. ClosedSinceCommit'
  <2>1. Replies \cap Closeouts = {} /\ Turns = Replies \cup Closeouts
    BY StoreAssumption DEF Turns
  <2>2. QED
    BY <1>3, <2>1 DEF StoredIffCommitted, ClosedSinceCommit, TurnPc, StoredPc
<1>5. FreshLinesSent' /\ ReviewInv' /\ ProfileInv' /\ RivalsInv'
  BY <1>1, <1>3, FreshSentStep, ReviewStep, ProfileStep, RivalsStep
<1>6. ReviewsOwn' /\ OneTurnInv'
  BY <1>1, <1>3, ReviewsOwnStep, OneTurnStep
<1>7. QED
  BY <1>2, <1>4, <1>5, <1>6 DEF SessionInv, TurnInv, ProfileInv, RivalsInv

(* For any number of requests: what has been stored, what is on its way    *)
(* and what the clients have been told agree in every reachable state.     *)
THEOREM SessionInvariant == Spec => []SessionInv
BY SessionInvInit, SessionInvStep, PTL DEF Spec

(* The strengthening holds, too: each of its conjuncts names a thing that  *)
(* the turns in progress carry from one transaction to the next.           *)
THEOREM TurnsInvariant == Spec => []TurnInv
<1>1. SessionInv => TurnInv
  BY DEF SessionInv
<1>2. QED
  BY <1>1, SessionInvariant, PTL

(* One competing write never costs a learner the reply: a conflict is      *)
(* answered only when two other turns have been stored meanwhile.          *)
THEOREM NoConflictWithOneRival == Spec => []ConflictNeedsTwoRivals
<1>1. SessionInv => ConflictNeedsTwoRivals
  BY DEF SessionInv
<1>2. QED
  BY <1>1, SessionInvariant, PTL

(* The history page sorts by the session row and shows the review: the two *)
(* carry the time of the same turn, however the commits interleave and     *)
(* whichever columns each of them leaves out.                              *)
THEOREM RowsOfOneTurn == Spec => []ReviewMatchesSession
<1>1. SessionInv => ReviewMatchesSession
  BY DEF SessionInv, ReviewInv
<1>2. QED
  BY <1>1, SessionInvariant, PTL

(* There is a review exactly when a turn is stored, and each of its        *)
(* columns was built of a stored turn.                                     *)
THEOREM ReviewsStoredTurn == Spec => []ReviewOfStoredTurn
<1>1. SessionInv => ReviewOfStoredTurn
  BY DEF SessionInv, ReviewInv
<1>2. QED
  BY <1>1, SessionInvariant, PTL

(* Although every UPDATE leaves columns out, the review is the one that    *)
(* the turn of its time has built, unless a closeout has been stored that  *)
(* had no line to append: nothing else lets two turns pass each other.     *)
THEOREM ReviewWholeUnlessSilent == Spec => []MixedOnlyBySilence
<1>1. SessionInv => MixedOnlyBySilence
  BY DEF SessionInv, OneTurnInv, NoSilence, MixedOnlyBySilence
<1>2. QED
  BY <1>1, SessionInvariant, PTL

(* The learner profile counts no turn that is not stored, and a visitor    *)
(* has none, although it is read and written outside the transactions.     *)
THEOREM NoUnstoredInProfile == Spec => []ProfileFromStoredTurns
<1>1. SessionInv => ProfileFromStoredTurns
  BY DEF SessionInv
<1>2. QED
  BY <1>1, SessionInvariant, PTL

-----------------------------------------------------------------------------
(* The refinement of TurnLog.                                              *)

(* What its client has been told of turn t. *)
OutcomeOf(t) == TurnOutcome(TurnPc(t), t \in stored)

LEMMA OutcomeCases ==
  ASSUME NEW pc, NEW isStored \in BOOLEAN, isStored <=> pc \in StoredPc
  PROVE  /\ pc \in WorkingPc => TurnOutcome(pc, isStored) = "open"
         /\ pc \in RefusedPc => TurnOutcome(pc, isStored) = "refused"
         /\ pc \in KeptPc => TurnOutcome(pc, isStored) = "stored"
         /\ pc = "answered" => TurnOutcome(pc, isStored) = "answered"
         /\ pc = "lost" => TurnOutcome(pc, isStored) = "unanswered"
BY DEF TurnOutcome, WorkingPc, RefusedPc, KeptPc, StoredPc

LEMMA LogInit ==
  ASSUME Init
  PROVE  LoadMessages = <<OpeningMessage>>
<1>1. messages = [i \in {0} |-> OpeningMessage]
  BY DEF Init, StoreInit
<1>2. MaxPosition = 0
  <2>1. DOMAIN messages = 0..0
    BY <1>1
  <2>2. QED
    BY <2>1, MaxPositionIs
<1>3. LoadMessages = [i \in 1..1 |-> OpeningMessage]
  BY <1>1, <1>2 DEF LoadMessages
<1>4. QED
  BY <1>3

LEMMA LogAppends ==
  ASSUME TypeOK, PositionsContiguous, TypeOK', PositionsContiguous',
         NEW block \in Seq(Message),
         MaxPosition' = MaxPosition + Len(block),
         \A i \in 0..MaxPosition : messages'[i] = messages[i],
         \A i \in 1..Len(block) : messages'[MaxPosition + i] = block[i]
  PROVE  LoadMessages' = LoadMessages \o block
<1> DEFINE n == MaxPosition + 1
           k == Len(block)
<1>1. /\ n \in Nat /\ k \in Nat /\ MaxPosition \in Nat /\ MaxPosition' + 1 = n + k
      /\ LoadMessages \in Seq(Message) /\ Len(LoadMessages) = n
  BY StoreTypes, LenProperties
<1>2. \A i \in 1..n : LoadMessages[i] = messages[i - 1]
  BY DEF LoadMessages
<1>3. LoadMessages' = [i \in 1..(n + k) |-> messages'[i - 1]]
  BY <1>1 DEF LoadMessages
<1>4. /\ LoadMessages \o block \in Seq(Message)
      /\ Len(LoadMessages \o block) = n + k
      /\ \A i \in 1..(n + k) : (LoadMessages \o block)[i] =
                               IF i <= n THEN LoadMessages[i] ELSE block[i - n]
  BY <1>1, ConcatProperties
<1>5. \A i \in 1..(n + k) : messages'[i - 1] = (LoadMessages \o block)[i]
  <2> TAKE i \in 1..(n + k)
  <2>1. CASE i <= n
    <3>1. i - 1 \in 0..MaxPosition /\ i \in 1..n
      BY <1>1, <2>1
    <3>2. QED
      BY <1>2, <1>4, <2>1, <3>1
  <2>2. CASE ~(i <= n)
    <3>1. i - n \in 1..k /\ i - 1 = MaxPosition + (i - n)
      BY <1>1, <2>2
    <3>2. QED
      BY <1>4, <2>2, <3>1
  <2>3. QED
    BY <2>1, <2>2
<1>6. \A i \in 1..(n + k) : messages'[i - 1] \in Message
  BY <1>1, <1>4, <1>5, ElementOfSeq
<1>7. [i \in 1..(n + k) |-> messages'[i - 1]] \in Seq(Message)
  BY <1>1, <1>6, IsASeq
<1>8. Len([i \in 1..(n + k) |-> messages'[i - 1]]) = n + k
  BY <1>1, <1>7, LenProperties
<1>9. QED
  BY <1>3, <1>4, <1>5, <1>7, <1>8, SeqEqual

LEMMA RefinesInit == Init => History!Init
<1> SUFFICES ASSUME Init PROVE History!Init
  OBVIOUS
<1>2. \A t \in Turns : TurnPc(t) \in WorkingPc
  BY DEF Init, ReplyInit, VoiceInit, TurnPc, WorkingPc, Turns, NewReply
<1>3. \A t \in Turns : OutcomeOf(t) = "open"
  <2> TAKE t \in Turns
  <2> DEFINE was == t \in stored
  <2>1. TurnPc(t) \in WorkingPc /\ TurnPc(t) \notin StoredPc
    BY <1>2 DEF WorkingPc, StoredPc
  <2>2. was \in BOOLEAN /\ ~was
    BY DEF Init, StoreInit
  <2>3. OutcomeOf(t) = TurnOutcome(TurnPc(t), was)
    BY DEF OutcomeOf
  <2> HIDE DEF was
  <2>4. QED
    BY <2>1, <2>2, <2>3, OutcomeCases
<1>4. QED
  BY <1>3, LogInit DEF History!Init, OutcomeOf, TurnPc

(* TurnLog as seen through the mapping, its outcomes told by OutcomeOf.    *)
LEMMA MappedSteps ==
  ASSUME NEW t \in Turns, NEW to \in {"stored", "refused", "answered", "unanswered"},
         \A u \in Turns \ {t} : OutcomeOf(u)' = OutcomeOf(u),
         OutcomeOf(t)' = to,
         \/ /\ OutcomeOf(t) = "open" /\ to = "stored"
            /\ \E block \in BlocksOf[t] : LoadMessages' = LoadMessages \o block
         \/ OutcomeOf(t) = "open" /\ to = "refused" /\ LoadMessages' = LoadMessages
         \/ /\ OutcomeOf(t) = "stored" /\ to \in {"answered", "unanswered"}
            /\ LoadMessages' = LoadMessages
  PROVE  History!Next
<1> DEFINE out == [u \in Turns |->
                     TurnOutcome(IF u \in Replies THEN reply[u].pc ELSE closeout[u].pc, u \in stored)]
<1>1. out = [u \in Turns |-> OutcomeOf(u)] /\ out' = [u \in Turns |-> OutcomeOf(u)']
  BY DEF OutcomeOf, TurnPc
<1> HIDE DEF out
<1>2. out' = [out EXCEPT ![t] = to]
  BY <1>1
<1>3. out[t] = OutcomeOf(t)
  BY <1>1
<1>4. CASE out[t] = "open" /\ to = "stored"
  <2>1. History!Store(t)
    BY <1>2, <1>3, <1>4 DEF History!Store, History!Becomes, out
  <2>2. QED
    BY <2>1 DEF History!Next
<1>5. CASE out[t] = "open" /\ to = "refused"
  <2>1. History!Refuse(t)
    BY <1>2, <1>3, <1>5 DEF History!Refuse, History!Becomes, out
  <2>2. QED
    BY <2>1 DEF History!Next
<1>6. CASE out[t] = "stored" /\ to = "answered"
  <2>1. History!Answer(t)
    BY <1>2, <1>3, <1>6 DEF History!Answer, History!Becomes, out
  <2>2. QED
    BY <2>1 DEF History!Next
<1>7. CASE out[t] = "stored" /\ to = "unanswered"
  <2>1. History!LoseAnswer(t)
    BY <1>2, <1>3, <1>7 DEF History!LoseAnswer, History!Becomes, out
  <2>2. QED
    BY <2>1 DEF History!Next
<1>8. QED
  BY <1>3, <1>4, <1>5, <1>6, <1>7

LEMMA MappedStutter ==
  ASSUME \A t \in Turns : OutcomeOf(t)' = OutcomeOf(t), LoadMessages' = LoadMessages
  PROVE  UNCHANGED History!logVars
BY DEF History!logVars, OutcomeOf, TurnPc

(* What a commit stores is one of the blocks that the turn may contribute. *)
LEMMA CommitsABlock ==
  ASSUME SessionInv, SessionInv', NEW t \in Turns,
         (t \in Replies /\ CommitSave(t)) \/ (t \in Closeouts /\ StoreCloseout(t))
  PROVE  \E block \in BlocksOf[t] : LoadMessages' = LoadMessages \o block
<1>0. /\ TypeOK /\ TypeOK' /\ PositionsContiguous /\ PositionsContiguous'
      /\ ReadPositionsBounded /\ FreshLinesSent
  BY DEF SessionInv, HistoryInv, TurnInv
<1>1. CASE t \in Replies /\ CommitSave(t)
  <2>1. LoadMessages' = LoadMessages \o ReplyBlock(t)
    BY <1>0, <1>1, ReplyCommitAppends, LogAppends
  <2>2. ReplyBlock(t) \in BlocksOf[t]
    BY <1>1 DEF BlocksOf
  <2>3. QED
    BY <2>1, <2>2
<1>2. CASE t \in Closeouts /\ StoreCloseout(t)
  <2>1. LoadMessages' = LoadMessages \o closeout[t].fresh
    BY <1>0, <1>2, CloseoutCommitAppends, LogAppends
  <2>2. closeout[t].fresh \in BlocksOf[t]
    BY <1>0, <1>2 DEF FreshLinesSent
  <2>3. QED
    BY <2>1, <2>2
<1>3. QED
  BY <1>1, <1>2

LEMMA RefinesStep ==
  ASSUME SessionInv, SessionInv', [Next]_vars
  PROVE  [History!Next]_(History!logVars)
<1>0. TypeOK /\ Turns = Replies \cup Closeouts /\ Replies \cap Closeouts = {}
  BY StoreAssumption DEF SessionInv, HistoryInv, Turns
<1>1. \A t \in Turns : /\ t \in stored <=> TurnPc(t) \in StoredPc
                       /\ t \in stored' <=> TurnPc(t)' \in StoredPc
  BY <1>0 DEF SessionInv, HistoryInv, TurnInv, StoredSinceCommit, ClosedSinceCommit,
     TurnPc, StoredPc
<1>2. CASE TurnsStand
  <2>1. \A t \in Turns : OutcomeOf(t)' = OutcomeOf(t)
    BY <1>2 DEF TurnsStand, OutcomeOf
  <2>2. LoadMessages' = LoadMessages
    BY <1>2 DEF TurnsStand, LoadMessages, MaxPosition
  <2>3. QED
    BY <2>1, <2>2, MappedStutter
<1>3. ASSUME NEW t \in Turns, TurnMoves(t), NEW from, NEW to,
             from = TurnPc(t), to = TurnPc(t)'
      PROVE  [History!Next]_(History!logVars)
  <2> DEFINE was == t \in stored
             is  == t \in stored'
  <2>1. OutcomeOf(t) = TurnOutcome(from, was) /\ OutcomeOf(t)' = TurnOutcome(to, is)
    BY <1>3 DEF OutcomeOf
  <2>2. /\ was \in BOOLEAN /\ (was <=> from \in StoredPc)
        /\ is \in BOOLEAN /\ (is <=> to \in StoredPc)
    BY <1>1, <1>3
  <2> HIDE DEF was, is
  <2>3. \A u \in Turns \ {t} : OutcomeOf(u)' = OutcomeOf(u)
    <3>1. \A u \in Turns \ {t} : TurnPc(u)' = TurnPc(u)
      BY <1>3 DEF TurnMoves
    <3>2. \A u \in Turns \ {t} : u \in stored' <=> u \in stored
      BY <1>1, <3>1
    <3>3. QED
      BY <3>1, <3>2 DEF OutcomeOf
  <2>4. CASE messages' = messages /\ stored' = stored /\ Moves(from, to)
    <3>1. LoadMessages' = LoadMessages
      BY <2>4 DEF LoadMessages, MaxPosition
    <3>2. CASE from \in WorkingPc /\ to \in WorkingPc
      <4>1. from \notin StoredPc /\ to \notin StoredPc
        BY <3>2 DEF WorkingPc, StoredPc
      <4>2. OutcomeOf(t) = "open" /\ OutcomeOf(t)' = "open"
        BY <2>1, <2>2, <3>2, <4>1, OutcomeCases
      <4>3. QED
        BY <2>3, <3>1, <4>2, MappedStutter
    <3>3. CASE from \in WorkingPc /\ to \in RefusedPc
      <4>1. from \notin StoredPc /\ to \notin StoredPc
        BY <3>3 DEF WorkingPc, RefusedPc, StoredPc
      <4>2. OutcomeOf(t) = "open" /\ OutcomeOf(t)' = "refused"
        BY <2>1, <2>2, <3>3, <4>1, OutcomeCases
      <4>3. QED
        BY <2>3, <3>1, <4>2, MappedSteps
    <3>4. ASSUME from \in KeptPc, to \in KeptPc \cup {"answered", "lost"}
          PROVE  OutcomeOf(t) = "stored" /\ OutcomeOf(t)' \in {"stored", "answered", "unanswered"}
      <4>1. from \in StoredPc /\ to \in StoredPc
        BY <3>4 DEF KeptPc, StoredPc
      <4>2. QED
        BY <2>1, <2>2, <3>4, <4>1, OutcomeCases
    <3>5. CASE from \in KeptPc /\ to \in KeptPc \cup {"answered", "lost"}
      <4>1. CASE OutcomeOf(t)' = "stored"
        BY <2>3, <3>1, <3>4, <3>5, <4>1, MappedStutter
      <4>2. CASE OutcomeOf(t)' \in {"answered", "unanswered"}
        BY <2>3, <3>1, <3>4, <3>5, <4>2, MappedSteps
      <4>3. QED
        BY <3>4, <3>5, <4>1, <4>2
    <3>6. QED
      BY <2>4, <3>2, <3>3, <3>5 DEF Moves
  <2>5. CASE (t \in Replies /\ CommitSave(t)) \/ (t \in Closeouts /\ StoreCloseout(t))
    <3>1. from = "loaded" /\ to = "saved"
      BY <1>0, <1>3, <2>5, CommitsWhenLoaded
    <3>2. from \in WorkingPc /\ to \in KeptPc /\ from \notin StoredPc /\ to \in StoredPc
      BY <3>1 DEF WorkingPc, KeptPc, StoredPc
    <3>3. OutcomeOf(t) = "open" /\ OutcomeOf(t)' = "stored"
      BY <2>1, <2>2, <3>2, OutcomeCases
    <3>4. \E block \in BlocksOf[t] : LoadMessages' = LoadMessages \o block
      BY <2>5, CommitsABlock
    <3>5. QED
      BY <2>3, <3>3, <3>4, MappedSteps
  <2>6. QED
    BY <1>3, <2>4, <2>5 DEF TurnMoves
<1>4. QED
  BY <1>0, <1>2, <1>3, TurnSteps

(* The session keeps the promise of TurnLog to its clients: whatever the   *)
(* interleaving of requests, retries and rollbacks, every step appends the *)
(* whole block of one open request or changes only what a client is told,  *)
(* and that is true.                                                       *)
THEOREM ImplementsTurnLog == Spec => KeepsHistory
<1>1. SessionInv /\ SessionInv' /\ [Next]_vars => [History!Next]_(History!logVars)
  BY RefinesStep
<1>2. QED
  BY <1>1, RefinesInit, SessionInvariant, PTL DEF Spec, KeepsHistory, History!Spec

-----------------------------------------------------------------------------
(***************************************************************************)
(* The voice fact of a session, with any number of bootstraps, closeouts   *)
(* and replies at once: a think token that has been followed by another    *)
(* one or by a closeout is not accepted again, as long as no commit has    *)
(* written a generation that was worked out from another than the one it   *)
(* replaced.  What a transaction has loaded of the fact may be out of date *)
(* by then: the proof is that the columns it leaves out do no harm.        *)
(***************************************************************************)

VoiceRequests == Closeouts \cup Bootstraps

BuiltPc == {"built", "opened", "flushed", "loaded"}

(* The generations only rise, so that nothing a request has read or handed *)
(* out is ahead of the fact; and a closeout that has found the session     *)
(* completed finds it so still, unless the generation has risen since.     *)
CloseoutBehind(c) ==
  /\ closeout[c].pc \in BuiltPc => closeout[c].generation <= fact.generation
  /\ closeout[c].pc = "loaded" =>
       /\ closeout[c].generation <= tx[c].fact.generation
       /\ tx[c].fact.generation <= fact.generation
       /\ (tx[c].fact.generation = fact.generation /\ tx[c].fact.status = "completed") =>
            fact.status = "completed"

BootstrapBehind(b) ==
  /\ bootstrap[b].pc = "loaded" => tx[b].fact.generation <= fact.generation
  /\ bootstrap[b].pc \in {"saved", "answered"} => bootstrap[b].generation <= fact.generation

(* A token that is behind the fact, or of a completed voice session.       *)
Spent(b) ==
  /\ bootstrap[b].pc \in {"saved", "answered", "failed"}
  /\ bootstrap[b].generation <= fact.generation
  /\ bootstrap[b].generation < fact.generation \/ fact.status = "completed"

VoiceBehind ==
  /\ \A c \in Closeouts : CloseoutBehind(c)
  /\ \A b \in Bootstraps : BootstrapBehind(b)
  /\ \A b \in revoked : Spent(b)

TokenInv == crossed \/ VoiceBehind

LEMMA TokenInvInit == Init => TokenInv
BY DEF Init, StoreInit, VoiceInit, TokenInv, VoiceBehind, CloseoutBehind, BootstrapBehind, BuiltPc

-----------------------------------------------------------------------------
(* Replies leave the voice fact and all that is about it alone.            *)
LEMMA ReplyLeavesVoice ==
  ASSUME TypeOK, NEW r \in Replies, ReplyStep(r), UNCHANGED voiceVars
  PROVE  /\ UNCHANGED <<closeout, bootstrap, revoked, crossed, fact>>
         /\ \A q \in VoiceRequests : tx'[q] = tx[q]
<1>0. /\ Replies \cap VoiceRequests = {} /\ VoiceRequests \subseteq Requests /\ r \in Requests
      /\ tx \in [Requests -> TxView]
  BY StoreAssumption DEF TypeOK, Requests, Turns, VoiceRequests
<1>1. \A q \in Requests \ {r} : tx'[q] = tx[q]
  BY <1>0 DEF ReplyStep, ReplyProgress, GenerateReply, BuildReply, CoachFails, BeginSave,
     CommitSave, RetrySave, GiveUpSave, ReadReplyProfile, WriteReplyProfile,
     SkipReplyProfile, ReplyFails, ReplyLoses, LoadReplyTurn, CommitReplyTurn, Rollback,
     storeVars
<1>2. fact' = fact
  BY DEF ReplyStep, ReplyProgress, GenerateReply, BuildReply, CoachFails, BeginSave,
     CommitSave, RetrySave, GiveUpSave, ReadReplyProfile, WriteReplyProfile,
     SkipReplyProfile, ReplyFails, ReplyLoses, LoadReplyTurn, CommitReplyTurn, Rollback,
     storeVars
<1>3. QED
  BY <1>0, <1>1, <1>2 DEF voiceVars

(* What a step of a closeout does to the fact and to what is known of it.  *)
LEMMA CloseoutVoice ==
  ASSUME TypeOK, NEW c \in Closeouts, CloseoutStep(c)
  PROVE  /\ bootstrap' = bootstrap
         /\ \A d \in Closeouts \ {c} : closeout'[d] = closeout[d]
         /\ \A q \in Requests \ {c} : tx'[q] = tx[q]
         /\ \/ StoreCloseout(c)
            \/ /\ fact' = fact /\ revoked' = revoked /\ crossed' = crossed
               /\ CloseoutBehind(c) => CloseoutBehind(c)'
<1>0. /\ closeout \in [Closeouts -> CloseoutState] /\ tx \in [Requests -> TxView]
      /\ c \in Requests /\ fact.generation \in Nat
  BY DEF TypeOK, Requests, Turns, FactRow
<1>1. bootstrap' = bootstrap /\ \A d \in Closeouts \ {c} : closeout'[d] = closeout[d]
  BY CloseoutMoves DEF CloseoutStep, CloseoutProgress, ReadSession, JoinTranscript,
     RefuseTranscript, BuildReview, OpenFinalize, FlushFinalize, ReadFinalize,
     StoreCloseout, CloseoutConflicts, ReadCloseoutProfile, WriteCloseoutProfile,
     SkipCloseoutProfile, CloseoutFails, CloseoutLoses
<1>2. \A q \in Requests \ {c} : tx'[q] = tx[q]
  BY <1>0 DEF CloseoutStep, CloseoutProgress, ReadSession, JoinTranscript,
     RefuseTranscript, BuildReview, OpenFinalize, FlushFinalize, ReadFinalize, StoreCloseout,
     CloseoutConflicts, ReadCloseoutProfile, WriteCloseoutProfile, SkipCloseoutProfile,
     CloseoutFails, CloseoutLoses, LoadHead, FlushHead, LoadFinalize, CommitFinalize,
     Rollback, storeVars
<1>4. ASSUME ~StoreCloseout(c)
      PROVE  fact' = fact /\ revoked' = revoked /\ crossed' = crossed
  BY <1>4 DEF CloseoutStep, CloseoutProgress, ReadSession, JoinTranscript,
     RefuseTranscript, BuildReview, OpenFinalize, FlushFinalize, ReadFinalize,
     CloseoutConflicts, ReadCloseoutProfile, WriteCloseoutProfile, SkipCloseoutProfile,
     CloseoutFails, CloseoutLoses, LoadHead, FlushHead, LoadFinalize, Rollback, storeVars
<1>5. ASSUME ~StoreCloseout(c), CloseoutBehind(c)
      PROVE  CloseoutBehind(c)'
  <2>1. CASE ReadSession(c)
    <3>1. closeout'[c].pc = "read"
      BY <1>0, <2>1 DEF ReadSession, CloseoutState
    <3>2. QED
      BY <3>1 DEF CloseoutBehind, BuiltPc
  <2>2. CASE JoinTranscript(c)
    <3>1. closeout'[c].pc = "joined"
      BY <1>0, <2>2 DEF JoinTranscript, CloseoutState
    <3>2. QED
      BY <3>1 DEF CloseoutBehind, BuiltPc
  <2>3. CASE BuildReview(c)
    <3>1. closeout'[c].pc = "built" /\ closeout'[c].generation = fact.generation
      BY <1>0, <2>3 DEF BuildReview, CloseoutState
    <3>2. QED
      BY <1>0, <1>4, <1>5, <3>1 DEF CloseoutBehind
  <2>4. ASSUME NEW to, closeout' = [closeout EXCEPT ![c].pc = to],
               to \in BuiltPc => closeout[c].pc \in BuiltPc,
               to = "loaded" => tx'[c].fact = fact
        PROVE  CloseoutBehind(c)'
    <3>1. closeout'[c].pc = to /\ closeout'[c].generation = closeout[c].generation
      BY <1>0, <2>4 DEF CloseoutState
    <3>2. "loaded" \in BuiltPc
      BY DEF BuiltPc
    <3>3. QED
      BY <1>0, <1>4, <1>5, <2>4, <3>1, <3>2 DEF CloseoutBehind
  <2>5. CASE OpenFinalize(c) \/ FlushFinalize(c)
    BY <2>4, <2>5 DEF OpenFinalize, FlushFinalize, CloseoutGoes, BuiltPc
  <2>6. CASE ReadFinalize(c)
    <3>1. tx'[c].fact = fact
      BY <1>0, <2>6 DEF ReadFinalize, LoadFinalize
    <3>2. QED
      BY <2>4, <2>6, <3>1 DEF ReadFinalize, CloseoutGoes, BuiltPc
  <2>7. ASSUME NEW to \in {"invalid", "failed", "profiling", "answered", "lost"},
               closeout' = [closeout EXCEPT ![c].pc = to]
        PROVE  CloseoutBehind(c)'
    BY <2>4, <2>7 DEF BuiltPc
  <2>8. CASE \/ RefuseTranscript(c) \/ CloseoutConflicts(c) \/ ReadCloseoutProfile(c)
             \/ WriteCloseoutProfile(c) \/ SkipCloseoutProfile(c) \/ CloseoutFails(c)
             \/ CloseoutLoses(c)
    BY <2>7, <2>8 DEF RefuseTranscript, CloseoutConflicts, ReadCloseoutProfile,
       WriteCloseoutProfile, SkipCloseoutProfile, CloseoutFails, CloseoutLoses, CloseoutGoes
  <2>9. QED
    BY <1>5, <2>1, <2>2, <2>3, <2>5, <2>6, <2>8 DEF CloseoutStep, CloseoutProgress
<1>6. QED
  BY <1>1, <1>2, <1>4, <1>5

LEMMA BootstrapVoice ==
  ASSUME TypeOK, NEW b \in Bootstraps, BootstrapStep(b)
  PROVE  /\ closeout' = closeout
         /\ \A e \in Bootstraps \ {b} : bootstrap'[e] = bootstrap[e]
         /\ \A q \in Requests \ {b} : tx'[q] = tx[q]
         /\ \/ SaveFact(b)
            \/ /\ fact' = fact /\ revoked' = revoked /\ crossed' = crossed
               /\ BootstrapBehind(b) => BootstrapBehind(b)'
               /\ Spent(b) => Spent(b)'
<1>0. /\ bootstrap \in [Bootstraps -> BootstrapState] /\ tx \in [Requests -> TxView]
      /\ b \in Requests /\ fact.generation \in Nat
  BY DEF TypeOK, Requests, FactRow
<1>1. closeout' = closeout /\ \A e \in Bootstraps \ {b} : bootstrap'[e] = bootstrap[e]
  BY <1>0 DEF BootstrapStep, BootstrapProgress, BootstrapGoes, MintToken, OpenSaveFact, SaveFact,
     BootstrapConflicts, AnswerBootstrap, BootstrapFails
<1>2. \A q \in Requests \ {b} : tx'[q] = tx[q]
  BY <1>0 DEF BootstrapStep, BootstrapProgress, MintToken, OpenSaveFact, SaveFact,
     BootstrapConflicts, AnswerBootstrap, BootstrapFails, LoadFact, CommitFact, storeVars
<1>4. ASSUME ~SaveFact(b)
      PROVE  fact' = fact /\ revoked' = revoked /\ crossed' = crossed
  BY <1>4 DEF BootstrapStep, BootstrapProgress, MintToken, OpenSaveFact,
     BootstrapConflicts, AnswerBootstrap, BootstrapFails, LoadFact, storeVars
<1>5. ASSUME ~SaveFact(b)
      PROVE  (BootstrapBehind(b) => BootstrapBehind(b)') /\ (Spent(b) => Spent(b)')
  <2>1. CASE MintToken(b)
    <3>1. bootstrap[b].pc = "waiting" /\ bootstrap'[b].pc = "minted"
      BY <1>0, <2>1 DEF MintToken, BootstrapState
    <3>2. QED
      BY <3>1 DEF BootstrapBehind, Spent
  <2>2. CASE OpenSaveFact(b)
    <3>1. /\ bootstrap[b].pc = "minted" /\ bootstrap'[b].pc = "loaded"
          /\ tx'[b].fact = fact
      BY <1>0, <2>2 DEF OpenSaveFact, BootstrapGoes, LoadFact, TxView, BootstrapState
    <3>2. QED
      BY <1>0, <1>4, <1>5, <3>1 DEF BootstrapBehind, Spent
  <2>3. CASE AnswerBootstrap(b)
    <3>1. /\ bootstrap[b].pc = "saved" /\ bootstrap'[b].pc = "answered"
          /\ bootstrap'[b].generation = bootstrap[b].generation
      BY <1>0, <2>3 DEF AnswerBootstrap, BootstrapGoes, BootstrapState
    <3>2. QED
      BY <1>4, <1>5, <3>1 DEF BootstrapBehind, Spent
  <2>4. CASE BootstrapConflicts(b) \/ BootstrapFails(b)
    <3>1. /\ bootstrap'[b].pc = "failed"
          /\ bootstrap'[b].generation = bootstrap[b].generation
      BY <1>0, <2>4 DEF BootstrapConflicts, BootstrapFails, BootstrapGoes, BootstrapState
    <3>2. QED
      BY <1>4, <1>5, <3>1 DEF BootstrapBehind, Spent
  <2>5. QED
    BY <1>5, <2>1, <2>2, <2>3, <2>4 DEF BootstrapStep, BootstrapProgress
<1>6. QED
  BY <1>1, <1>2, <1>4, <1>5

-----------------------------------------------------------------------------
(* The two commits, when the generation follows from the one it replaces.  *)

(* A token that has been minted is spent once the fact has moved on.       *)
LEMMA MintedSpent ==
  ASSUME TypeOK, VoiceBehind, NEW e \in revoked \cup Minted
  PROVE  /\ e \in Bootstraps
         /\ bootstrap[e].pc \in {"saved", "answered", "failed"}
         /\ bootstrap[e].generation \in Nat /\ bootstrap[e].generation <= fact.generation
<1>1. e \in Bootstraps
  BY DEF TypeOK, Minted
<1>2. bootstrap[e].generation \in Nat
  BY <1>1 DEF TypeOK, BootstrapState
<1>3. CASE e \in revoked
  BY <1>1, <1>2, <1>3 DEF VoiceBehind, Spent
<1>4. CASE e \in Minted
  BY <1>1, <1>2, <1>4 DEF VoiceBehind, BootstrapBehind, Minted
<1>5. QED
  BY <1>3, <1>4

LEMMA SaveFactMoves ==
  ASSUME TypeOK, NEW b \in Bootstraps, SaveFact(b), ~crossed', VoiceBehind
  PROVE  /\ ~crossed
         /\ bootstrap[b].pc = "loaded" /\ bootstrap'[b].pc = "saved"
         /\ bootstrap'[b].generation = fact'.generation
         /\ fact'.generation = fact.generation + 1
         /\ revoked' = revoked \cup Minted
<1>1. /\ bootstrap[b].pc = "loaded" /\ bootstrap' = [bootstrap EXCEPT ![b].pc = "saved"]
      /\ fact' = UpdatedFact(b, [status |-> "active", generation |-> bootstrap[b].generation])
      /\ revoked' = revoked \cup Minted
  BY DEF SaveFact, BootstrapGoes, CommitFact
<1>2. ~crossed /\ bootstrap[b].generation = fact.generation + 1
  BY DEF SaveFact
<1>3. /\ fact.generation \in Nat /\ tx[b].fact.generation \in Nat
      /\ tx[b].fact.generation <= fact.generation
  BY <1>1 DEF TypeOK, FactRow, TxView, Requests, VoiceBehind, BootstrapBehind
<1>4. fact'.generation = fact.generation + 1
  BY <1>1, <1>2, <1>3 DEF UpdatedFact, Unless
<1>5. bootstrap \in [Bootstraps -> BootstrapState]
  BY DEF TypeOK
<1>6. bootstrap'[b].pc = "saved" /\ bootstrap'[b].generation = bootstrap[b].generation
  BY <1>1, <1>5 DEF BootstrapState
<1>7. QED
  BY <1>1, <1>2, <1>4, <1>6

LEMMA StoreCloseoutMoves ==
  ASSUME TypeOK, NEW c \in Closeouts, StoreCloseout(c), ~crossed', VoiceBehind
  PROVE  /\ ~crossed
         /\ closeout'[c].pc = "saved"
         /\ fact'.generation = fact.generation /\ fact'.status = "completed"
         /\ revoked' = revoked \cup Minted
<1>1. /\ closeout[c].pc = "loaded" /\ closeout' = [closeout EXCEPT ![c].pc = "saved"]
      /\ fact' = UpdatedFact(c, [status |-> "completed", generation |-> closeout[c].generation])
      /\ revoked' = revoked \cup Minted
  BY DEF StoreCloseout, CloseoutGoes, CommitFinalize
<1>2. ~crossed /\ closeout[c].generation = fact.generation
  BY DEF StoreCloseout
<1>3. fact.generation \in Nat /\ tx[c].fact.generation \in Nat
  BY DEF TypeOK, FactRow, TxView, Requests, Turns
<1>4. /\ tx[c].fact.generation = fact.generation
      /\ tx[c].fact.status = "completed" => fact.status = "completed"
  <2>1. /\ closeout[c].generation <= tx[c].fact.generation
        /\ tx[c].fact.generation <= fact.generation
        /\ (tx[c].fact.generation = fact.generation /\ tx[c].fact.status = "completed") =>
             fact.status = "completed"
    BY <1>1 DEF VoiceBehind, CloseoutBehind
  <2>2. tx[c].fact.generation = fact.generation
    BY <1>2, <1>3, <2>1
  <2>3. QED
    BY <2>1, <2>2
<1>5. fact'.generation = fact.generation /\ fact'.status = "completed"
  BY <1>1, <1>2, <1>4 DEF UpdatedFact, Unless
<1>6. closeout \in [Closeouts -> CloseoutState]
  BY DEF TypeOK
<1>7. closeout'[c].pc = "saved"
  BY <1>1, <1>6 DEF CloseoutState
<1>8. QED
  BY <1>1, <1>2, <1>5, <1>7

LEMMA CloseoutKeepsTokenInv ==
  ASSUME TypeOK, TokenInv, NEW c \in Closeouts, CloseoutStep(c)
  PROVE  TokenInv'
<1>0. /\ bootstrap' = bootstrap
      /\ \A d \in Closeouts \ {c} : closeout'[d] = closeout[d]
      /\ \A q \in Requests \ {c} : tx'[q] = tx[q]
      /\ Closeouts \cap Bootstraps = {} /\ Bootstraps \subseteq Requests /\ Closeouts \subseteq Requests
      /\ fact.generation \in Nat
  BY CloseoutVoice, StoreAssumption DEF Requests, Turns, TypeOK, FactRow
<1>1. CASE StoreCloseout(c)
  <2> SUFFICES ASSUME ~crossed' PROVE VoiceBehind'
    BY DEF TokenInv
  <2>1. VoiceBehind
    BY <1>1 DEF TokenInv, StoreCloseout
  <2>2. /\ closeout'[c].pc = "saved"
        /\ fact'.generation = fact.generation /\ fact'.status = "completed"
        /\ revoked' = revoked \cup Minted
    BY <1>1, <2>1, StoreCloseoutMoves
  <2>3. ASSUME NEW d \in Closeouts
        PROVE  CloseoutBehind(d)'
    <3>1. CASE d = c
      BY <2>2, <3>1 DEF CloseoutBehind, BuiltPc
    <3>2. CASE d # c
      <4>1. CloseoutBehind(d) /\ closeout'[d] = closeout[d] /\ tx'[d] = tx[d]
        BY <1>0, <2>1, <3>2 DEF VoiceBehind
      <4>2. QED
        BY <2>2, <4>1 DEF CloseoutBehind
    <3>3. QED
      BY <3>1, <3>2
  <2>4. ASSUME NEW b \in Bootstraps
        PROVE  BootstrapBehind(b)'
    <3>1. BootstrapBehind(b) /\ tx'[b] = tx[b]
      BY <1>0, <2>1 DEF VoiceBehind
    <3>2. QED
      BY <1>0, <2>2, <3>1 DEF BootstrapBehind
  <2>5. ASSUME NEW e \in revoked'
        PROVE  Spent(e)'
    BY <1>0, <2>1, <2>2, MintedSpent DEF Spent
  <2>6. QED
    BY <2>3, <2>4, <2>5 DEF VoiceBehind
<1>2. ASSUME fact' = fact, revoked' = revoked, crossed' = crossed,
             CloseoutBehind(c) => CloseoutBehind(c)'
      PROVE  TokenInv'
  <2> SUFFICES ASSUME VoiceBehind PROVE VoiceBehind'
    BY <1>2 DEF TokenInv
  <2>1. \A d \in Closeouts : CloseoutBehind(d)'
    BY <1>0, <1>2 DEF CloseoutBehind, VoiceBehind
  <2>2. \A b \in Bootstraps : BootstrapBehind(b)'
    BY <1>0, <1>2 DEF BootstrapBehind, VoiceBehind
  <2>3. \A b \in revoked : Spent(b)'
    BY <1>0, <1>2 DEF Spent, VoiceBehind
  <2>4. QED
    BY <1>2, <2>1, <2>2, <2>3 DEF VoiceBehind
<1>3. QED
  BY <1>1, <1>2, CloseoutVoice

LEMMA BootstrapKeepsTokenInv ==
  ASSUME TypeOK, TokenInv, NEW b \in Bootstraps, BootstrapStep(b)
  PROVE  TokenInv'
<1>0. /\ closeout' = closeout
      /\ \A e \in Bootstraps \ {b} : bootstrap'[e] = bootstrap[e]
      /\ \A q \in Requests \ {b} : tx'[q] = tx[q]
      /\ Closeouts \cap Bootstraps = {} /\ Bootstraps \subseteq Requests /\ Closeouts \subseteq Requests
      /\ fact.generation \in Nat
      /\ \A e \in Bootstraps : bootstrap[e].generation \in Nat
      /\ \A q \in Requests : tx[q].fact.generation \in Nat
      /\ \A c \in Closeouts : closeout[c].generation \in Nat
  BY BootstrapVoice, StoreAssumption
     DEF Requests, Turns, TypeOK, FactRow, BootstrapState, CloseoutState, TxView
<1>1. CASE SaveFact(b)
  <2> SUFFICES ASSUME ~crossed' PROVE VoiceBehind'
    BY DEF TokenInv
  <2>1. VoiceBehind
    BY <1>1 DEF TokenInv, SaveFact
  <2>2. /\ bootstrap[b].pc = "loaded" /\ bootstrap'[b].pc = "saved"
        /\ bootstrap'[b].generation = fact'.generation
        /\ fact'.generation = fact.generation + 1
        /\ revoked' = revoked \cup Minted
    BY <1>1, <2>1, SaveFactMoves
  <2>3. ASSUME NEW e \in Bootstraps
        PROVE  BootstrapBehind(e)'
    <3>1. CASE e = b
      BY <1>0, <2>2, <3>1 DEF BootstrapBehind
    <3>2. CASE e # b
      <4>1. /\ BootstrapBehind(e) /\ bootstrap'[e] = bootstrap[e] /\ tx'[e] = tx[e]
            /\ bootstrap[e].generation \in Nat /\ tx[e].fact.generation \in Nat
        BY <1>0, <2>1, <3>2 DEF VoiceBehind
      <4>2. QED
        BY <1>0, <2>2, <4>1 DEF BootstrapBehind
    <3>3. QED
      BY <3>1, <3>2
  <2>4. ASSUME NEW c \in Closeouts
        PROVE  CloseoutBehind(c)'
    <3>1. /\ CloseoutBehind(c) /\ tx'[c] = tx[c]
          /\ closeout[c].generation \in Nat /\ tx[c].fact.generation \in Nat
      BY <1>0, <2>1 DEF VoiceBehind
    <3>2. QED
      BY <1>0, <2>2, <3>1 DEF CloseoutBehind
  <2>5. ASSUME NEW e \in revoked'
        PROVE  Spent(e)'
    <3>1. /\ e \in Bootstraps
          /\ bootstrap[e].pc \in {"saved", "answered", "failed"}
          /\ bootstrap[e].generation \in Nat /\ bootstrap[e].generation <= fact.generation
      BY <2>1, <2>2, MintedSpent
    <3>2. bootstrap'[e] = bootstrap[e]
      BY <1>0, <2>2, <3>1
    <3>3. QED
      BY <1>0, <2>2, <3>1, <3>2 DEF Spent
  <2>6. QED
    BY <2>3, <2>4, <2>5 DEF VoiceBehind
<1>2. ASSUME fact' = fact, revoked' = revoked, crossed' = crossed,
             BootstrapBehind(b) => BootstrapBehind(b)', Spent(b) => Spent(b)'
      PROVE  TokenInv'
  <2> SUFFICES ASSUME VoiceBehind PROVE VoiceBehind'
    BY <1>2 DEF TokenInv
  <2>1. \A e \in Bootstraps : BootstrapBehind(e)'
    BY <1>0, <1>2 DEF BootstrapBehind, VoiceBehind
  <2>2. \A c \in Closeouts : CloseoutBehind(c)'
    BY <1>0, <1>2 DEF CloseoutBehind, VoiceBehind
  <2>3. ASSUME NEW e \in revoked
        PROVE  Spent(e)'
    <3>1. e \in Bootstraps /\ Spent(e)
      BY DEF TypeOK, VoiceBehind
    <3>2. QED
      BY <1>0, <1>2, <3>1 DEF Spent
  <2>4. QED
    BY <1>2, <2>1, <2>2, <2>3 DEF VoiceBehind
<1>3. QED
  BY <1>1, <1>2, BootstrapVoice

LEMMA TokenInvStep ==
  ASSUME TypeOK, TokenInv, [Next]_vars
  PROVE  TokenInv'
<1>1. ASSUME UNCHANGED <<closeout, bootstrap, revoked, crossed, fact>>,
             \A q \in VoiceRequests : tx'[q] = tx[q]
      PROVE  TokenInv'
  BY <1>1 DEF TokenInv, VoiceBehind, CloseoutBehind, BootstrapBehind, Spent, VoiceRequests
<1>2. CASE UNCHANGED vars
  BY <1>1, <1>2 DEF vars, voiceVars, storeVars
<1>3. QED
  BY <1>1, <1>2, ReplyLeavesVoice, CloseoutKeepsTokenInv, BootstrapKeepsTokenInv DEF Next, Finished

(* Nothing that a voice request has read of the fact, or handed out, is    *)
(* ahead of it, as long as no generation has been crossed.                 *)
THEOREM TokenInvariant == Spec => []TokenInv
<1>1. TypeOK /\ TokenInv /\ [Next]_vars => TokenInv'
  BY TokenInvStep
<1>2. QED
  BY <1>1, TokenInvInit, TypeCorrectness, PTL DEF Spec

(* A think token is not accepted again once its bootstrap has been         *)
(* followed by another one or by a closeout, however many of them overlap, *)
(* unless one has written a generation that it had worked out from another *)
(* than the one it replaced.                                               *)
THEOREM RevokedRefused == Spec => []RevokedStayRevoked
<1>1. TypeOK /\ TokenInv => RevokedStayRevoked
  <2> SUFFICES ASSUME TypeOK, VoiceBehind, NEW b \in revoked PROVE ~Accepts(b)
    BY DEF TokenInv, RevokedStayRevoked
  <2>1. b \in Bootstraps /\ bootstrap[b].generation \in Nat /\ fact.generation \in Nat
    BY DEF TypeOK, BootstrapState, FactRow
  <2>2. bootstrap[b].generation < fact.generation \/ fact.status = "completed"
    BY DEF VoiceBehind, Spent
  <2>3. QED
    BY <2>1, <2>2 DEF Accepts
<1>2. QED
  BY <1>1, TokenInvariant, TypeCorrectness, PTL

-----------------------------------------------------------------------------
(* A client that waits for each of its voice requests to end has at most   *)
(* one under way.                                                          *)

CloseoutActive(c)  == closeout[c].pc # "waiting" /\ ~CloseoutEnded(c)
BootstrapActive(b) == bootstrap[b].pc # "waiting" /\ ~BootstrapEnded(b)

OneActive ==
  /\ \A c, d \in Closeouts : CloseoutActive(c) /\ CloseoutActive(d) => c = d
  /\ \A b, e \in Bootstraps : BootstrapActive(b) /\ BootstrapActive(e) => b = e
  /\ \A c \in Closeouts, b \in Bootstraps : ~(CloseoutActive(c) /\ BootstrapActive(b))

NobodyActive ==
  /\ \A c \in Closeouts : ~CloseoutActive(c)
  /\ \A b \in Bootstraps : ~BootstrapActive(b)

(* A request that has not started starts only when nobody is under way.    *)
LEMMA CloseoutStarts ==
  ASSUME TypeOK, OneAtATime, NEW c \in Closeouts, CloseoutStep(c)
  PROVE  CloseoutActive(c) \/ NobodyActive
<1>1. CASE ReadSession(c)
  BY <1>1 DEF ReadSession, ClientMayStart, NobodyActive, CloseoutActive, BootstrapActive
<1>2. ASSUME ~ReadSession(c)
      PROVE  closeout[c].pc \in {"read", "joined", "built", "opened", "flushed", "loaded", "saved", "profiling"}
  BY <1>2 DEF CloseoutStep, CloseoutProgress, CloseoutGoes, JoinTranscript, RefuseTranscript,
     BuildReview, OpenFinalize, FlushFinalize, ReadFinalize, StoreCloseout, CloseoutConflicts,
     ReadCloseoutProfile, WriteCloseoutProfile, SkipCloseoutProfile, CloseoutFails,
     CloseoutLoses
<1>3. QED
  BY <1>1, <1>2 DEF CloseoutActive, CloseoutEnded, CloseoutEnds

LEMMA BootstrapStarts ==
  ASSUME TypeOK, OneAtATime, NEW b \in Bootstraps, BootstrapStep(b)
  PROVE  BootstrapActive(b) \/ NobodyActive
<1>1. CASE MintToken(b)
  BY <1>1 DEF MintToken, ClientMayStart, NobodyActive, CloseoutActive, BootstrapActive
<1>2. ASSUME ~MintToken(b)
      PROVE  bootstrap[b].pc \in {"minted", "loaded", "saved"}
  BY <1>2 DEF BootstrapStep, BootstrapProgress, BootstrapGoes, OpenSaveFact, SaveFact,
     BootstrapConflicts, AnswerBootstrap, BootstrapFails
<1>3. QED
  BY <1>1, <1>2 DEF BootstrapActive, BootstrapEnded, BootstrapEnds

LEMMA OneActiveStep ==
  ASSUME TypeOK, OneAtATime, OneActive, [Next]_vars
  PROVE  OneActive'
<1>1. CASE UNCHANGED <<closeout, bootstrap>>
  BY <1>1 DEF OneActive, CloseoutActive, CloseoutEnded, BootstrapActive, BootstrapEnded
<1>2. ASSUME NEW c \in Closeouts, CloseoutStep(c)
      PROVE  OneActive'
  <2>1. /\ \A d \in Closeouts \ {c} : CloseoutActive(d)' <=> CloseoutActive(d)
        /\ \A b \in Bootstraps : BootstrapActive(b)' <=> BootstrapActive(b)
    BY <1>2, CloseoutVoice DEF CloseoutActive, CloseoutEnded, BootstrapActive, BootstrapEnded
  <2>2. /\ \A d \in Closeouts \ {c} : ~CloseoutActive(d)
        /\ \A b \in Bootstraps : ~BootstrapActive(b)
    BY <1>2, CloseoutStarts DEF OneActive, NobodyActive
  <2>3. QED
    BY <2>1, <2>2 DEF OneActive
<1>3. ASSUME NEW b \in Bootstraps, BootstrapStep(b)
      PROVE  OneActive'
  <2>1. /\ \A e \in Bootstraps \ {b} : BootstrapActive(e)' <=> BootstrapActive(e)
        /\ \A c \in Closeouts : CloseoutActive(c)' <=> CloseoutActive(c)
    BY <1>3, BootstrapVoice DEF CloseoutActive, CloseoutEnded, BootstrapActive, BootstrapEnded
  <2>2. /\ \A e \in Bootstraps \ {b} : ~BootstrapActive(e)
        /\ \A c \in Closeouts : ~CloseoutActive(c)
    BY <1>3, BootstrapStarts DEF OneActive, NobodyActive
  <2>3. QED
    BY <2>1, <2>2 DEF OneActive
<1>4. QED
  BY <1>1, <1>2, <1>3 DEF Next, Finished, vars, voiceVars

LEMMA OneAtOnce ==
  ASSUME OneAtATime
  PROVE  Spec => []OneActive
<1>1. Init => OneActive
  BY DEF Init, VoiceInit, OneActive, CloseoutActive, BootstrapActive
<1>2. TypeOK /\ OneActive /\ [Next]_vars => OneActive'
  BY OneActiveStep
<1>3. QED
  BY <1>1, <1>2, TypeCorrectness, PTL DEF Spec

-----------------------------------------------------------------------------
(***************************************************************************)
(* A transcript that is sent again and again, one request at a time and    *)
(* with no text reply in between, adds its lines once.                     *)
(***************************************************************************)

(* All closeouts that have a line of the learner send one conversation.    *)
(* It says nothing twice, and the opener at most as its first line.        *)
OneConversation ==
  \A c, d \in Closeouts : HasUserLine(c) /\ HasUserLine(d) => Conversation[c] = Conversation[d]

DistinctLines ==
  \A c \in Closeouts : HasUserLine(c) =>
    /\ \A i, j \in 1..Len(Conversation[c]) : Conversation[c][i] = Conversation[c][j] => i = j
    /\ \A i \in 1..Len(Conversation[c]) :
         Conversation[c][i] = [role |-> "assistant", text |-> Opener] => i = 1

(* The history once closeout c has been the first to be stored.            *)
Opened == <<OpeningMessage>>
Joined(c) == Opened \o NewMessages(Opened, Transcript(c))

JoinedPc == {"joined"} \cup BuiltPc

(* The history is the opener or the whole conversation, and a closeout     *)
(* under way will add what is missing.                                     *)
TalkInv ==
  stored \cap Replies = {} =>
    /\ LoadMessages = Opened \/ \E c \in Closeouts : HasUserLine(c) /\ LoadMessages = Joined(c)
    /\ \A c \in Closeouts : closeout[c].pc \in JoinedPc =>
         HasUserLine(c) /\ closeout[c].fresh = NewMessages(LoadMessages, Transcript(c))

LEMMA TalkInvInit == Init => TalkInv
<1> SUFFICES ASSUME Init PROVE TalkInv
  OBVIOUS
<1>1. MaxPosition = 0
  BY MaxPositionIs DEF Init, StoreInit
<1>2. LoadMessages = Opened
  BY <1>1 DEF LoadMessages, Opened, Init, StoreInit
<1>3. \A c \in Closeouts : closeout[c].pc \notin JoinedPc
  BY DEF Init, VoiceInit, JoinedPc, BuiltPc
<1>4. QED
  BY <1>2, <1>3 DEF TalkInv

(* A closeout comes by what it will append when it joins its transcript.   *)
LEMMA JoinedMoves ==
  ASSUME TypeOK, [Next]_vars, NEW c \in Closeouts, closeout'[c].pc \in JoinedPc
  PROVE  \/ closeout[c].pc \in JoinedPc /\ closeout'[c].fresh = closeout[c].fresh
         \/ /\ messages' = messages /\ HasUserLine(c)
            /\ closeout'[c].fresh = NewMessages(LoadMessages, Transcript(c))
<1>0. closeout \in [Closeouts -> CloseoutState]
  BY DEF TypeOK
<1>1. CASE closeout' = closeout
  BY <1>1
<1>2. CASE JoinTranscript(c)
  BY <1>0, <1>2 DEF JoinTranscript, CloseoutState, storeVars
<1>3. CASE CloseoutStep(c) /\ ~JoinTranscript(c)
  <2>1. CASE ReadSession(c)
    BY <1>0, <2>1 DEF ReadSession, CloseoutState, JoinedPc, BuiltPc
  <2>2. CASE BuildReview(c)
    BY <1>0, <2>2 DEF BuildReview, CloseoutState, JoinedPc
  <2>3. ASSUME NEW from, NEW to, CloseoutGoes(c, from, to),
               to \in JoinedPc => from \in JoinedPc
        PROVE  closeout[c].pc \in JoinedPc /\ closeout'[c].fresh = closeout[c].fresh
    BY <1>0, <2>3 DEF CloseoutGoes, CloseoutState
  <2>4. QED
    BY <1>3, <2>1, <2>2, <2>3 DEF CloseoutStep, CloseoutProgress, RefuseTranscript,
       OpenFinalize, FlushFinalize, ReadFinalize, StoreCloseout, CloseoutConflicts,
       ReadCloseoutProfile, WriteCloseoutProfile, SkipCloseoutProfile, CloseoutFails,
       CloseoutLoses, JoinedPc, BuiltPc
<1>4. ASSUME NEW d \in Closeouts \ {c}, CloseoutStep(d)
      PROVE  closeout'[c] = closeout[c]
  BY <1>4, CloseoutMoves
<1>5. ASSUME NEW b \in Bootstraps, BootstrapStep(b)
      PROVE  closeout' = closeout
  BY <1>5 DEF BootstrapStep, BootstrapProgress, MintToken, OpenSaveFact, SaveFact,
     BootstrapConflicts, AnswerBootstrap, BootstrapFails
<1>6. QED
  BY <1>1, <1>2, <1>3, <1>4, <1>5 DEF Next, Finished, vars, voiceVars

(* Two closeouts that have a line of the learner say the same.             *)
LEMMA TranscriptsAgree ==
  ASSUME OneConversation, NEW c \in Closeouts, NEW d \in Closeouts, HasUserLine(c), HasUserLine(d)
  PROVE  SaysTheSame(Transcript(c), Transcript(d))
<1>1. Conversation[c] = Conversation[d] /\ Conversation[c] \in Seq(Line)
  BY ConversationAssumption DEF OneConversation
<1>2. /\ DOMAIN Conversation[c] = 1..Len(Conversation[c])
      /\ Len(Conversation[c]) \in Nat
  BY <1>1, LenProperties
<1>3. /\ Len(Transcript(c)) = Len(Conversation[c])
      /\ Len(Transcript(d)) = Len(Conversation[c])
  BY <1>1, <1>2 DEF Transcript
<1>4. QED
  BY <1>1, <1>2, <1>3 DEF SaysTheSame, Transcript, Signature

LEMMA OpenedIsHistory == Opened \in Seq(Message) /\ Len(Opened) = 1 /\ Opened[1] = OpeningMessage
BY StoreAssumption DEF Opened, OpeningMessage, Message, Text, Author

LEMMA TalkStep ==
  ASSUME TypeOK, PositionsContiguous, ReadPositionsBounded, TypeOK',
         PositionsContiguous', OneActive, OneConversation, TalkInv, [Next]_vars
  PROVE  TalkInv'
<1> SUFFICES ASSUME stored' \cap Replies = {}
             PROVE  /\ \/ LoadMessages' = Opened
                       \/ \E c \in Closeouts : HasUserLine(c) /\ LoadMessages' = Joined(c)
                    /\ \A c \in Closeouts : closeout'[c].pc \in JoinedPc =>
                         /\ HasUserLine(c)
                         /\ closeout'[c].fresh = NewMessages(LoadMessages', Transcript(c))
  BY DEF TalkInv, Joined, HasUserLine, Opened, OpeningMessage, Transcript
<1>1. CASE messages' = messages /\ stored' = stored
  <2>1. LoadMessages' = LoadMessages
    BY <1>1 DEF LoadMessages, MaxPosition
  <2>2. QED
    BY <1>1, <2>1, JoinedMoves DEF TalkInv
<1>2. CASE \E r \in Replies : CommitSave(r)
  BY <1>2 DEF CommitSave, CommitReplyTurn
<1>3. ASSUME NEW c \in Closeouts, StoreCloseout(c)
      PROVE  /\ \/ LoadMessages' = Opened
                \/ \E d \in Closeouts : HasUserLine(d) /\ LoadMessages' = Joined(d)
             /\ \A d \in Closeouts : closeout'[d].pc \notin JoinedPc
  <2>1. closeout \in [Closeouts -> CloseoutState] /\ stored \cap Replies = {}
    BY <1>3 DEF TypeOK, StoreCloseout, CommitFinalize
  <2>2. closeout[c].pc = "loaded" /\ closeout' = [closeout EXCEPT ![c].pc = "saved"]
    BY <1>3 DEF StoreCloseout, CloseoutGoes
  <2>3. \A d \in Closeouts : closeout'[d].pc \notin JoinedPc
    <3>1. closeout'[c].pc = "saved"
      BY <2>1, <2>2 DEF CloseoutState
    <3>2. \A d \in Closeouts \ {c} : closeout'[d] = closeout[d] /\ ~CloseoutActive(d)
      BY <2>1, <2>2 DEF OneActive, CloseoutActive, CloseoutEnded, CloseoutEnds
    <3>3. QED
      BY <3>1, <3>2 DEF CloseoutActive, CloseoutEnded, CloseoutEnds, JoinedPc, BuiltPc
  <2>4. HasUserLine(c) /\ closeout[c].fresh = NewMessages(LoadMessages, Transcript(c))
    BY <2>1, <2>2 DEF TalkInv, JoinedPc, BuiltPc
  <2>5. LoadMessages' = LoadMessages \o NewMessages(LoadMessages, Transcript(c))
    BY <1>3, <2>4, CloseoutCommitAppends, LogAppends
  <2>6. CASE LoadMessages = Opened
    BY <2>3, <2>4, <2>5, <2>6 DEF Joined
  <2>7. ASSUME NEW d \in Closeouts, HasUserLine(d), LoadMessages = Joined(d)
        PROVE  LoadMessages' = Joined(d)
    <3>1. /\ Transcript(c) \in Seq(Message) /\ Transcript(d) \in Seq(Message)
          /\ LoadMessages \in Seq(Message)
      BY BlocksAreMessages, StoreTypes
    <3>2. NewMessages(LoadMessages, Transcript(c)) = <<>>
      BY <2>4, <2>7, <3>1, RetryAppendsNothing, TranscriptsAgree, OpenedIsHistory DEF Joined
    <3>3. QED
      BY <2>5, <2>7, <3>1, <3>2, ConcatEmptySeq
  <2>8. QED
    BY <2>1, <2>3, <2>6, <2>7 DEF TalkInv
<1>4. QED
  BY <1>1, <1>2, <1>3, HistorySteps

(* Nothing is said twice in the conversation as it is stored at first.     *)
LEMMA JoinedDistinct ==
  ASSUME DistinctLines, NEW c \in Closeouts, HasUserLine(c)
  PROVE  \A i, j \in 1..Len(Joined(c)) :
           Signature(Joined(c)[i]) = Signature(Joined(c)[j]) => i = j
<1> DEFINE lines == Transcript(c)
           new == NewMessages(Opened, lines)
           rest == Remainder(Opened, lines)
<1>1. lines \in Seq(Message) /\ Opened \in Seq(Message) /\ Len(lines) \in Nat
  BY BlocksAreMessages, OpenedIsHistory, LenProperties
<1>2. /\ \A i, j \in 1..Len(lines) : Signature(lines[i]) = Signature(lines[j]) => i = j
      /\ \A i \in 1..Len(lines) : Signature(lines[i]) = Signature(OpeningMessage) => i = 1
  <2>1. /\ Conversation[c] \in Seq(Line) /\ DOMAIN Conversation[c] = 1..Len(Conversation[c])
        /\ Len(Conversation[c]) \in Nat
    BY ConversationAssumption, LenProperties
  <2>2. \A i \in 1..Len(Conversation[c]) :
          Conversation[c][i] = [role |-> Conversation[c][i].role, text |-> Conversation[c][i].text]
    <3>1. \A l \in Line : l = [role |-> l.role, text |-> l.text]
      BY DEF Line
    <3>2. QED
      BY <2>1, <3>1, ElementOfSeq
  <2>3. Len(lines) = Len(Conversation[c])
    BY <2>1 DEF Transcript
  <2>4. \A i \in 1..Len(lines) :
          Signature(lines[i]) = <<Conversation[c][i].role, Conversation[c][i].text>>
    BY <2>1, <2>3 DEF Transcript, Signature
  <2>5. Signature(OpeningMessage) = <<"assistant", Opener>>
    BY DEF OpeningMessage, Signature
  <2> HIDE DEF lines
  <2>6. \A i, j \in 1..Len(lines) : Signature(lines[i]) = Signature(lines[j]) => i = j
    <3> SUFFICES ASSUME NEW i \in 1..Len(lines), NEW j \in 1..Len(lines),
                        Signature(lines[i]) = Signature(lines[j])
                 PROVE  i = j
      OBVIOUS
    <3>1. /\ Conversation[c][i].role = Conversation[c][j].role
          /\ Conversation[c][i].text = Conversation[c][j].text
      BY <2>4
    <3>2. Conversation[c][i] = Conversation[c][j]
      BY <2>2, <2>3, <3>1
    <3>3. QED
      BY <2>3, <3>2 DEF DistinctLines
  <2>7. \A i \in 1..Len(lines) : Signature(lines[i]) = Signature(OpeningMessage) => i = 1
    BY <2>2, <2>3, <2>4, <2>5 DEF DistinctLines
  <2>8. QED
    BY <2>6, <2>7
<1>3. new \in Seq(Message) /\ Len(new) \in Nat
  BY <1>1, NewMessagesIsSuffix, LenProperties
<1>4. PICK d \in 0..Len(lines) :
        /\ DropsFirst(new, lines, d)
        /\ lines # <<>> /\ Signature(lines[1]) = Signature(OpeningMessage) => d >= 1
  <2>1. Opened # <<>> /\ Head(Opened) = OpeningMessage
    BY DEF Opened
  <2>2. PICK e \in {0, 1} :
          /\ DropsFirst(rest, lines, e)
          /\ e = 1 <=> /\ lines # <<>>
                       /\ Signature(Head(lines)) = Signature(Head(Opened))
    <3> HIDE DEF new, lines
    <3> QED  BY <1>1, RemainderIsSuffix, Zenon
  <2>9. rest \in Seq(Message)
    BY <1>1, RemainderIsSuffix
  <2>3. PICK k \in Nat : /\ k <= Len(rest)
                         /\ new = SubSeq(rest, k + 1, Len(rest))
    <3>1. new = SubSeq(rest, TailOverlap(Opened, rest) + 1, Len(rest))
      BY <2>1 DEF NewMessages
    <3> HIDE DEF new, rest, lines
    <3>2. TailOverlap(Opened, rest) \in Nat /\ TailOverlap(Opened, rest) <= Len(rest)
      BY <1>1, <2>9, TailOverlapIsMax, LenProperties
    <3>3. QED
      BY <3>1, <3>2
  <2> HIDE DEF new, rest, lines
  <2>4. DropsFirst(new, rest, k)
    <3>1. \A i \in (k + 1)..Len(rest) : rest[i] \in Message
      BY <2>9, <2>3, ElementOfSeq, LenProperties
    <3> QED  BY <2>9, <2>3, <3>1, SubSeqProperties, LenProperties DEF DropsFirst
  <2>5. k + e \in 0..Len(lines) /\ DropsFirst(new, lines, k + e)
    BY <1>1, <2>2, <2>3, <2>4, <2>9, LenProperties DEF DropsFirst
  <2>6. lines # <<>> => Head(lines) = lines[1]
    BY <1>1, HeadIsFirst
  <2>7. QED
    BY <2>1, <2>2, <2>3, <2>5, <2>6
<1> HIDE DEF lines, new, rest
<1>5. /\ Len(Joined(c)) = 1 + Len(new)
      /\ Joined(c)[1] = OpeningMessage
      /\ \A i \in 2..(1 + Len(new)) : Joined(c)[i] = lines[i - 1 + d]
  <2>1. /\ Len(Joined(c)) = 1 + Len(new)
        /\ \A i \in 1..(1 + Len(new)) :
             Joined(c)[i] = IF i <= 1 THEN OpeningMessage ELSE new[i - 1]
    <3>1. Joined(c) = Opened \o new
      BY DEF Joined, new, lines
    <3>2. /\ Len(Joined(c)) = 1 + Len(new)
          /\ \A i \in 1..(1 + Len(new)) :
               Joined(c)[i] = IF i <= 1 THEN Opened[i] ELSE new[i - 1]
      <4>1. /\ Len(Opened \o new) = Len(Opened) + Len(new)
            /\ \A i \in 1..(Len(Opened) + Len(new)) :
                 (Opened \o new)[i] = IF i <= Len(Opened) THEN Opened[i] ELSE new[i - Len(Opened)]
        BY <1>1, <1>3, ConcatProperties, Zenon
      <4>2. Len(Opened) = 1
        BY OpenedIsHistory
      <4>3. QED
        BY <3>1, <4>1, <4>2
    <3>3. \A i \in 1..(1 + Len(new)) : i <= 1 => Opened[i] = OpeningMessage
      BY <1>3, OpenedIsHistory
    <3>4. QED
      BY <3>2, <3>3
  <2>2. ASSUME NEW i \in 2..(1 + Len(new))
        PROVE  Joined(c)[i] = lines[i - 1 + d]
    <3>1. i - 1 \in 1..Len(new) /\ i \in 1..(1 + Len(new)) /\ ~(i <= 1)
      BY <1>3
    <3>2. new[i - 1] = lines[i - 1 + d]
      BY <1>1, <1>3, <1>4, <3>1 DEF DropsFirst
    <3>3. QED
      BY <2>1, <3>1, <3>2
  <2>3. 1 \in 1..(1 + Len(new))
    BY <1>3
  <2>4. QED
    BY <2>1, <2>2, <2>3
<1>6. ASSUME NEW i \in 2..(1 + Len(new))
      PROVE  Signature(lines[i - 1 + d]) # Signature(OpeningMessage)
  <2>1. i - 1 + d \in 1..Len(lines)
    BY <1>1, <1>3, <1>4 DEF DropsFirst
  <2>2. SUFFICES ASSUME Signature(lines[i - 1 + d]) = Signature(OpeningMessage) PROVE FALSE
    OBVIOUS
  <2>3. i - 1 + d = 1
    BY <1>2, <2>1, <2>2
  <2>4. d = 0 /\ lines # <<>>
    BY <1>1, <1>3, <1>4, <2>1, <2>3, EmptySeq
  <2>5. QED
    BY <1>4, <2>2, <2>3, <2>4
<1>7. QED
  <2> SUFFICES ASSUME NEW i \in 1..(1 + Len(new)), NEW j \in 1..(1 + Len(new)),
                      Signature(Joined(c)[i]) = Signature(Joined(c)[j])
               PROVE  i = j
    BY <1>5
  <2>1. CASE i = 1 /\ j # 1
    BY <1>3, <1>5, <1>6, <2>1
  <2>2. CASE i # 1 /\ j = 1
    BY <1>3, <1>5, <1>6, <2>2
  <2>3. CASE i # 1 /\ j # 1
    <3>1. /\ i - 1 + d \in 1..Len(lines) /\ j - 1 + d \in 1..Len(lines)
          /\ i \in 2..(1 + Len(new)) /\ j \in 2..(1 + Len(new))
      BY <1>1, <1>3, <1>4, <2>3 DEF DropsFirst
    <3>2. i - 1 + d = j - 1 + d
      BY <1>2, <1>5, <3>1
    <3>3. QED
      BY <3>1, <3>2
  <2>4. QED
    BY <2>1, <2>2, <2>3

(* However often a client that waits for its voice requests sends one      *)
(* transcript, and wherever a request failed, no line is stored twice      *)
(* (build_voice_messages), as long as no text reply has been stored: the   *)
(* overlap is looked for at the end of the history.                        *)
THEOREM RetriesAddNothing ==
  ASSUME OneAtATime, OneConversation, DistinctLines
  PROVE  Spec => [](stored \cap Replies = {} => NoLineTwice)
<1>1. /\ HistoryInv /\ OneActive /\ TalkInv /\ HistoryInv' /\ [Next]_vars => TalkInv'
  BY TalkStep DEF HistoryInv
<1>2. HistoryInv /\ TalkInv => (stored \cap Replies = {} => NoLineTwice)
  <2> SUFFICES ASSUME HistoryInv, TalkInv, stored \cap Replies = {} PROVE NoLineTwice
    OBVIOUS
  <2>1. /\ DOMAIN messages = 0..MaxPosition /\ MaxPosition \in Nat
        /\ Len(LoadMessages) = MaxPosition + 1
    BY StoreTypes DEF HistoryInv, PositionsContiguous
  <2>2. \A i \in 0..MaxPosition :
          i + 1 \in 1..Len(LoadMessages) /\ messages[i] = LoadMessages[i + 1]
    BY <2>1 DEF LoadMessages
  <2>3. \A i, j \in 1..Len(LoadMessages) :
          Signature(LoadMessages[i]) = Signature(LoadMessages[j]) => i = j
    <3>1. CASE LoadMessages = Opened
      BY <3>1, OpenedIsHistory
    <3>2. QED
      BY <3>1, JoinedDistinct DEF TalkInv
  <2>4. QED
    BY <2>1, <2>2, <2>3 DEF NoLineTwice
<1>3. QED
  BY <1>1, <1>2, TalkInvInit, HistoryInvariant, OneAtOnce, PTL DEF Spec
=============================================================================
