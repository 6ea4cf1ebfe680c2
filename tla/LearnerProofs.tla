--------------------------- MODULE LearnerProofs ---------------------------
(***************************************************************************)
(* The profile of a learner, for any number of turns that end side by      *)
(* side, any signals and any bounds of what is kept: proof of LearnerInv   *)
(* by the inductive invariant LearnerOK.                                   *)
(*                                                                         *)
(* What apply_turn_to_profile adds is told by what the turns said.  For    *)
(* the scenes, whose order stands for when each was practised last, the    *)
(* proof is that the scenes since scenes[i] are those listed after it: so  *)
(* a scene is kept exactly while fewer scenes than the cap came since, and *)
(* its count is that of its turns since it was let in.  A profile that was *)
(* read before another turn wrote still makes nothing up: the signals have *)
(* only become more (Bigger), and of two rows that make nothing up each    *)
(* column may be taken (Mixed).                                            *)
(***************************************************************************)
EXTENDS LearnerProfile, Induction

-----------------------------------------------------------------------------
(***************************************************************************)
(* Types, and sequences of which one end is kept.                          *)
(***************************************************************************)

Names == {s.scene : s \in Signals}
Entry == [scene : Names, count : Nat]
KeptScenes == {z \in Seq(Entry) : Len(z) <= SceneCap}
KeptLevels == {z \in Seq(Nat \ {0}) : Len(z) <= Window}
Counts == UNION {[C -> Nat] : C \in SUBSET Categories}
Profiles ==
  [practised : Nat, scenes : KeptScenes, errors : Counts, levels : KeptLevels, estimate : Nat]

(* One more at the end of a sequence.                                      *)
LEMMA OneMore ==
  ASSUME NEW S, NEW z \in Seq(S), NEW e \in S
  PROVE  /\ Append(z, e) \in Seq(S)
         /\ Len(z) \in Nat /\ Len(Append(z, e)) = Len(z) + 1
         /\ DOMAIN z = 1..Len(z) /\ DOMAIN Append(z, e) = 1..(Len(z) + 1)
         /\ \A i \in 1..Len(z) : z[i] \in S /\ Append(z, e)[i] = z[i]
         /\ Append(z, e)[Len(z) + 1] = e
<1>1. Len(z) \in Nat /\ DOMAIN z = 1..Len(z) /\ \A i \in 1..Len(z) : z[i] \in S
  BY LenProperties, ElementOfSeq
<1>2. Append(z, e) \in Seq(S) /\ Len(Append(z, e)) = Len(z) + 1
  OBVIOUS
<1>3. DOMAIN Append(z, e) = 1..(Len(z) + 1)
  BY <1>2, LenProperties
<1>4. Append(z, e)[Len(z) + 1] = e /\ \A i \in 1..Len(z) : Append(z, e)[i] = z[i]
  BY <1>1
<1>5. QED
  BY <1>1, <1>2, <1>3, <1>4

(* The last k of a sequence.                                               *)
LastOf(z, k) == IF Len(z) > k THEN SubSeq(z, Len(z) - k + 1, Len(z)) ELSE z

LEMMA LastOnes ==
  ASSUME NEW S, NEW z \in Seq(S), NEW k \in Nat \ {0}
  PROVE  /\ LastOf(z, k) \in Seq(S) /\ Len(z) \in Nat
         /\ Len(LastOf(z, k)) = IF Len(z) > k THEN k ELSE Len(z)
         /\ \A i \in 1..Len(LastOf(z, k)) : LastOf(z, k)[i] = z[Len(z) - Len(LastOf(z, k)) + i]
<1> PICK w : w = LastOf(z, k)
  OBVIOUS
<1> DEFINE n == Len(z)
<1>0. w = IF n > k THEN SubSeq(z, n - k + 1, n) ELSE z
  BY DEF LastOf
<1>1. n \in Nat /\ \A i \in 1..n : z[i] \in S
  BY LenProperties, ElementOfSeq
<1>2. CASE n > k
  <2>1. w = SubSeq(z, n - k + 1, n)
    BY <1>0, <1>2
  <2>2. \A i \in (n - k + 1)..n : z[i] \in S
    <3> HIDE DEF n
    <3> QED  BY <1>1, <1>2
  <2>3. /\ n - k + 1 \in Int /\ n \in Int /\ n - k + 1 <= n
        /\ n - (n - k + 1) + 1 = k
    <3> HIDE DEF n
    <3> QED  BY <1>1, <1>2
  <2> DEFINE a == n - k + 1
  <2>4. /\ SubSeq(z, a, n) \in Seq(S)
        /\ Len(SubSeq(z, a, n)) = IF a <= n THEN n - a + 1 ELSE 0
        /\ \A i \in 1..(n - a + 1) : SubSeq(z, a, n)[i] = z[a + i - 1]
    <3> HIDE DEF n, a
    <3>1. a \in Int /\ n \in Int /\ \A i \in a..n : z[i] \in S
      BY <2>2, <2>3 DEF a
    <3>2. QED
      BY <3>1, SubSeqProperties
  <2>5. \A i \in 1..k : a + i - 1 = n - k + i
    <3> HIDE DEF n
    <3> QED  BY <1>1
  <2>6. w \in Seq(S) /\ Len(w) = k /\ \A i \in 1..k : w[i] = z[n - k + i]
    <3> HIDE DEF n
    <3>1. w \in Seq(S) /\ Len(w) = k
      BY <2>1, <2>3, <2>4
    <3>2. \A i \in 1..k : w[i] = z[a + i - 1]
      BY <2>1, <2>3, <2>4
    <3> HIDE DEF a
    <3>3. QED
      BY <3>1, <3>2, <2>5
  <2>7. QED
    <3> HIDE DEF n, a
    <3>1. n = Len(z)
      BY DEF n
    <3>2. QED
      BY <1>1, <1>2, <2>6, <3>1
<1>3. CASE ~(n > k)
  <2>1. w = z
    BY <1>0, <1>3
  <2>2. \A i \in 1..n : n - n + i = i
    <3> HIDE DEF n
    <3> QED  BY <1>1
  <2>3. QED
    BY <1>1, <1>3, <2>1, <2>2
<1>4. QED
  BY <1>2, <1>3

LEMMA RemovedAt ==
  ASSUME NEW S, NEW z \in Seq(S), NEW d \in 1..Len(z)
  PROVE  /\ RemoveAt(z, d) \in Seq(S)
         /\ Len(RemoveAt(z, d)) = Len(z) - 1
         /\ \A i \in 1..(Len(z) - 1) : RemoveAt(z, d)[i] = z[IF i < d THEN i ELSE i + 1]
<1> DEFINE n == Len(z)
           a == SubSeq(z, 1, d - 1)
           b == SubSeq(z, d + 1, n)
<1>1. n \in Nat /\ d \in 1..n /\ \A i \in 1..n : z[i] \in S
  BY LenProperties, ElementOfSeq
<1>2. a \in Seq(S) /\ Len(a) = d - 1 /\ \A i \in 1..(d - 1) : a[i] = z[i]
  <2> HIDE DEF n
  <2>1. 1 \in Int /\ d - 1 \in Int /\ (\A i \in 1..(d - 1) : z[i] \in S)
    BY <1>1
  <2>2. /\ a \in Seq(S)
        /\ Len(a) = IF 1 <= d - 1 THEN d - 1 - 1 + 1 ELSE 0
        /\ \A i \in 1..(d - 1 - 1 + 1) : a[i] = z[1 + i - 1]
    BY <2>1, SubSeqProperties
  <2> HIDE DEF a
  <2>3. QED
    BY <1>1, <2>2
<1>3. b \in Seq(S) /\ Len(b) = n - d /\ \A i \in 1..(n - d) : b[i] = z[d + i]
  <2> HIDE DEF n
  <2>1. d + 1 \in Int /\ n \in Int /\ (\A i \in (d + 1)..n : z[i] \in S)
    BY <1>1
  <2>2. /\ b \in Seq(S)
        /\ Len(b) = IF d + 1 <= n THEN n - (d + 1) + 1 ELSE 0
        /\ \A i \in 1..(n - (d + 1) + 1) : b[i] = z[d + 1 + i - 1]
    BY <2>1, SubSeqProperties
  <2> HIDE DEF b
  <2>3. QED
    BY <1>1, <2>2
<1>4. RemoveAt(z, d) = a \o b
  BY DEF RemoveAt
<1> HIDE DEF a, b, n
<1>5. /\ a \o b \in Seq(S)
      /\ Len(a \o b) = Len(a) + Len(b)
      /\ \A i \in 1..(Len(a) + Len(b)) : (a \o b)[i] = IF i <= Len(a) THEN a[i] ELSE b[i - Len(a)]
  BY <1>2, <1>3, ConcatProperties
<1>6. (d - 1) + (n - d) = n - 1
  BY <1>1
<1>7. \A i \in 1..(n - 1) : (a \o b)[i] = IF i <= d - 1 THEN a[i] ELSE b[i - (d - 1)]
  BY <1>2, <1>3, <1>5, <1>6
<1>8. ASSUME NEW i \in 1..(n - 1)
      PROVE  (a \o b)[i] = z[IF i < d THEN i ELSE i + 1]
  <2>1. CASE i < d
    BY <1>1, <1>2, <1>7, <2>1
  <2>2. CASE ~(i < d)
    <3>1. i - (d - 1) \in 1..(n - d) /\ d + (i - (d - 1)) = i + 1 /\ ~(i <= d - 1)
      BY <1>1, <2>2
    <3>2. QED
      BY <1>3, <1>7, <2>2, <3>1
  <2>3. QED
    BY <2>1, <2>2
<1>9. n = Len(z)
  BY DEF n
<1>10. QED
  BY <1>2, <1>3, <1>4, <1>5, <1>6, <1>8, <1>9

-----------------------------------------------------------------------------
(***************************************************************************)
(* What one turn does to the scenes and the levels that are kept, and that *)
(* the estimate is the lower median of these.                              *)
(***************************************************************************)

(* new is old without the place d, if there is one, and with c at its end. *)
Moved(old, new, c, d) ==
  /\ d \in 1..(Len(old) + 1)
  /\ Len(new) = IF d <= Len(old) THEN Len(old) ELSE Len(old) + 1
  /\ \A i \in 1..(Len(new) - 1) : new[i] = old[IF i < d THEN i ELSE i + 1]
  /\ new[Len(new)].scene = c
  /\ \/ d <= Len(old) /\ old[d].scene = c /\ new[Len(new)].count = old[d].count + 1
     \/ /\ \A i \in 1..Len(old) : old[i].scene # c
        /\ new[Len(new)].count = 1
        /\ \/ d = 1 /\ Len(old) = SceneCap
           \/ d = Len(old) + 1 /\ Len(old) < SceneCap

LEMMA SceneMoves ==
  ASSUME NEW old \in KeptScenes, NEW c \in Names
  PROVE  /\ AddedScene(old, c) \in KeptScenes
         /\ \E d : Moved(old, AddedScene(old, c), c, d)
<1> DEFINE m == Len(old)
           places == {i \in DOMAIN old : old[i].scene = c}
           new == AddedScene(old, c)
<1>1. /\ old \in Seq(Entry) /\ m \in Nat /\ m <= SceneCap /\ DOMAIN old = 1..m
      /\ \A i \in 1..m : old[i] \in Entry
      /\ SceneCap \in Nat \ {0}
  BY LenProperties, ElementOfSeq, ProfileAssumption DEF KeptScenes
<1>2. CASE places = {}
  <2> DEFINE e == [scene |-> c, count |-> 1]
             all == Append(old, e)
  <2>1. e \in Entry
    BY DEF Entry
  <2>2. /\ all \in Seq(Entry) /\ Len(all) = m + 1 /\ all[m + 1] = e
        /\ \A i \in 1..m : all[i] = old[i]
    <3> HIDE DEF e
    <3>1. QED
      BY <1>1, <2>1, OneMore
  <2>3. new = Latest(all)
    BY <1>2 DEF AddedScene
  <2>4. new = LastOf(all, SceneCap)
    <3> HIDE DEF all, new
    <3>1. QED
      BY <2>3 DEF Latest, LastOf
  <2>5. /\ new \in Seq(Entry)
        /\ Len(new) = IF m + 1 > SceneCap THEN SceneCap ELSE m + 1
        /\ \A i \in 1..Len(new) : new[i] = all[m + 1 - Len(new) + i]
    <3> HIDE DEF all, new, m
    <3>1. /\ new \in Seq(Entry)
          /\ Len(new) = IF Len(all) > SceneCap THEN SceneCap ELSE Len(all)
          /\ \A i \in 1..Len(new) : new[i] = all[Len(all) - Len(new) + i]
      <4>1. all \in Seq(Entry) /\ SceneCap \in Nat \ {0}
        BY <1>1, <2>2
      <4>2. QED
        BY <2>4, <4>1, LastOnes
    <3>2. ASSUME NEW i \in 1..Len(new)
          PROVE  new[i] = all[m + 1 - Len(new) + i]
      <4>1. Len(all) - Len(new) + i = m + 1 - Len(new) + i
        <5>1. PICK a, b : a = Len(all) /\ b = Len(new)
          OBVIOUS
        <5>2. a = m + 1 /\ m \in Nat /\ b \in Nat /\ i \in Nat
          BY <1>1, <2>2, <3>1, <5>1
        <5>3. a - b + i = m + 1 - b + i
          BY ONLY <5>2
        <5>4. QED
          BY <5>1, <5>3
      <4>2. QED
        BY <3>1, <4>1
    <3>3. QED
      BY <2>2, <3>1, <3>2
  <2>6. \A i \in 1..m : old[i].scene # c
    BY <1>1, <1>2
  <2> DEFINE d == IF m = SceneCap THEN 1 ELSE m + 1
  <2>7. new[Len(new)] = e
    <3> HIDE DEF new, all, e, m
    <3>1. Len(new) \in 1..Len(new) /\ m + 1 - Len(new) + Len(new) = m + 1
      BY <1>1, <2>5
    <3>2. QED
      BY <2>2, <2>5, <3>1
  <2>8. Len(new) = IF d <= m THEN m ELSE m + 1
    <3> HIDE DEF new, all, e, m
    <3>1. QED
      BY <1>1, <2>5
  <2>9. ASSUME NEW i \in 1..(Len(new) - 1)
        PROVE  new[i] = old[IF i < d THEN i ELSE i + 1]
    <3> HIDE DEF new, all, e, m
    <3>1. CASE m = SceneCap
      <4>1. i \in 1..Len(new) /\ m + 1 - Len(new) + i = i + 1 /\ i + 1 \in 1..m /\ ~(i < d)
        BY <1>1, <2>8, <3>1
      <4>2. QED
        BY <2>2, <2>5, <4>1
    <3>2. CASE m # SceneCap
      <4>1. i \in 1..Len(new) /\ m + 1 - Len(new) + i = i /\ i \in 1..m /\ i < d
        BY <1>1, <2>8, <3>2
      <4>2. QED
        BY <2>2, <2>5, <4>1
    <3>3. QED
      BY <3>1, <3>2
  <2>10. Moved(old, new, c, d)
    <3>1. new[Len(new)].scene = c /\ new[Len(new)].count = 1
      <4> HIDE DEF new
      <4> QED  BY <2>7
    <3>2. d \in 1..(m + 1) /\ ((d = 1 /\ m = SceneCap) \/ (d = m + 1 /\ m < SceneCap))
      <4> HIDE DEF m
      <4> QED  BY <1>1
    <3> HIDE DEF new, d
    <3>3. QED
      BY <2>6, <2>8, <2>9, <3>1, <3>2 DEF Moved
  <2>11. Len(new) <= SceneCap
    <3> HIDE DEF new, m
    <3> QED  BY <1>1, <2>5
  <2>12. QED
    <3> HIDE DEF new, d
    <3>1. new \in KeptScenes
      BY <2>5, <2>11 DEF KeptScenes
    <3>2. \E x : Moved(old, new, c, x)
      BY <2>10
    <3>3. QED
      BY <3>1, <3>2 DEF new
<1>3. CASE places # {}
  <2> DEFINE d == CHOOSE i \in places : TRUE
             e == [scene |-> c, count |-> old[d].count + 1]
             rest == RemoveAt(old, d)
             all == Append(rest, e)
  <2>1. d \in 1..m /\ old[d].scene = c
    <3> HIDE DEF m
    <3>1. d \in places
      BY <1>3
    <3>2. QED
      BY <1>1, <3>1
  <2>2. e \in Entry
    <3>1. old[d] \in Entry
      <4> HIDE DEF d
      <4> QED  BY <1>1, <2>1
    <3>2. old[d].count + 1 \in Nat
      <4> HIDE DEF d
      <4> QED  BY <3>1 DEF Entry
    <3> HIDE DEF d
    <3>3. QED
      BY <3>2 DEF Entry
  <2>3. /\ rest \in Seq(Entry) /\ Len(rest) = m - 1
        /\ \A i \in 1..(m - 1) : rest[i] = old[IF i < d THEN i ELSE i + 1]
    <3> HIDE DEF d
    <3>1. QED
      BY <1>1, <2>1, RemovedAt
  <2>4. /\ all \in Seq(Entry) /\ Len(all) = m /\ all[m] = e
        /\ \A i \in 1..(m - 1) : all[i] = rest[i]
    <3> HIDE DEF e, rest
    <3>1. /\ Append(rest, e) \in Seq(Entry) /\ Len(Append(rest, e)) = Len(rest) + 1
          /\ Append(rest, e)[Len(rest) + 1] = e
          /\ \A i \in 1..Len(rest) : Append(rest, e)[i] = rest[i]
      BY <2>2, <2>3, OneMore
    <3>2. Len(rest) + 1 = m
      <4> HIDE DEF m
      <4> QED  BY <1>1, <2>3
    <3>3. QED
      BY <3>1, <3>2, <2>3
  <2>5. new = Latest(all)
    BY <1>3 DEF AddedScene
  <2>6. new = all
    <3> HIDE DEF all, new, m
    <3>1. ~(Len(all) > SceneCap)
      BY <1>1, <2>4
    <3>2. QED
      BY <2>5, <3>1 DEF Latest
  <2>7. Moved(old, new, c, d)
    <3>1. new[Len(new)].scene = c /\ new[Len(new)].count = old[d].count + 1 /\ Len(new) = m
      <4> HIDE DEF new, all, d, rest
      <4> QED  BY <2>4, <2>6
    <3>2. d \in 1..(m + 1) /\ d <= m
      <4> HIDE DEF m, d
      <4> QED  BY <1>1, <2>1
    <3>3. \A i \in 1..(Len(new) - 1) : new[i] = old[IF i < d THEN i ELSE i + 1]
      <4> HIDE DEF new, all, d, rest
      <4> QED  BY <2>3, <2>4, <2>6, <3>1
    <3> HIDE DEF new, d
    <3>4. QED
      BY <2>1, <3>1, <3>2, <3>3 DEF Moved
  <2>8. QED
    <3> HIDE DEF new, d, all
    <3>1. new \in KeptScenes
      BY <1>1, <2>4, <2>6 DEF KeptScenes
    <3>2. \E x : Moved(old, new, c, x)
      BY <2>7
    <3>3. QED
      BY <3>1, <3>2 DEF new
<1>4. QED
  BY <1>2, <1>3

(* The window of levels.                                                   *)
LEMMA LevelsMove ==
  ASSUME NEW old \in KeptLevels, NEW l \in Nat \ {0}
  PROVE  LET new == LastLevels(Append(old, l))
         IN  /\ new \in KeptLevels /\ Len(old) \in Nat /\ Window \in Nat \ {0}
             /\ Len(new) = IF Len(old) + 1 > Window THEN Window ELSE Len(old) + 1
             /\ new[Len(new)] = l
             /\ \A i \in 1..(Len(new) - 1) : new[i] = old[Len(old) + 1 - Len(new) + i]
<1> DEFINE k == Len(old)
           all == Append(old, l)
           new == LastLevels(all)
<1>1. old \in Seq(Nat \ {0}) /\ k \in Nat /\ k <= Window /\ Window \in Nat \ {0}
  BY LenProperties, ProfileAssumption DEF KeptLevels
<1>2. /\ all \in Seq(Nat \ {0}) /\ Len(all) = k + 1 /\ all[k + 1] = l
      /\ \A i \in 1..k : all[i] = old[i]
  BY <1>1, OneMore
<1>3. new = LastOf(all, Window)
  <2> HIDE DEF all
  <2> QED  BY DEF LastLevels, LastOf
<1>4. /\ new \in Seq(Nat \ {0})
      /\ Len(new) = IF k + 1 > Window THEN Window ELSE k + 1
      /\ \A i \in 1..Len(new) : new[i] = all[k + 1 - Len(new) + i]
  <2> HIDE DEF all, new, k
  <2>1. /\ new \in Seq(Nat \ {0})
        /\ Len(new) = IF Len(all) > Window THEN Window ELSE Len(all)
        /\ \A i \in 1..Len(new) : new[i] = all[Len(all) - Len(new) + i]
    BY <1>1, <1>2, <1>3, LastOnes
  <2>2. ASSUME NEW i \in 1..Len(new)
        PROVE  new[i] = all[k + 1 - Len(new) + i]
    <3>1. Len(all) - Len(new) + i = k + 1 - Len(new) + i
      <4>1. PICK a, b : a = Len(all) /\ b = Len(new)
        OBVIOUS
      <4>2. a = k + 1 /\ k \in Nat /\ b \in Nat /\ i \in Nat
        BY <1>1, <1>2, <2>1, <4>1
      <4>3. a - b + i = k + 1 - b + i
        BY ONLY <4>2
      <4>4. QED
        BY <4>1, <4>3
    <3>2. QED
      BY <2>1, <3>1
  <2>3. QED
    BY <1>2, <2>1, <2>2
<1>5. new \in KeptLevels
  <2> HIDE DEF new, k
  <2> QED  BY <1>1, <1>4 DEF KeptLevels
<1>6. new[Len(new)] = l
  <2> HIDE DEF new, k, all
  <2>1. Len(new) \in 1..Len(new) /\ k + 1 - Len(new) + Len(new) = k + 1
    BY <1>1, <1>4
  <2>2. QED
    BY <1>2, <1>4, <2>1
<1>7. ASSUME NEW i \in 1..(Len(new) - 1)
      PROVE  new[i] = old[k + 1 - Len(new) + i]
  <2> HIDE DEF new, k, all
  <2>1. i \in 1..Len(new) /\ k + 1 - Len(new) + i \in 1..k
    BY <1>1, <1>4
  <2>2. QED
    BY <1>2, <1>4, <2>1
<1>8. QED
  BY <1>1, <1>4, <1>5, <1>6, <1>7

(* What median_low returns is the lower median.                            *)
LEMMA MedianIsLow ==
  ASSUME NEW levels \in KeptLevels, levels # <<>>
  PROVE  IsLowMedian(MedianLow(levels), levels) /\ MedianLow(levels) \in Nat \ {0}
<1> DEFINE n == Len(levels)
           D == DOMAIN levels
           R == LowerFirst(levels)
           E == Enumerated(D, R)
           h == (n + 1) \div 2
           l == MedianLow(levels)
<1>1. n \in Nat \ {0} /\ D = 1..n /\ \A i \in D : levels[i] \in Nat \ {0}
  BY LenProperties, ElementOfSeq, EmptySeq DEF KeptLevels
<1>2. IsFiniteSet(D) /\ Cardinality(D) = n
  <2> HIDE DEF D, n
  <2>1. IsFiniteSet(1..n) /\ Cardinality(1..n) = IF 1 > n THEN 0 ELSE n - 1 + 1
    BY <1>1, FS_Interval
  <2>2. QED
    BY <1>1, <2>1
<1>3. Orders(R, D)
  <2>1. \A r, s \in D : <<r, s>> \in R <=> \/ levels[r] < levels[s]
                                           \/ levels[r] = levels[s] /\ r < s
    BY DEF LowerFirst
  <2> HIDE DEF R, D, n
  <2>2. D \subseteq Nat
    BY <1>1
  <2>3. QED
    BY <1>1, <2>1, <2>2 DEF Orders
<1>4. /\ E \in [1..n -> D]
      /\ \A s \in D : \E j \in 1..n : E[j] = s
      /\ \A j, k \in 1..n : j < k => <<E[j], E[k]>> \in R
  <2> HIDE DEF D, n, R
  <2>1. QED
    BY <1>2, <1>3, EnumeratedInOrder
<1>5. h \in 1..n /\ 2 * h >= n /\ 2 * h <= n + 1
  <2> HIDE DEF D, n, R, E
  <2> QED  BY <1>1
<1>6. l = levels[E[h]] /\ E[h] \in D
  BY <1>4, <1>5 DEF MedianLow
<1>7. \A j, k \in 1..n : j <= k => levels[E[j]] <= levels[E[k]]
  <2> SUFFICES ASSUME NEW j \in 1..n, NEW k \in 1..n, j <= k
               PROVE  levels[E[j]] <= levels[E[k]]
    OBVIOUS
  <2>1. levels[E[j]] \in Nat /\ levels[E[k]] \in Nat
    <3> HIDE DEF D, n, R, E
    <3> QED  BY <1>1, <1>4
  <2>2. CASE j = k
    BY <2>1, <2>2
  <2>3. CASE j < k
    <3>1. <<E[j], E[k]>> \in R
      <4> HIDE DEF D, n, R, E
      <4> QED  BY <1>4, <2>3
    <3>2. levels[E[j]] < levels[E[k]] \/ levels[E[j]] = levels[E[k]]
      <4> HIDE DEF E
      <4> QED  BY <3>1 DEF LowerFirst
    <3> HIDE DEF D, n, R, E
    <3>3. QED
      BY <2>1, <3>2
  <2>4. j = k \/ j < k
    <3> HIDE DEF D, n, R, E
    <3> QED  BY <1>1
  <2>5. QED
    BY <2>2, <2>3, <2>4
<1>8. \A j, k \in 1..n : j # k => E[j] # E[k]
  <2> HIDE DEF D, n, E
  <2>1. \A j, k \in 1..n : j < k => E[j] # E[k]
    BY <1>3, <1>4 DEF Orders
  <2>2. QED
    BY <1>1, <2>1
<1>9. l \in Nat \ {0}
  <2> HIDE DEF D, n, E, l
  <2> QED  BY <1>1, <1>6
<1> HIDE DEF h, l
<1>10. \A x : AtMost(levels, x) \subseteq D /\ IsFiniteSet(AtMost(levels, x))
  <2> SUFFICES ASSUME NEW x  PROVE AtMost(levels, x) \subseteq D /\ IsFiniteSet(AtMost(levels, x))
    OBVIOUS
  <2>1. AtMost(levels, x) \in SUBSET D
    BY DEF AtMost
  <2>2. QED
    <3> HIDE DEF D
    <3> QED  BY <1>2, <2>1, FS_Subset
<1>11. Cardinality(AtMost(levels, l)) >= h
  <2> DEFINE A == AtMost(levels, l)
             f == [j \in 1..h |-> E[j]]
  <2>1. ASSUME NEW j \in 1..h  PROVE j \in 1..n /\ E[j] \in A
    <3>1. j \in 1..n /\ j <= h
      <4> HIDE DEF n
      <4> QED  BY <1>1, <1>5
    <3>2. E[j] \in D /\ levels[E[j]] <= l
      <4> HIDE DEF D, n, E
      <4> QED  BY <1>4, <1>5, <1>6, <1>7, <3>1
    <3> HIDE DEF E
    <3>3. QED
      BY <3>1, <3>2 DEF AtMost
  <2>2. f \in Injection(1..h, A)
    <3> HIDE DEF A, E, n
    <3>1. f \in [1..h -> A]
      BY <2>1
    <3>2. \A j, k \in 1..h : f[j] = f[k] => j = k
      BY <1>8, <2>1
    <3> HIDE DEF f
    <3>3. QED
      BY <3>1, <3>2 DEF Injection, IsInjective
  <2>3. IsFiniteSet(1..h) /\ Cardinality(1..h) = h
    <3>1. IsFiniteSet(1..h) /\ Cardinality(1..h) = IF 1 > h THEN 0 ELSE h - 1 + 1
      BY <1>5, FS_Interval
    <3>2. QED
      BY <1>5, <3>1
  <2>4. Cardinality(1..h) <= Cardinality(A)
    <3> HIDE DEF f, A
    <3>1. IsFiniteSet(A)
      BY <1>10 DEF A
    <3>2. QED
      BY <2>2, <3>1, FS_Injection
  <2>5. Cardinality(A) \in Nat
    BY <1>10, FS_CardinalityType
  <2>6. QED
    <3> HIDE DEF A
    <3>1. Cardinality(A) >= h
      BY <1>5, <2>3, <2>4, <2>5
    <3>2. QED
      BY <3>1 DEF A
<1>12. Cardinality(AtMost(levels, l - 1)) <= h - 1
  <2> DEFINE B == AtMost(levels, l - 1)
             T == {E[j] : j \in 1..(h - 1)}
             f == [j \in 1..(h - 1) |-> E[j]]
  <2>1. B \in SUBSET T
    <3> SUFFICES ASSUME NEW i \in B  PROVE i \in T
      OBVIOUS
    <3>1. i \in D /\ levels[i] <= l - 1
      BY DEF AtMost
    <3>2. PICK j \in 1..n : E[j] = i
      <4> HIDE DEF D, n, E
      <4> QED  BY <1>4, <3>1
    <3>3. ~(h <= j)
      <4> SUFFICES ASSUME h <= j  PROVE FALSE
        OBVIOUS
      <4>1. levels[E[h]] <= levels[E[j]]
        <5> HIDE DEF n, E
        <5> QED  BY <1>5, <1>7
      <4>2. l <= levels[i]
        <5> HIDE DEF n, E
        <5> QED  BY <1>6, <3>2, <4>1
      <4>3. QED
        <5> HIDE DEF D, n, E
        <5> QED  BY <1>1, <1>9, <3>1, <4>2
    <3>4. j \in 1..(h - 1)
      <4> HIDE DEF n, E
      <4> QED  BY <1>1, <1>5, <3>3
    <3>5. QED
      <4> HIDE DEF E
      <4> QED  BY <3>2, <3>4
  <2>2. f \in Surjection(1..(h - 1), T)
    <3> HIDE DEF E
    <3> QED  BY DEF Surjection
  <2>3. IsFiniteSet(1..(h - 1)) /\ Cardinality(1..(h - 1)) = h - 1
    <3> HIDE DEF n
    <3>1. h - 1 \in Int /\ h \in Nat
      BY <1>1, <1>5
    <3>2. IsFiniteSet(1..(h - 1)) /\ Cardinality(1..(h - 1)) = IF 1 > h - 1 THEN 0 ELSE h - 1 - 1 + 1
      BY <3>1, FS_Interval
    <3>3. QED
      BY <1>5, <3>1, <3>2
  <2>4. IsFiniteSet(T) /\ Cardinality(T) <= h - 1
    <3> HIDE DEF f, T
    <3>1. IsFiniteSet(T) /\ Cardinality(T) <= Cardinality(1..(h - 1))
      BY <2>2, <2>3, FS_Surjection
    <3>2. QED
      BY <2>3, <3>1
  <2>5. Cardinality(B) <= Cardinality(T) /\ IsFiniteSet(B)
    <3> HIDE DEF B, T
    <3> QED  BY <2>1, <2>4, FS_Subset
  <2>6. Cardinality(B) \in Nat /\ Cardinality(T) \in Nat
    <3> HIDE DEF B, T
    <3> QED  BY <2>4, <2>5, FS_CardinalityType
  <2>7. QED
    <3> HIDE DEF B, T
    <3>1. Cardinality(B) <= h - 1
      BY <1>5, <2>4, <2>5, <2>6
    <3>2. QED
      BY <3>1 DEF B
<1>13. l \in Range(levels)
  <2> HIDE DEF E
  <2> QED  BY <1>6 DEF Range
<1>14. Cardinality(AtMost(levels, l)) \in Nat /\ Cardinality(AtMost(levels, l - 1)) \in Nat
  BY <1>10, FS_CardinalityType
<1>15. /\ 2 * Cardinality(AtMost(levels, l)) >= n
       /\ 2 * Cardinality(AtMost(levels, l - 1)) < n
  <2>1. PICK a, b : a = Cardinality(AtMost(levels, l)) /\ b = Cardinality(AtMost(levels, l - 1))
    OBVIOUS
  <2> HIDE DEF n
  <2>2. a \in Nat /\ b \in Nat /\ a >= h /\ b <= h - 1 /\ n \in Nat
    BY <1>1, <1>11, <1>12, <1>14, <2>1
  <2>3. 2 * a >= n /\ 2 * b < n
    BY <1>5, <2>2
  <2>4. QED
    BY <2>1, <2>3
<1>16. QED
  BY <1>9, <1>13, <1>15 DEF IsLowMedian, l

-----------------------------------------------------------------------------
(***************************************************************************)
(* The scenes in the order of their last turns.                            *)
(***************************************************************************)

(* The scenes since a scene are finitely many, and it is not one of them;  *)
(* since one of them there are fewer.                                      *)
LEMMA SinceFinite ==
  ASSUME NEW a, NEW signals, NEW n \in Nat
  PROVE  /\ IsFiniteSet(ScenesSince(a, signals, n)) /\ Cardinality(ScenesSince(a, signals, n)) \in Nat
         /\ a \notin ScenesSince(a, signals, n)
<1> DEFINE I == {i \in 1..n : \A j \in i..n : signals[j].scene # a}
           f == [i \in I |-> signals[i].scene]
           T == {signals[i].scene : i \in I}
<1>1. IsFiniteSet(1..n)
  BY FS_Interval
<1>2. IsFiniteSet(I)
  <2>1. I \in SUBSET (1..n)
    OBVIOUS
  <2> HIDE DEF I
  <2>2. QED
    BY <1>1, <2>1, FS_Subset
<1>3. f \in Surjection(I, T)
  <2> HIDE DEF I
  <2> QED  BY DEF Surjection
<1>4. IsFiniteSet(T)
  <2> HIDE DEF I, f, T
  <2> QED  BY <1>2, <1>3, FS_Surjection
<1>5. a \notin T
  OBVIOUS
<1>6. T = ScenesSince(a, signals, n)
  BY DEF ScenesSince
<1>7. QED
  <2> HIDE DEF T
  <2> QED  BY <1>4, <1>5, <1>6, FS_CardinalityType

LEMMA SinceIs ==
  ASSUME NEW a, NEW b, NEW signals, NEW n
  PROVE  b \in ScenesSince(a, signals, n) <=>
           \E i \in 1..n : signals[i].scene = b /\ \A j \in i..n : signals[j].scene # a
BY DEF ScenesSince

LEMMA SinceFewer ==
  ASSUME NEW a, NEW signals, NEW n \in Nat, NEW b \in ScenesSince(a, signals, n)
  PROVE  /\ ScenesSince(b, signals, n) \subseteq ScenesSince(a, signals, n)
         /\ Cardinality(ScenesSince(b, signals, n)) < Cardinality(ScenesSince(a, signals, n))
<1> DEFINE A == ScenesSince(a, signals, n)
           B == ScenesSince(b, signals, n)
<1>1. PICK i \in 1..n : signals[i].scene = b /\ \A j \in i..n : signals[j].scene # a
  BY SinceIs
<1>2. ASSUME NEW e \in B  PROVE e \in A
  <2>1. PICK k \in 1..n : signals[k].scene = e /\ \A j \in k..n : signals[j].scene # b
    BY SinceIs
  <2>2. ~(k <= i)
    BY <1>1, <2>1
  <2>3. \A j \in k..n : j \in i..n
    BY <2>2
  <2>4. \A j \in k..n : signals[j].scene # a
    BY <1>1, <2>3
  <2> HIDE DEF A, B
  <2>5. QED
    BY <2>1, <2>4, SinceIs DEF A
<1>3. IsFiniteSet(A) /\ Cardinality(A) \in Nat /\ Cardinality(B) \in Nat /\ b \notin B /\ b \in A
  BY SinceFinite
<1> HIDE DEF A, B
<1>4. B \in SUBSET A /\ B # A
  BY <1>2, <1>3
<1>5. Cardinality(B) <= Cardinality(A) /\ Cardinality(B) # Cardinality(A)
  BY <1>3, <1>4, FS_Subset
<1>6. QED
  BY <1>2, <1>3, <1>5 DEF A, B

(* The names of the signals, and of one more.                              *)
LEMMA NamesOfMore ==
  ASSUME NEW signals \in Seq(Signals), NEW s \in Signals
  PROVE  /\ Len(signals) \in Nat /\ Append(signals, s) \in Seq(Signals)
         /\ Len(Append(signals, s)) = Len(signals) + 1
         /\ \A i \in 1..Len(signals) : signals[i] \in Signals /\ Append(signals, s)[i] = signals[i]
         /\ Append(signals, s)[Len(signals) + 1] = s
         /\ DOMAIN signals = 1..Len(signals)
         /\ DOMAIN Append(signals, s) = 1..(Len(signals) + 1)
         /\ ScenesOf(Append(signals, s)) = ScenesOf(signals) \cup {s.scene}
<1>1. /\ Len(signals) \in Nat /\ Append(signals, s) \in Seq(Signals)
      /\ Len(Append(signals, s)) = Len(signals) + 1
      /\ \A i \in 1..Len(signals) : signals[i] \in Signals /\ Append(signals, s)[i] = signals[i]
      /\ Append(signals, s)[Len(signals) + 1] = s
      /\ DOMAIN signals = 1..Len(signals)
      /\ DOMAIN Append(signals, s) = 1..(Len(signals) + 1)
  BY OneMore
<1> DEFINE x == Append(signals, s)
           n == Len(signals)
<1>2. ASSUME NEW a \in ScenesOf(x)  PROVE a \in ScenesOf(signals) \cup {s.scene}
  <2>1. PICK i \in DOMAIN x : x[i].scene = a
    BY DEF ScenesOf
  <2> HIDE DEF x
  <2>2. i = n + 1 \/ i \in DOMAIN signals
    BY <1>1, <2>1 DEF x
  <2>3. QED
    BY <1>1, <2>1, <2>2 DEF ScenesOf, x
<1>3. ASSUME NEW a \in ScenesOf(signals) \cup {s.scene}  PROVE a \in ScenesOf(x)
  <2>1. CASE a = s.scene
    <3>1. n + 1 \in DOMAIN x /\ x[n + 1].scene = a
      BY <1>1, <2>1
    <3> HIDE DEF x, n
    <3>2. QED
      BY <3>1 DEF ScenesOf
  <2>2. CASE a \in ScenesOf(signals)
    <3>1. PICK i \in DOMAIN signals : signals[i].scene = a
      BY <2>2 DEF ScenesOf
    <3>2. i \in DOMAIN x /\ x[i].scene = a
      BY <1>1, <3>1
    <3> HIDE DEF x
    <3>3. QED
      BY <3>2 DEF ScenesOf
  <2>3. QED
    BY <2>1, <2>2
<1>4. QED
  BY <1>1, <1>2, <1>3

(* What one more signal does to the scenes since a scene.                  *)
LEMMA SinceGrows ==
  ASSUME NEW signals \in Seq(Signals), NEW s \in Signals
  PROVE  /\ \A a : \A k \in 0..Len(signals) :
              ScenesSince(a, Append(signals, s), k) = ScenesSince(a, signals, k)
         /\ ScenesSince(s.scene, Append(signals, s), Len(signals) + 1) = {}
         /\ \A a : a # s.scene => ScenesSince(a, Append(signals, s), Len(signals) + 1) =
                                    ScenesSince(a, signals, Len(signals)) \cup {s.scene}
<1> DEFINE x == Append(signals, s)
           n == Len(signals)
<1>1. /\ n \in Nat /\ x[n + 1] = s
      /\ \A i \in 1..n : x[i] = signals[i]
  BY NamesOfMore
<1> HIDE DEF x, n
<1>2. ASSUME NEW a, NEW k \in 0..n
      PROVE  ScenesSince(a, x, k) = ScenesSince(a, signals, k)
  <2>1. \A i \in 1..k : x[i] = signals[i]
    BY <1>1
  <2>2. ASSUME NEW b
        PROVE  b \in ScenesSince(a, x, k) <=> b \in ScenesSince(a, signals, k)
    <3>1. \A i \in 1..k : \A j \in i..k : j \in 1..k
      BY <1>1
    <3>2. (\E i \in 1..k : x[i].scene = b /\ \A j \in i..k : x[j].scene # a) <=>
          (\E i \in 1..k : signals[i].scene = b /\ \A j \in i..k : signals[j].scene # a)
      BY <2>1, <3>1
    <3>3. QED
      BY <3>2, SinceIs
  <2>3. QED
    BY <2>2
<1>3. ScenesSince(s.scene, x, n + 1) = {}
  <2> SUFFICES ASSUME NEW b \in ScenesSince(s.scene, x, n + 1)  PROVE FALSE
    OBVIOUS
  <2>1. PICK i \in 1..(n + 1) : \A j \in i..(n + 1) : x[j].scene # s.scene
    BY SinceIs
  <2>2. n + 1 \in i..(n + 1)
    BY <1>1
  <2>3. QED
    BY <1>1, <2>1, <2>2
<1>4. ASSUME NEW a, a # s.scene
      PROVE  ScenesSince(a, x, n + 1) = ScenesSince(a, signals, n) \cup {s.scene}
  <2>1. ASSUME NEW b \in ScenesSince(a, x, n + 1)
        PROVE  b \in ScenesSince(a, signals, n) \cup {s.scene}
    <3>1. PICK i \in 1..(n + 1) : x[i].scene = b /\ \A j \in i..(n + 1) : x[j].scene # a
      BY SinceIs
    <3>2. CASE i = n + 1
      BY <1>1, <3>1, <3>2
    <3>3. CASE i # n + 1
      <4>1. i \in 1..n /\ \A j \in i..n : j \in 1..n /\ j \in i..(n + 1)
        BY <1>1, <3>3
      <4>2. signals[i].scene = b /\ \A j \in i..n : signals[j].scene # a
        BY <1>1, <3>1, <4>1
      <4>3. QED
        BY <4>1, <4>2, SinceIs
    <3>4. QED
      BY <3>2, <3>3
  <2>2. ASSUME NEW b \in ScenesSince(a, signals, n)
        PROVE  b \in ScenesSince(a, x, n + 1)
    <3>1. PICK i \in 1..n : signals[i].scene = b /\ \A j \in i..n : signals[j].scene # a
      BY SinceIs
    <3>2. i \in 1..(n + 1) /\ \A j \in i..(n + 1) : j = n + 1 \/ (j \in 1..n /\ j \in i..n)
      BY <1>1
    <3>3. x[i].scene = b /\ \A j \in i..(n + 1) : x[j].scene # a
      BY <1>1, <1>4, <3>1, <3>2
    <3>4. QED
      BY <3>2, <3>3, SinceIs
  <2>3. s.scene \in ScenesSince(a, x, n + 1)
    <3>1. n + 1 \in 1..(n + 1) /\ \A j \in (n + 1)..(n + 1) : j = n + 1
      BY <1>1
    <3>2. x[n + 1].scene = s.scene /\ \A j \in (n + 1)..(n + 1) : x[j].scene # a
      BY <1>1, <1>4, <3>1
    <3>3. QED
      BY <3>1, <3>2, SinceIs
  <2>4. QED
    BY <2>1, <2>2, <2>3
<1>5. QED
  BY <1>2, <1>3, <1>4 DEF x, n

(* A list in the order of the signals, of the recent scenes.               *)
ListTold(scenes, signals) ==
  /\ {scenes[i].scene : i \in DOMAIN scenes} =
       {scene \in ScenesOf(signals) : IsRecent(scene, signals, Len(signals))}
  /\ \A i, j \in DOMAIN scenes :
       i < j => scenes[j].scene \in ScenesSince(scenes[i].scene, signals, Len(signals))

LEMMA ScenesSinceListed ==
  ASSUME NEW scenes \in Seq(Entry), NEW signals \in Seq(Signals), ListTold(scenes, signals),
         NEW i \in 1..Len(scenes)
  PROVE  /\ \A j \in 1..Len(scenes) : scenes[i].scene = scenes[j].scene => i = j
         /\ Cardinality(ScenesSince(scenes[i].scene, signals, Len(signals))) = Len(scenes) - i
<1> DEFINE m == Len(scenes)
           n == Len(signals)
           l(j) == scenes[j].scene
           S(a) == ScenesSince(a, signals, n)
           T == S(l(i))
           f == [j \in (i + 1)..m |-> l(j)]
<1>1. m \in Nat /\ DOMAIN scenes = 1..m /\ n \in Nat /\ i \in 1..m
  BY LenProperties
<1>2. SceneCap \in Nat
  BY ProfileAssumption
<1>3. ASSUME NEW j \in 1..m, NEW k \in 1..m, j < k  PROVE l(k) \in S(l(j)) /\ l(k) # l(j)
  <2>1. l(k) \in S(l(j))
    BY <1>1, <1>3 DEF ListTold
  <2>2. l(j) \notin S(l(j))
    BY <1>1, SinceFinite
  <2>3. QED
    BY <2>1, <2>2
<1>4. \A j \in 1..m : l(i) = l(j) => i = j
  <2> HIDE DEF m, l, S
  <2> QED  BY <1>1, <1>3
<1>5. \A a : (\E j \in 1..m : l(j) = a) <=> a \in ScenesOf(signals) /\ Cardinality(S(a)) < SceneCap
  <2>1. \A a : a \in {scenes[j].scene : j \in DOMAIN scenes} <=> a \in ScenesOf(signals) /\ IsRecent(a, signals, n)
    BY DEF ListTold
  <2>2. QED
    BY <1>1, <2>1 DEF IsRecent
<1>6. ASSUME NEW b \in T  PROVE \E j \in (i + 1)..m : l(j) = b
  <2>1. b \in ScenesOf(signals)
    <3>1. PICK k \in 1..n : signals[k].scene = b
      BY SinceIs
    <3>2. k \in DOMAIN signals
      BY LenProperties
    <3>3. QED
      BY <3>1, <3>2 DEF ScenesOf
  <2>2. Cardinality(S(b)) < Cardinality(T) /\ S(b) \subseteq T
    BY <1>1, SinceFewer
  <2>3. Cardinality(T) < SceneCap
    <3> HIDE DEF S
    <3> QED  BY <1>1, <1>5
  <2>4. Cardinality(S(b)) \in Nat /\ Cardinality(T) \in Nat /\ l(i) \notin T
    BY <1>1, SinceFinite
  <2> HIDE DEF S, T
  <2>5. Cardinality(S(b)) < SceneCap
    BY <1>2, <2>2, <2>3, <2>4
  <2>6. PICK j \in 1..m : l(j) = b
    BY <1>5, <2>1, <2>5
  <2>7. ~(j <= i)
    <3>1. j # i
      BY <2>4, <2>6
    <3>2. ~(j < i)
      <4> SUFFICES ASSUME j < i  PROVE FALSE
        OBVIOUS
      <4>1. l(i) \in S(b)
        <5> HIDE DEF m, l
        <5> QED  BY <1>1, <1>3, <2>6
      <4>2. QED
        BY <2>2, <2>4, <4>1
    <3>3. QED
      BY <1>1, <3>1, <3>2
  <2>8. QED
    <3>1. j \in (i + 1)..m
      BY <1>1, <2>7
    <3>2. QED
      BY <2>6, <3>1
<1>7. f \in Surjection((i + 1)..m, T)
  <2>1. \A j \in (i + 1)..m : l(j) \in T
    <3> SUFFICES ASSUME NEW j \in (i + 1)..m  PROVE l(j) \in T
      OBVIOUS
    <3>1. j \in 1..m /\ i < j
      <4> HIDE DEF m
      <4> QED  BY <1>1
    <3> HIDE DEF m, l, S
    <3>2. QED
      BY <1>1, <1>3, <3>1
  <2> HIDE DEF m, l, T
  <2>2. QED
    BY <1>6, <2>1 DEF Surjection
<1>8. f \in Injection((i + 1)..m, T)
  <2>1. \A j, k \in (i + 1)..m : j # k => l(j) # l(k)
    <3> SUFFICES ASSUME NEW j \in (i + 1)..m, NEW k \in (i + 1)..m, j # k  PROVE l(j) # l(k)
      OBVIOUS
    <3>1. j \in 1..m /\ k \in 1..m /\ (j < k \/ k < j)
      <4> HIDE DEF m, l
      <4> QED  BY <1>1
    <3> HIDE DEF m, l, S
    <3>2. QED
      BY <1>3, <3>1
  <2>2. f \in [(i + 1)..m -> T]
    <3> HIDE DEF f, T
    <3> QED  BY <1>7 DEF Surjection
  <2> HIDE DEF m, l, T
  <2>3. \A j, k \in (i + 1)..m : f[j] = f[k] => j = k
    BY <2>1
  <2>4. QED
    <3> HIDE DEF f
    <3> QED  BY <2>2, <2>3 DEF Injection, IsInjective
<1>9. IsFiniteSet((i + 1)..m) /\ Cardinality((i + 1)..m) = m - i
  <2> HIDE DEF m
  <2>1. i + 1 \in Int /\ m \in Int
    BY <1>1
  <2>2. IsFiniteSet((i + 1)..m) /\ Cardinality((i + 1)..m) = IF i + 1 > m THEN 0 ELSE m - (i + 1) + 1
    BY <2>1, FS_Interval
  <2>3. QED
    BY <1>1, <2>2
<1>10. Cardinality(T) = m - i
  <2> HIDE DEF f, T, m
  <2> QED  BY <1>7, <1>8, <1>9, FS_Surjection
<1>11. QED
  BY <1>4, <1>10

(* What one more signal does to the turns of a scene that count.           *)
LEMMA KeptTurnsGrow ==
  ASSUME NEW signals \in Seq(Signals), NEW s \in Signals
  PROVE  /\ \A a : IsFiniteSet(TurnsSinceKept(a, signals)) /\ Cardinality(TurnsSinceKept(a, signals)) \in Nat
         /\ Cardinality(TurnsSinceKept(s.scene, Append(signals, s))) =
              Cardinality(TurnsSinceKept(s.scene, signals)) + 1
         /\ \A a : a # s.scene /\ IsRecent(a, Append(signals, s), Len(signals) + 1) =>
              TurnsSinceKept(a, Append(signals, s)) = TurnsSinceKept(a, signals)
         /\ \A a : ~(a \in ScenesOf(signals) /\ IsRecent(a, signals, Len(signals))) =>
              Cardinality(TurnsSinceKept(a, signals)) = 0
<1> DEFINE x == Append(signals, s)
           n == Len(signals)
           c == s.scene
<1>1. /\ n \in Nat /\ Len(x) = n + 1 /\ x[n + 1] = s
      /\ \A i \in 1..n : x[i] = signals[i]
      /\ DOMAIN signals = 1..n /\ DOMAIN x = 1..(n + 1)
  BY NamesOfMore
<1>2. /\ \A a : \A k \in 0..n : ScenesSince(a, x, k) = ScenesSince(a, signals, k)
      /\ ScenesSince(c, x, n + 1) = {}
  BY SinceGrows
<1> HIDE DEF x, n, c
<1>3. \A a : \A k \in 1..n : IsRecent(a, x, k) <=> IsRecent(a, signals, k)
  BY <1>1, <1>2 DEF IsRecent
<1>4. IsRecent(c, x, n + 1)
  <2>1. Cardinality({}) = 0
    BY FS_EmptySet
  <2>2. 0 < SceneCap
    BY ProfileAssumption
  <2>3. Cardinality(ScenesSince(c, x, n + 1)) < SceneCap
    BY <1>2, <2>1, <2>2
  <2>4. QED
    BY <2>3 DEF IsRecent
<1>5. \A a, i : i \in TurnsSinceKept(a, signals) <=>
        i \in 1..n /\ signals[i].scene = a /\ \A k \in i..n : IsRecent(a, signals, k)
  BY <1>1 DEF TurnsSinceKept, n
<1>6. \A a, i : i \in TurnsSinceKept(a, x) <=>
        i \in 1..(n + 1) /\ x[i].scene = a /\ \A k \in i..(n + 1) : IsRecent(a, x, k)
  <2>1. \A a : TurnsSinceKept(a, x) = {i \in 1..(n + 1) : x[i].scene = a /\ \A k \in i..(n + 1) : IsRecent(a, x, k)}
    BY <1>1 DEF TurnsSinceKept
  <2>2. QED
    BY <2>1
<1>7. ASSUME NEW a
      PROVE  IsFiniteSet(TurnsSinceKept(a, signals)) /\ Cardinality(TurnsSinceKept(a, signals)) \in Nat
  <2>1. TurnsSinceKept(a, signals) \in SUBSET (1..n)
    BY <1>5
  <2>2. IsFiniteSet(1..n)
    BY <1>1, FS_Interval
  <2>3. IsFiniteSet(TurnsSinceKept(a, signals))
    BY <2>1, <2>2, FS_Subset
  <2>4. QED
    BY <2>3, FS_CardinalityType
<1>8. ASSUME NEW a, NEW i \in 1..n
      PROVE  i \in TurnsSinceKept(a, x) <=> i \in TurnsSinceKept(a, signals) /\ IsRecent(a, x, n + 1)
  <2>1. \A k : k \in i..(n + 1) <=> k = n + 1 \/ (k \in i..n /\ k \in 1..n)
    BY <1>1
  <2>2. \A k : k \in i..n <=> k \in i..n /\ k \in 1..n
    BY <1>1
  <2>3. (\A k \in i..(n + 1) : IsRecent(a, x, k)) <=>
          (\A k \in i..n : IsRecent(a, signals, k)) /\ IsRecent(a, x, n + 1)
    BY <1>3, <2>1, <2>2
  <2>4. i \in 1..(n + 1) /\ x[i] = signals[i]
    BY <1>1
  <2>5. QED
    BY <1>5, <1>6, <2>3, <2>4
<1>9. TurnsSinceKept(c, x) = TurnsSinceKept(c, signals) \cup {n + 1} /\ n + 1 \notin TurnsSinceKept(c, signals)
  <2>1. n + 1 \notin 1..n /\ (\A i : i \in 1..(n + 1) <=> i = n + 1 \/ i \in 1..n)
    BY <1>1
  <2>2. n + 1 \in TurnsSinceKept(c, x)
    <3>1. \A k \in (n + 1)..(n + 1) : k = n + 1
      BY <1>1
    <3>2. x[n + 1].scene = c
      BY <1>1 DEF c
    <3>3. QED
      BY <1>4, <1>6, <2>1, <3>1, <3>2
  <2>3. ASSUME NEW i  PROVE i \in TurnsSinceKept(c, x) <=> i \in TurnsSinceKept(c, signals) \/ i = n + 1
    <3>1. CASE i \in 1..n
      BY <1>4, <1>8, <2>1, <3>1
    <3>2. CASE i \notin 1..n
      BY <1>5, <1>6, <2>1, <2>2, <3>2
    <3>3. QED
      BY <3>1, <3>2
  <2>4. n + 1 \notin TurnsSinceKept(c, signals)
    BY <1>5, <2>1
  <2>5. QED
    BY <2>3, <2>4
<1>10. Cardinality(TurnsSinceKept(c, x)) = Cardinality(TurnsSinceKept(c, signals)) + 1
  BY <1>7, <1>9, FS_AddElement
<1>11. ASSUME NEW a, a # c, IsRecent(a, x, n + 1)
       PROVE  TurnsSinceKept(a, x) = TurnsSinceKept(a, signals)
  <2>1. \A i : i \in 1..(n + 1) <=> i = n + 1 \/ i \in 1..n
    BY <1>1
  <2>2. x[n + 1].scene # a
    BY <1>1, <1>11 DEF c
  <2>3. ASSUME NEW i  PROVE i \in TurnsSinceKept(a, x) <=> i \in TurnsSinceKept(a, signals)
    <3>1. CASE i \in 1..n
      BY <1>8, <1>11, <3>1
    <3>2. CASE i \notin 1..n
      BY <1>5, <1>6, <2>1, <2>2, <3>2
    <3>3. QED
      BY <3>1, <3>2
  <2>4. QED
    BY <2>3
<1>12. ASSUME NEW a, ~(a \in ScenesOf(signals) /\ IsRecent(a, signals, n))
       PROVE  Cardinality(TurnsSinceKept(a, signals)) = 0
  <2>1. ASSUME NEW i \in TurnsSinceKept(a, signals)  PROVE FALSE
    <3>1. i \in 1..n /\ signals[i].scene = a /\ n \in i..n /\ \A k \in i..n : IsRecent(a, signals, k)
      BY <1>1, <1>5
    <3>2. a \in ScenesOf(signals) /\ IsRecent(a, signals, n)
      BY <1>1, <3>1 DEF ScenesOf
    <3>3. QED
      BY <1>12, <3>2
  <2>2. TurnsSinceKept(a, signals) = {}
    BY <2>1
  <2>3. QED
    BY <2>2, FS_EmptySet
<1>13. QED
  BY <1>7, <1>10, <1>11, <1>12 DEF x, n, c

(* The scenes are told on after one more signal, and have changed.         *)
LEMMA ScenesToldOn ==
  ASSUME NEW scenes \in KeptScenes, NEW signals \in Seq(Signals), NEW s \in Signals,
         ScenesTold(scenes, signals)
  PROVE  /\ ScenesTold(AddedScene(scenes, s.scene), Append(signals, s))
         /\ Range(AddedScene(scenes, s.scene)) # Range(scenes)
<1> DEFINE x == Append(signals, s)
           n == Len(signals)
           c == s.scene
           m == Len(scenes)
           new == AddedScene(scenes, c)
           q == Len(new)
           S(a) == ScenesSince(a, signals, n)
           Since(a) == ScenesSince(a, x, n + 1)
           l(j) == scenes[j].scene
<1>1. /\ scenes \in Seq(Entry) /\ m \in Nat /\ m <= SceneCap /\ DOMAIN scenes = 1..m
      /\ \A i \in 1..m : scenes[i] \in Entry
      /\ SceneCap \in Nat \ {0} /\ n \in Nat /\ Len(x) = n + 1
  BY LenProperties, ElementOfSeq, ProfileAssumption, NamesOfMore DEF KeptScenes
<1>2. c \in Names
  BY DEF Names
<1>3. new \in KeptScenes /\ \E d : Moved(scenes, new, c, d)
  BY <1>2, SceneMoves
<1>4. PICK d : Moved(scenes, new, c, d)
  BY <1>3
<1> DEFINE at(i) == IF i < d THEN i ELSE i + 1
<1>5. DOMAIN new = 1..q /\ q \in Nat
  <2> HIDE DEF new
  <2> QED  BY <1>3, LenProperties DEF KeptScenes
<1> HIDE DEF new
<1>6. /\ d \in 1..(m + 1) /\ q = IF d <= m THEN m ELSE m + 1
      /\ \A i \in 1..(q - 1) : new[i] = scenes[at(i)]
      /\ new[q].scene = c
  BY <1>4 DEF Moved
<1>7. \/ d <= m /\ l(d) = c /\ new[q].count = scenes[d].count + 1
      \/ /\ \A i \in 1..m : l(i) # c
         /\ new[q].count = 1
         /\ \/ d = 1 /\ m = SceneCap
            \/ d = m + 1 /\ m < SceneCap
  BY <1>4 DEF Moved
<1>8. ListTold(scenes, signals) /\ \A i \in 1..m : scenes[i].count = Cardinality(TurnsSinceKept(l(i), signals))
  BY <1>1 DEF ScenesTold, ListTold
<1>9. \A i \in 1..m : /\ \A j \in 1..m : l(i) = l(j) => i = j
                      /\ Cardinality(S(l(i))) = m - i
  BY <1>1, <1>8, ScenesSinceListed
<1>10. \A a : (\E j \in 1..m : l(j) = a) <=> a \in ScenesOf(signals) /\ Cardinality(S(a)) < SceneCap
  <2>1. \A a : a \in {scenes[j].scene : j \in DOMAIN scenes} <=> a \in ScenesOf(signals) /\ IsRecent(a, signals, n)
    BY <1>8 DEF ListTold
  <2>2. QED
    BY <1>1, <2>1 DEF IsRecent
<1>11. \A i, j \in 1..m : i < j => l(j) \in S(l(i))
  BY <1>1, <1>8 DEF ListTold
<1>12. \A a : IsFiniteSet(S(a)) /\ Cardinality(S(a)) \in Nat /\ a \notin S(a)
  BY <1>1, SinceFinite
<1>13. Since(c) = {} /\ \A a : a # c => Since(a) = S(a) \cup {c}
  BY SinceGrows
<1>14. ScenesOf(x) = ScenesOf(signals) \cup {c}
  BY NamesOfMore
<1> HIDE DEF x, n, m, q, S, Since, l, c
<1>15. \A a : a # c => /\ Cardinality(Since(a)) \in Nat
                       /\ Cardinality(S(a)) <= Cardinality(Since(a))
                       /\ Cardinality(Since(a)) <= Cardinality(S(a)) + 1
                       /\ c \in S(a) => Cardinality(Since(a)) = Cardinality(S(a))
                       /\ c \notin S(a) => Cardinality(Since(a)) = Cardinality(S(a)) + 1
  <2> SUFFICES ASSUME NEW a, a # c
      PROVE  /\ Cardinality(Since(a)) \in Nat
             /\ Cardinality(S(a)) <= Cardinality(Since(a))
             /\ Cardinality(Since(a)) <= Cardinality(S(a)) + 1
             /\ c \in S(a) => Cardinality(Since(a)) = Cardinality(S(a))
             /\ c \notin S(a) => Cardinality(Since(a)) = Cardinality(S(a)) + 1
    OBVIOUS
  <2>1. Since(a) = S(a) \cup {c}
    BY <1>13
  <2>2. Cardinality(S(a) \cup {c}) = IF c \in S(a) THEN Cardinality(S(a)) ELSE Cardinality(S(a)) + 1
    BY <1>12, FS_AddElement
  <2>3. Cardinality(S(a)) \in Nat
    BY <1>12
  <2>4. QED
    BY <2>1, <2>2, <2>3
<1>16. \A j \in 1..m : j # d => l(j) # c
  BY <1>1, <1>6, <1>7, <1>9
<1>17. q \in Nat \ {0} /\ \A i \in 1..(q - 1) : at(i) \in 1..m /\ at(i) # d
  BY <1>1, <1>6
<1>18. \A i, k \in 1..(q - 1) : i < k => at(i) < at(k)
  BY <1>1, <1>6
<1>19. \A j \in 1..m : j # d => \E i \in 1..(q - 1) : at(i) = j
  <2> SUFFICES ASSUME NEW j \in 1..m, j # d  PROVE \E i \in 1..(q - 1) : at(i) = j
    OBVIOUS
  <2>1. CASE j < d
    <3>1. j \in 1..(q - 1) /\ at(j) = j
      BY <1>1, <1>6, <2>1
    <3>2. QED
      BY <3>1
  <2>2. CASE ~(j < d)
    <3>1. j - 1 \in 1..(q - 1) /\ at(j - 1) = j
      BY <1>1, <1>6, <2>2
    <3>2. QED
      BY <3>1
  <2>3. QED
    BY <2>1, <2>2
<1>20. \A i \in 1..(q - 1) : new[i].scene = l(at(i)) /\ new[i].count = scenes[at(i)].count
  BY <1>6 DEF l
<1> HIDE DEF at
<1>21. \A i \in 1..q : i = q \/ i \in 1..(q - 1)
  BY <1>17
<1>22. ASSUME \A i \in 1..m : l(i) # c, NEW a, a # c, Cardinality(S(a)) < SceneCap
       PROVE  c \notin S(a)
  <2> SUFFICES ASSUME c \in S(a)  PROVE FALSE
    OBVIOUS
  <2>1. Cardinality(S(c)) < Cardinality(S(a))
    BY <1>1, SinceFewer DEF S
  <2>2. Cardinality(S(c)) < SceneCap
    BY <1>1, <1>12, <1>22, <2>1
  <2>3. c \in ScenesOf(signals)
    <3>1. PICK k \in 1..n : signals[k].scene = c
      BY SinceIs DEF S
    <3>2. k \in DOMAIN signals
      BY LenProperties DEF n
    <3>3. QED
      BY <3>1, <3>2 DEF ScenesOf
  <2>4. QED
    BY <1>10, <1>22, <2>2, <2>3
<1>23. \A i \in 1..(q - 1) : Cardinality(Since(l(at(i)))) < SceneCap
  <2> SUFFICES ASSUME NEW i \in 1..(q - 1)  PROVE Cardinality(Since(l(at(i)))) < SceneCap
    OBVIOUS
  <2>1. PICK j \in 1..m : j = at(i) /\ j # d
    BY <1>17
  <2>2. l(j) # c /\ Cardinality(S(l(j))) = m - j
    BY <1>9, <1>16, <2>1
  <2>3. /\ Cardinality(Since(l(j))) \in Nat /\ Cardinality(Since(l(j))) <= m - j + 1
        /\ c \in S(l(j)) => Cardinality(Since(l(j))) = m - j
    BY <1>15, <2>2
  <2>4. PICK b : b = Cardinality(Since(l(j)))
    OBVIOUS
  <2>5. b < SceneCap
    <3>1. CASE d <= m /\ l(d) = c
      <4>1. CASE j < d
        <5>1. d \in 1..m
          BY <1>1, <1>6, <3>1
        <5>2. c \in S(l(j))
          BY <1>11, <3>1, <4>1, <5>1
        <5>3. b = m - j
          BY <2>3, <2>4, <5>2
        <5>4. QED
          BY <1>1, <5>3
      <4>2. CASE ~(j < d)
        <5>1. b \in Nat /\ b <= m - j + 1 /\ j > d /\ d >= 1
          BY <1>1, <1>6, <2>1, <2>3, <2>4, <4>2
        <5>2. QED
          BY <1>1, <1>6, <5>1
      <4>3. QED
        BY <4>1, <4>2
    <3>2. CASE ~(d <= m /\ l(d) = c)
      <4>1. (d = 1 /\ m = SceneCap) \/ (d = m + 1 /\ m < SceneCap)
        BY <1>7, <3>2
      <4>2. b \in Nat /\ b <= m - j + 1
        BY <2>3, <2>4
      <4>3. QED
        BY <1>1, <2>1, <4>1, <4>2
    <3>3. QED
      BY <3>1, <3>2
  <2>6. QED
    BY <2>1, <2>4, <2>5
<1>24. ASSUME NEW a
       PROVE  (\E i \in 1..q : new[i].scene = a) <=> a \in ScenesOf(x) /\ Cardinality(Since(a)) < SceneCap
  <2>1. CASE a = c
    <3>1. q \in 1..q /\ Cardinality(Since(a)) < SceneCap
      <4>1. Cardinality({}) = 0
        BY FS_EmptySet
      <4>2. 0 < SceneCap /\ q \in 1..q
        BY <1>1, <1>17
      <4>3. Cardinality(Since(a)) = 0
        BY <1>13, <2>1, <4>1
      <4>4. QED
        BY <4>2, <4>3
    <3>2. QED
      BY <1>6, <1>14, <2>1, <3>1
  <2>2. CASE a # c
    <3>1. ASSUME NEW i \in 1..q, new[i].scene = a
          PROVE  a \in ScenesOf(x) /\ Cardinality(Since(a)) < SceneCap
      <4>1. i \in 1..(q - 1)
        BY <1>6, <1>21, <2>2, <3>1
      <4>2. at(i) \in 1..m /\ l(at(i)) = a
        BY <1>17, <1>20, <3>1, <4>1
      <4>3. a \in ScenesOf(signals)
        BY <1>10, <4>2
      <4>4. QED
        BY <1>14, <1>23, <4>1, <4>2, <4>3
    <3>2. ASSUME a \in ScenesOf(x), Cardinality(Since(a)) < SceneCap
          PROVE  \E i \in 1..q : new[i].scene = a
      <4>1. a \in ScenesOf(signals)
        BY <1>14, <2>2, <3>2
      <4>2. Cardinality(S(a)) < SceneCap
        BY <1>1, <1>12, <1>15, <2>2, <3>2
      <4>3. PICK j \in 1..m : l(j) = a
        BY <1>10, <4>1, <4>2
      <4>4. j # d
        <5> SUFFICES ASSUME j = d  PROVE FALSE
          OBVIOUS
        <5>1. /\ \A i \in 1..m : l(i) # c
              /\ d = 1 /\ m = SceneCap
          BY <1>1, <1>7, <2>2, <4>3
        <5>2. c \notin S(a)
          BY <1>22, <2>2, <4>2, <5>1
        <5>3. Cardinality(Since(a)) = Cardinality(S(a)) + 1 /\ Cardinality(S(a)) = m - 1
          BY <1>9, <1>15, <2>2, <4>3, <5>1, <5>2
        <5>4. QED
          BY <1>1, <3>2, <5>1, <5>3
      <4>5. PICK i \in 1..(q - 1) : at(i) = j
        BY <1>19, <4>4
      <4>6. i \in 1..q /\ new[i].scene = a
        BY <1>17, <1>20, <4>3, <4>5
      <4>7. QED
        BY <4>6
    <3>3. QED
      BY <3>1, <3>2
  <2>3. QED
    BY <2>1, <2>2
<1>25. {new[i].scene : i \in DOMAIN new} = {a \in ScenesOf(x) : IsRecent(a, x, Len(x))}
  <2>1. ASSUME NEW a  PROVE IsRecent(a, x, Len(x)) <=> Cardinality(Since(a)) < SceneCap
    BY <1>1 DEF IsRecent, Since
  <2>2. QED
    BY <1>5, <1>24, <2>1
<1>26. ASSUME NEW i \in DOMAIN new, NEW k \in DOMAIN new, i < k
       PROVE  new[k].scene \in ScenesSince(new[i].scene, x, Len(x))
  <2>1. i \in 1..(q - 1) /\ at(i) \in 1..m /\ at(i) # d /\ new[i].scene = l(at(i))
    <3>1. i \in 1..(q - 1)
      BY <1>5, <1>26
    <3>2. QED
      BY <1>17, <1>20, <3>1
  <2>2. PICK a : a = l(at(i)) /\ a # c
    BY <1>16, <2>1
  <2>3. Since(a) = S(a) \cup {c}
    BY <1>13, <2>2
  <2>4. new[k].scene \in Since(a)
    <3>1. CASE k = q
      BY <1>6, <2>3, <3>1
    <3>2. CASE k # q
      <4>1. k \in 1..(q - 1) /\ at(k) \in 1..m /\ new[k].scene = l(at(k)) /\ at(i) < at(k)
        <5>1. k \in 1..(q - 1)
          BY <1>5, <1>21, <3>2
        <5>2. QED
          BY <1>17, <1>18, <1>20, <1>26, <2>1, <5>1
      <4>2. new[k].scene \in S(a)
        BY <1>11, <2>1, <2>2, <4>1
      <4>3. QED
        BY <2>3, <4>2
    <3>3. QED
      BY <3>1, <3>2
  <2>5. QED
    BY <1>1, <2>1, <2>2, <2>4 DEF Since
<1>27. /\ \A a : Cardinality(TurnsSinceKept(a, signals)) \in Nat
       /\ Cardinality(TurnsSinceKept(c, x)) = Cardinality(TurnsSinceKept(c, signals)) + 1
       /\ \A a : a # c /\ IsRecent(a, x, n + 1) => TurnsSinceKept(a, x) = TurnsSinceKept(a, signals)
       /\ \A a : ~(a \in ScenesOf(signals) /\ IsRecent(a, signals, n)) =>
            Cardinality(TurnsSinceKept(a, signals)) = 0
  BY KeptTurnsGrow DEF x, n, c
<1>28. ASSUME NEW i \in DOMAIN new
       PROVE  new[i].count = Cardinality(TurnsSinceKept(new[i].scene, x))
  <2>1. CASE i = q
    <3>1. CASE d <= m /\ l(d) = c /\ new[q].count = scenes[d].count + 1
      <4>1. d \in 1..m
        BY <1>1, <1>6, <3>1
      <4>2. scenes[d].count = Cardinality(TurnsSinceKept(c, signals))
        BY <1>8, <3>1, <4>1
      <4>3. QED
        BY <1>6, <1>27, <2>1, <3>1, <4>2
    <3>2. CASE (\A j \in 1..m : l(j) # c) /\ new[q].count = 1
      <4>1. ~(c \in ScenesOf(signals) /\ IsRecent(c, signals, n))
        <5>1. IsRecent(c, signals, n) <=> Cardinality(S(c)) < SceneCap
          BY DEF IsRecent, S
        <5>2. QED
          BY <1>10, <3>2, <5>1
      <4>2. QED
        BY <1>6, <1>27, <2>1, <3>2, <4>1
    <3>3. QED
      BY <1>7, <3>1, <3>2
  <2>2. CASE i # q
    <3>1. i \in 1..(q - 1)
      BY <1>5, <1>21, <2>2
    <3>2. PICK j \in 1..m : j = at(i) /\ j # d
      BY <1>17, <3>1
    <3>3. new[i].scene = l(j) /\ new[i].count = Cardinality(TurnsSinceKept(l(j), signals)) /\ l(j) # c
      BY <1>8, <1>16, <1>20, <3>1, <3>2
    <3>4. IsRecent(l(j), x, n + 1)
      BY <1>23, <3>1, <3>2 DEF IsRecent, Since
    <3>5. QED
      BY <1>27, <3>3, <3>4
  <2>3. QED
    BY <2>1, <2>2
<1>29. ScenesTold(new, x)
  BY <1>25, <1>26, <1>28 DEF ScenesTold
<1>30. Range(new) # Range(scenes)
  <2> SUFFICES ASSUME Range(new) = Range(scenes)  PROVE FALSE
    OBVIOUS
  <2>1. new[q] \in Range(scenes)
    <3>1. q \in DOMAIN new
      BY <1>5, <1>17
    <3>2. new[q] \in Range(new)
      BY <3>1 DEF Range
    <3>3. QED
      BY <3>2
  <2>2. PICK j \in 1..m : scenes[j] = new[q]
    BY <1>1, <2>1 DEF Range
  <2>3. l(j) = c
    BY <1>6, <2>2 DEF l
  <2>4. j = d /\ new[q].count = scenes[d].count + 1
    BY <1>7, <1>16, <2>3
  <2>5. scenes[d].count \in Nat
    BY <1>1, <2>4 DEF Entry
  <2>6. QED
    BY <2>2, <2>4, <2>5
<1>31. QED
  BY <1>29, <1>30 DEF x, c, new

-----------------------------------------------------------------------------
(***************************************************************************)
(* The errors.                                                             *)
(***************************************************************************)

(* The errors of one more signal.                                          *)
LEMMA OccurrencesAre ==
  ASSUME NEW s \in Signals, NEW c
  PROVE  /\ IsFiniteSet({j \in DOMAIN s.errors : s.errors[j] = c})
         /\ Occurrences(c, s.errors) \in Nat
         /\ Occurrences(c, s.errors) = 0 <=> c \notin Range(s.errors)
<1> DEFINE J == {j \in DOMAIN s.errors : s.errors[j] = c}
<1>1. IsFiniteSet(DOMAIN s.errors)
  BY ProfileAssumption
<1>2. J \in SUBSET DOMAIN s.errors
  OBVIOUS
<1>3. J = {} <=> c \notin Range(s.errors)
  BY DEF Range
<1>4. Occurrences(c, s.errors) = Cardinality(J)
  BY DEF Occurrences
<1> HIDE DEF J
<1>5. IsFiniteSet(J)
  BY <1>1, <1>2, FS_Subset
<1>6. Cardinality(J) \in Nat /\ (Cardinality(J) = 0 <=> J = {})
  BY <1>5, FS_CardinalityType, FS_EmptySet
<1>7. QED
  BY <1>3, <1>4, <1>5, <1>6 DEF J

LEMMA ErrorsFinite ==
  ASSUME NEW signals \in Seq(Signals), NEW c
  PROVE  IsFiniteSet(ErrorsOf(c, signals)) /\ Cardinality(ErrorsOf(c, signals)) \in Nat
<1> DEFINE D == DOMAIN signals
           P(i) == {i} \X {j \in DOMAIN signals[i].errors : signals[i].errors[j] = c}
           U == {P(i) : i \in D}
           f == [i \in D |-> P(i)]
<1>1. D = 1..Len(signals) /\ Len(signals) \in Nat /\ \A i \in D : signals[i] \in Signals
  BY LenProperties, ElementOfSeq
<1>2. IsFiniteSet(D)
  <2> HIDE DEF D
  <2>1. IsFiniteSet(1..Len(signals))
    BY <1>1, FS_Interval
  <2>2. QED
    BY <1>1, <2>1
<1>3. \A i \in D : IsFiniteSet(P(i))
  <2> SUFFICES ASSUME NEW i \in D  PROVE IsFiniteSet(P(i))
    OBVIOUS
  <2> DEFINE J == {j \in DOMAIN signals[i].errors : signals[i].errors[j] = c}
  <2>1. IsFiniteSet(J)
    BY <1>1, OccurrencesAre
  <2> HIDE DEF J
  <2>2. IsFiniteSet({i})
    BY FS_Singleton
  <2>3. IsFiniteSet({i} \X J)
    BY <2>1, <2>2, FS_Product
  <2>4. QED
    BY <2>3 DEF J
<1>4. IsFiniteSet(U)
  <2>1. f \in Surjection(D, U)
    <3> HIDE DEF D, P
    <3> QED  BY DEF Surjection
  <2> HIDE DEF f, U, D
  <2>2. QED
    BY <1>2, <2>1, FS_Surjection
<1>5. \A T \in U : IsFiniteSet(T)
  <2> HIDE DEF P, D
  <2> QED  BY <1>3
<1>6. ErrorsOf(c, signals) = UNION U
  BY DEF ErrorsOf
<1>7. QED
  <2> HIDE DEF U
  <2>1. IsFiniteSet(UNION U)
    BY <1>4, <1>5, FS_UNION
  <2>2. QED
    BY <1>6, <2>1, FS_CardinalityType

LEMMA ErrorsGrow ==
  ASSUME NEW signals \in Seq(Signals), NEW s \in Signals, NEW c
  PROVE  Cardinality(ErrorsOf(c, Append(signals, s))) =
           Cardinality(ErrorsOf(c, signals)) + Occurrences(c, s.errors)
<1> DEFINE x == Append(signals, s)
           n == Len(signals)
           J == {j \in DOMAIN s.errors : s.errors[j] = c}
           K == {n + 1} \X J
           E == ErrorsOf(c, signals)
           P(y, i) == {i} \X {j \in DOMAIN y[i].errors : y[i].errors[j] = c}
<1>1. /\ n \in Nat /\ x[n + 1] = s
      /\ \A i \in 1..n : x[i] = signals[i]
      /\ DOMAIN signals = 1..n /\ DOMAIN x = 1..(n + 1)
  BY NamesOfMore
<1>2. \A y, p : p \in ErrorsOf(c, y) <=> \E i \in DOMAIN y : p \in P(y, i)
  BY DEF ErrorsOf
<1>3. (\A i \in 1..n : P(x, i) = P(signals, i)) /\ P(x, n + 1) = K
  <2> HIDE DEF x, n
  <2> QED  BY <1>1
<1>4. ErrorsOf(c, x) = E \cup K
  <2> HIDE DEF x, n, P, K
  <2>1. \A i : i \in 1..(n + 1) <=> i = n + 1 \/ i \in 1..n
    BY <1>1
  <2>2. QED
    BY <1>1, <1>2, <1>3, <2>1
<1>5. E \cap K = {}
  <2> SUFFICES ASSUME NEW p \in E, p \in K  PROVE FALSE
    OBVIOUS
  <2>1. PICK i \in 1..n : p \in P(signals, i)
    BY <1>1, <1>2
  <2>2. p[1] = i /\ p[1] = n + 1
    BY <2>1
  <2> HIDE DEF n
  <2>3. QED
    BY <1>1, <2>1, <2>2
<1>6. IsFiniteSet(J) /\ Cardinality(J) = Occurrences(c, s.errors) /\ Cardinality(J) \in Nat
  BY OccurrencesAre DEF Occurrences
<1>7. IsFiniteSet(K) /\ Cardinality(K) = Cardinality(J)
  <2> HIDE DEF J, n
  <2>1. IsFiniteSet({n + 1}) /\ Cardinality({n + 1}) = 1
    BY FS_Singleton
  <2>2. IsFiniteSet(K) /\ Cardinality(K) = Cardinality({n + 1}) * Cardinality(J)
    BY <1>6, <2>1, FS_Product
  <2>3. QED
    BY <1>6, <2>1, <2>2
<1>8. IsFiniteSet(E) /\ Cardinality(E) \in Nat
  BY ErrorsFinite
<1> HIDE DEF x, n, E, J, K
<1>9. Cardinality(E \cup K) = Cardinality(E) + Cardinality(K) - Cardinality(E \cap K)
  BY <1>7, <1>8, FS_Union
<1>10. Cardinality(E \cap K) = 0
  BY <1>5, FS_EmptySet
<1>11. QED
  <2>1. PICK a, b : a = Cardinality(E) /\ b = Cardinality(K)
    OBVIOUS
  <2>2. a \in Nat /\ b \in Nat /\ Cardinality(E \cup K) = a + b - 0
    BY <1>6, <1>7, <1>8, <1>9, <1>10, <2>1
  <2>3. Cardinality(E \cup K) = a + b
    BY <2>2
  <2>4. QED
    BY <1>4, <1>6, <1>7, <2>1, <2>3 DEF x, E

LEMMA ErrorsTyped ==
  ASSUME NEW errors \in Counts, NEW s \in Signals
  PROVE  /\ AddedErrors(errors, s) \in Counts
         /\ DOMAIN AddedErrors(errors, s) = DOMAIN errors \cup (Range(s.errors) \cap Categories)
         /\ \A c \in DOMAIN AddedErrors(errors, s) : AddedErrors(errors, s)[c] =
              (IF c \in DOMAIN errors THEN errors[c] ELSE 0) + Occurrences(c, s.errors)
         /\ DOMAIN errors \subseteq Categories
         /\ \A c \in DOMAIN errors : errors[c] \in Nat
<1>1. PICK C \in SUBSET Categories : errors \in [C -> Nat]
  BY DEF Counts
<1> DEFINE D == DOMAIN errors \cup (Range(s.errors) \cap Categories)
           v(c) == (IF c \in DOMAIN errors THEN errors[c] ELSE 0) + Occurrences(c, s.errors)
           new == [c \in D |-> v(c)]
<1>2. AddedErrors(errors, s) = new
  BY DEF AddedErrors
<1>3. D \in SUBSET Categories
  BY <1>1
<1>4. \A c \in D : v(c) \in Nat
  <2> SUFFICES ASSUME NEW c \in D  PROVE v(c) \in Nat
    OBVIOUS
  <2>1. PICK a : a = IF c \in DOMAIN errors THEN errors[c] ELSE 0
    OBVIOUS
  <2>2. PICK b : b = Occurrences(c, s.errors)
    OBVIOUS
  <2>3. a \in Nat
    BY <1>1, <2>1
  <2>4. b \in Nat
    BY <2>2, OccurrencesAre
  <2>5. a + b \in Nat
    BY ONLY <2>3, <2>4
  <2>6. QED
    BY <2>1, <2>2, <2>5
<1>5. new \in [D -> Nat]
  <2> HIDE DEF D, v
  <2> QED  BY <1>4
<1>6. new \in Counts
  <2> HIDE DEF new, D
  <2> QED  BY <1>3, <1>5 DEF Counts
<1>7. DOMAIN new = D /\ \A c \in DOMAIN new : new[c] = v(c)
  OBVIOUS
<1> HIDE DEF new
<1>8. QED
  BY <1>1, <1>2, <1>6, <1>7

LEMMA ErrorsToldOn ==
  ASSUME NEW errors \in Counts, NEW signals \in Seq(Signals), NEW s \in Signals,
         ErrorsTold(errors, signals)
  PROVE  ErrorsTold(AddedErrors(errors, s), Append(signals, s))
<1> DEFINE x == Append(signals, s)
           K(c) == Cardinality(ErrorsOf(c, signals))
           L(c) == Cardinality(ErrorsOf(c, x))
           o(c) == Occurrences(c, s.errors)
           R == Range(s.errors)
           old == {c \in Categories : ErrorsOf(c, signals) # {}}
           all == {c \in Categories : ErrorsOf(c, x) # {}}
           new == AddedErrors(errors, s)
<1>1. \A c : K(c) \in Nat /\ L(c) \in Nat /\ o(c) \in Nat /\ L(c) = K(c) + o(c) /\ (o(c) = 0 <=> c \notin R)
  <2> SUFFICES ASSUME NEW c
               PROVE  /\ K(c) \in Nat /\ L(c) \in Nat /\ o(c) \in Nat
                      /\ L(c) = K(c) + o(c) /\ (o(c) = 0 <=> c \notin R)
    OBVIOUS
  <2>1. x \in Seq(Signals)
    BY NamesOfMore
  <2>2. L(c) \in Nat
    <3> HIDE DEF x
    <3> QED  BY <2>1, ErrorsFinite
  <2>3. K(c) \in Nat
    BY ErrorsFinite
  <2>4. L(c) = K(c) + o(c)
    BY ErrorsGrow
  <2>5. QED
    BY <2>2, <2>3, <2>4, OccurrencesAre
<1>2. \A c : (K(c) = 0 <=> ErrorsOf(c, signals) = {}) /\ (L(c) = 0 <=> ErrorsOf(c, x) = {})
  <2> SUFFICES ASSUME NEW c
               PROVE  (K(c) = 0 <=> ErrorsOf(c, signals) = {}) /\ (L(c) = 0 <=> ErrorsOf(c, x) = {})
    OBVIOUS
  <2>1. IsFiniteSet(ErrorsOf(c, signals)) /\ IsFiniteSet(ErrorsOf(c, x))
    BY NamesOfMore, ErrorsFinite
  <2>2. QED
    BY <2>1, FS_EmptySet
<1>3. DOMAIN errors = old /\ \A c \in old : errors[c] = K(c)
  <2>1. errors = [c \in old |-> K(c)]
    BY DEF ErrorsTold
  <2> HIDE DEF old, K
  <2>2. QED
    BY <2>1
<1>4. /\ DOMAIN new = DOMAIN errors \cup (R \cap Categories)
      /\ \A c \in DOMAIN new : new[c] = (IF c \in DOMAIN errors THEN errors[c] ELSE 0) + o(c)
      /\ \E C : new \in [C -> Nat]
  <2>1. new \in Counts
    BY ErrorsTyped
  <2>2. \E C : new \in [C -> Nat]
    <3> HIDE DEF new
    <3> QED  BY <2>1 DEF Counts
  <2>3. QED
    BY <2>2, ErrorsTyped
<1>5. DOMAIN new = all
  <2>1. \A c : c \in old <=> c \in Categories /\ K(c) # 0
    BY <1>2
  <2>2. \A c : c \in all <=> c \in Categories /\ L(c) # 0
    BY <1>2
  <2>3. \A c : L(c) # 0 <=> K(c) # 0 \/ o(c) # 0
    <3> HIDE DEF L, K, o
    <3> QED  BY <1>1
  <2> HIDE DEF L, K, o, old, all, new, R
  <2>4. QED
    BY <1>1, <1>3, <1>4, <2>1, <2>2, <2>3
<1>6. \A c \in all : new[c] = L(c)
  <2> SUFFICES ASSUME NEW c \in all  PROVE new[c] = L(c)
    OBVIOUS
  <2>1. c \in Categories
    OBVIOUS
  <2>2. new[c] = (IF c \in DOMAIN errors THEN errors[c] ELSE 0) + o(c)
    <3> HIDE DEF new, all, o
    <3> QED  BY <1>4, <1>5
  <2>3. CASE c \in old
    <3> HIDE DEF new, all, o, K, L, old
    <3> QED  BY <1>1, <1>3, <2>2, <2>3
  <2>4. CASE c \notin old
    <3>1. K(c) = 0
      BY <1>2, <2>1, <2>4
    <3> HIDE DEF new, all, o, K, L, old
    <3> QED  BY <1>1, <1>3, <2>2, <2>4, <3>1
  <2>5. QED
    BY <2>3, <2>4
<1>7. new = [c \in all |-> L(c)]
  <2> HIDE DEF new, all, L
  <2> QED  BY <1>4, <1>5, <1>6
<1>8. QED
  <2> HIDE DEF new
  <2>1. ErrorsTold(new, x)
    BY <1>7 DEF ErrorsTold
  <2>2. QED
    BY <2>1 DEF new

-----------------------------------------------------------------------------
(***************************************************************************)
(* The levels; and the whole profile after one more turn.                  *)
(***************************************************************************)

(* The turns of a set that come after one.                                 *)
After(i, turns) == {j \in turns : j > i}

LEMMA TurnsWithLevelGrow ==
  ASSUME NEW signals \in Seq(Signals), NEW s \in Signals
  PROVE  /\ TurnsWithLevel(signals) \subseteq 1..Len(signals)
         /\ IsFiniteSet(TurnsWithLevel(signals)) /\ Cardinality(TurnsWithLevel(signals)) \in Nat
         /\ s.level = 0 => TurnsWithLevel(Append(signals, s)) = TurnsWithLevel(signals)
         /\ s.level # 0 => TurnsWithLevel(Append(signals, s)) = TurnsWithLevel(signals) \cup {Len(signals) + 1}
<1> DEFINE x == Append(signals, s)
           n == Len(signals)
<1>1. /\ n \in Nat /\ x[n + 1] = s
      /\ \A i \in 1..n : x[i] = signals[i]
      /\ DOMAIN signals = 1..n /\ DOMAIN x = 1..(n + 1)
  BY NamesOfMore
<1> HIDE DEF x, n
<1>2. \A i : i \in 1..(n + 1) <=> i = n + 1 \/ i \in 1..n
  BY <1>1
<1>3. /\ \A i : i \in TurnsWithLevel(signals) <=> i \in 1..n /\ signals[i].level # 0
      /\ \A i : i \in TurnsWithLevel(x) <=> i \in 1..(n + 1) /\ x[i].level # 0
  BY <1>1 DEF TurnsWithLevel
<1>4. n + 1 \notin 1..n
  BY <1>1
<1>5. TurnsWithLevel(signals) \in SUBSET (1..n)
  BY <1>3
<1>6. IsFiniteSet(1..n)
  BY <1>1, FS_Interval
<1>7. IsFiniteSet(TurnsWithLevel(signals)) /\ Cardinality(TurnsWithLevel(signals)) \in Nat
  BY <1>5, <1>6, FS_Subset, FS_CardinalityType
<1>8. s.level = 0 => TurnsWithLevel(x) = TurnsWithLevel(signals)
  BY <1>1, <1>2, <1>3, <1>4
<1>9. s.level # 0 => TurnsWithLevel(x) = TurnsWithLevel(signals) \cup {n + 1}
  BY <1>1, <1>2, <1>3, <1>4
<1>10. QED
  BY <1>5, <1>7, <1>8, <1>9 DEF x, n

LEMMA LevelsToldOn ==
  ASSUME NEW levels \in KeptLevels, NEW signals \in Seq(Signals), NEW s \in Signals,
         LevelsTold(levels, signals)
  PROVE  /\ s.level = 0 => LevelsTold(levels, Append(signals, s))
         /\ s.level # 0 => LevelsTold(LastLevels(Append(levels, s.level)), Append(signals, s))
<1> DEFINE x == Append(signals, s)
           n == Len(signals)
           T == TurnsWithLevel(signals)
           k == Len(levels)
           new == LastLevels(Append(levels, s.level))
           q == Len(new)
<1>1. /\ n \in Nat /\ x[n + 1] = s /\ \A i \in 1..n : x[i] = signals[i]
  BY NamesOfMore
<1>2. /\ T \subseteq 1..n /\ IsFiniteSet(T) /\ Cardinality(T) \in Nat
      /\ s.level = 0 => TurnsWithLevel(x) = T
      /\ s.level # 0 => TurnsWithLevel(x) = T \cup {n + 1}
  BY TurnsWithLevelGrow
<1>3. /\ k = IF Cardinality(T) < Window THEN Cardinality(T) ELSE Window
      /\ \A i \in T : Cardinality(After(i, T)) < k => levels[k - Cardinality(After(i, T))] = signals[i].level
  BY DEF LevelsTold, After
<1>4. s.level \in Nat
  BY ProfileAssumption
<1> HIDE DEF x, n, T, k, new, q
<1>5. CASE s.level = 0
  <2>1. TurnsWithLevel(x) = T /\ \A i \in T : x[i] = signals[i]
    BY <1>1, <1>2, <1>5
  <2>2. LevelsTold(levels, x)
    BY <1>3, <2>1 DEF LevelsTold, After, k
  <2>3. QED
    BY <1>5, <2>2 DEF x
<1>6. CASE s.level # 0
  <2>1. /\ k \in Nat /\ Window \in Nat \ {0}
        /\ q = IF k + 1 > Window THEN Window ELSE k + 1
        /\ new[q] = s.level
        /\ \A i \in 1..(q - 1) : new[i] = levels[k + 1 - q + i]
    <3>1. s.level \in Nat \ {0}
      BY <1>4, <1>6
    <3>2. QED
      BY <3>1, LevelsMove DEF new, q, k
  <2>2. TurnsWithLevel(x) = T \cup {n + 1} /\ n + 1 \notin T
    BY <1>1, <1>2, <1>6
  <2>3. Cardinality(TurnsWithLevel(x)) = Cardinality(T) + 1
    BY <1>2, <2>2, FS_AddElement
  <2>4. q = IF Cardinality(T) + 1 < Window THEN Cardinality(T) + 1 ELSE Window
    <3>1. PICK t : t = Cardinality(T)
      OBVIOUS
    <3>2. t \in Nat /\ k = IF t < Window THEN t ELSE Window
      BY <1>2, <1>3, <3>1
    <3>3. q = IF t + 1 < Window THEN t + 1 ELSE Window
      BY <2>1, <3>2
    <3>4. QED
      BY <3>1, <3>3
  <2>5. After(n + 1, TurnsWithLevel(x)) = {} /\ Cardinality({}) = 0
    <3>1. \A j \in T \cup {n + 1} : ~(j > n + 1)
      <4>1. \A j \in 1..n : ~(j > n + 1)
        BY <1>1
      <4>2. ~(n + 1 > n + 1)
        BY <1>1
      <4>3. QED
        BY <1>2, <4>1, <4>2
    <3>2. QED
      BY <2>2, <3>1, FS_EmptySet DEF After
  <2>6. ASSUME NEW i \in T
        PROVE  /\ Cardinality(After(i, T)) \in Nat
               /\ Cardinality(After(i, TurnsWithLevel(x))) = Cardinality(After(i, T)) + 1
    <3>1. n + 1 > i
      BY <1>1, <1>2
    <3>2. After(i, TurnsWithLevel(x)) = After(i, T) \cup {n + 1} /\ n + 1 \notin After(i, T)
      BY <2>2, <3>1 DEF After
    <3>3. After(i, T) \in SUBSET T
      BY DEF After
    <3>4. IsFiniteSet(After(i, T))
      BY <1>2, <3>3, FS_Subset
    <3>5. Cardinality(After(i, T)) \in Nat
      BY <3>4, FS_CardinalityType
    <3>6. QED
      BY <3>2, <3>4, <3>5, FS_AddElement
  <2>7. ASSUME NEW i \in TurnsWithLevel(x),
               Cardinality(After(i, TurnsWithLevel(x))) < q
        PROVE  new[q - Cardinality(After(i, TurnsWithLevel(x)))] = x[i].level
    <3>1. CASE i = n + 1
      <4>1. q - 0 = q
        BY <2>1
      <4>2. Cardinality(After(i, TurnsWithLevel(x))) = 0
        BY <2>5, <3>1
      <4>3. QED
        BY <1>1, <2>1, <3>1, <4>1, <4>2
    <3>2. CASE i # n + 1
      <4>1. i \in T /\ x[i] = signals[i]
        BY <1>1, <1>2, <2>2, <3>2
      <4>2. PICK r : r = Cardinality(After(i, T))
        OBVIOUS
      <4>3. r \in Nat /\ Cardinality(After(i, TurnsWithLevel(x))) = r + 1
        BY <2>6, <4>1, <4>2
      <4>4. r + 1 < q
        BY <2>7, <4>3
      <4>5. /\ r < k /\ q - (r + 1) \in 1..(q - 1)
            /\ k + 1 - q + (q - (r + 1)) = k - r
        BY <2>1, <4>3, <4>4
      <4>6. new[q - (r + 1)] = levels[k - r]
        BY <2>1, <4>5
      <4>7. levels[k - r] = signals[i].level
        BY <1>3, <4>1, <4>2, <4>5
      <4>8. QED
        BY <4>1, <4>3, <4>6, <4>7
    <3>3. QED
      BY <3>1, <3>2
  <2>8. LevelsTold(new, x)
    BY <2>3, <2>4, <2>7 DEF LevelsTold, After, q
  <2>9. QED
    BY <1>6, <2>8 DEF new, x
<1>7. QED
  BY <1>5, <1>6

(* A profile with one more turn.                                           *)
LEMMA ApplyTurnTyped ==
  ASSUME NEW p \in Profiles, NEW s \in Signals
  PROVE  /\ ApplyTurn(p, s) \in Profiles
         /\ s.level # 0 => /\ ApplyTurn(p, s).levels # <<>>
                           /\ ApplyTurn(p, s).levels \in KeptLevels
                           /\ ApplyTurn(p, s).levels = LastLevels(Append(p.levels, s.level))
                           /\ ApplyTurn(p, s).estimate = MedianLow(ApplyTurn(p, s).levels)
         /\ s.level = 0 => ApplyTurn(p, s).levels = p.levels /\ ApplyTurn(p, s).estimate = p.estimate
         /\ ApplyTurn(p, s).practised = p.practised + 1
         /\ ApplyTurn(p, s).scenes = AddedScene(p.scenes, s.scene)
         /\ ApplyTurn(p, s).errors = AddedErrors(p.errors, s)
<1> DEFINE new == IF s.level = 0 THEN p.levels ELSE LastLevels(Append(p.levels, s.level))
           est == IF s.level = 0 THEN p.estimate ELSE MedianLow(new)
<1>1. /\ p.practised \in Nat /\ p.scenes \in KeptScenes /\ p.errors \in Counts
      /\ p.levels \in KeptLevels /\ p.estimate \in Nat
  BY DEF Profiles
<1>2. ApplyTurn(p, s) = [practised |-> p.practised + 1, scenes |-> AddedScene(p.scenes, s.scene),
                         errors |-> AddedErrors(p.errors, s), levels |-> new, estimate |-> est]
  BY DEF ApplyTurn
<1>3. s.level \in Nat /\ s.scene \in Names
  BY ProfileAssumption DEF Names
<1>4. AddedScene(p.scenes, s.scene) \in KeptScenes
  BY <1>1, <1>3, SceneMoves
<1>5. AddedErrors(p.errors, s) \in Counts
  BY <1>1, ErrorsTyped
<1>6. s.level # 0 => new \in KeptLevels /\ new # <<>>
  <2> SUFFICES ASSUME s.level # 0  PROVE new \in KeptLevels /\ new # <<>>
    OBVIOUS
  <2>1. new = LastLevels(Append(p.levels, s.level))
    OBVIOUS
  <2> HIDE DEF new
  <2>2. /\ new \in KeptLevels /\ Len(p.levels) \in Nat /\ Window \in Nat \ {0}
        /\ Len(new) = IF Len(p.levels) + 1 > Window THEN Window ELSE Len(p.levels) + 1
    <3>1. s.level \in Nat \ {0}
      BY <1>3
    <3>2. QED
      BY <1>1, <2>1, <3>1, LevelsMove
  <2>3. Len(new) # 0
    BY <2>2
  <2>4. QED
    BY <2>2, <2>3, EmptySeq
<1>7. new \in KeptLevels
  <2>1. CASE s.level = 0
    BY <1>1, <2>1
  <2>2. QED
    BY <1>6, <2>1
<1>8. est \in Nat
  <2>1. CASE s.level = 0
    BY <1>1, <2>1
  <2>2. CASE s.level # 0
    <3>1. est = MedianLow(new)
      BY <2>2
    <3> HIDE DEF new
    <3>2. QED
      BY <1>6, <2>2, <3>1, MedianIsLow
  <2>3. QED
    BY <2>1, <2>2
<1> HIDE DEF new, est
<1>9. ApplyTurn(p, s) \in Profiles
  <2>1. p.practised + 1 \in Nat
    BY <1>1
  <2>2. QED
    BY <1>2, <1>4, <1>5, <1>7, <1>8, <2>1 DEF Profiles
<1>10. QED
  BY <1>2, <1>6, <1>9 DEF new, est

LEMMA TellsOn ==
  ASSUME NEW p \in Profiles, NEW signals \in Seq(Signals), NEW s \in Signals, Tells(p, signals)
  PROVE  /\ Tells(ApplyTurn(p, s), Append(signals, s))
         /\ Range(ApplyTurn(p, s).scenes) # Range(p.scenes)
<1> DEFINE new == ApplyTurn(p, s)
           x == Append(signals, s)
<1>1. /\ p.practised \in Nat /\ p.scenes \in KeptScenes /\ p.errors \in Counts
      /\ p.levels \in KeptLevels /\ p.estimate \in Nat
  BY DEF Profiles
<1>2. /\ p.practised = Len(signals) /\ ScenesTold(p.scenes, signals) /\ ErrorsTold(p.errors, signals)
      /\ LevelsTold(p.levels, signals) /\ EstimateTold(p.estimate, p.levels)
  BY DEF Tells
<1>3. new.practised = Len(x)
  BY <1>2, ApplyTurnTyped, NamesOfMore
<1>4. ScenesTold(new.scenes, x) /\ Range(new.scenes) # Range(p.scenes)
  BY <1>1, <1>2, ApplyTurnTyped, ScenesToldOn
<1>5. ErrorsTold(new.errors, x)
  BY <1>1, <1>2, ApplyTurnTyped, ErrorsToldOn
<1>6. LevelsTold(new.levels, x)
  BY <1>1, <1>2, ApplyTurnTyped, LevelsToldOn
<1>7. EstimateTold(new.estimate, new.levels)
  <2>1. CASE s.level = 0
    BY <1>2, <2>1, ApplyTurnTyped
  <2>2. CASE s.level # 0
    <3>1. new.levels # <<>> /\ new.levels \in KeptLevels /\ new.estimate = MedianLow(new.levels)
      BY <2>2, ApplyTurnTyped
    <3>2. PICK l, e : l = new.levels /\ e = new.estimate
      OBVIOUS
    <3>3. EstimateTold(e, l)
      BY <3>1, <3>2, MedianIsLow DEF EstimateTold
    <3>4. QED
      BY <3>2, <3>3
  <2>3. QED
    BY <2>1, <2>2
<1> HIDE DEF new, x
<1>8. Tells(new, x)
  BY <1>3, <1>4, <1>5, <1>6, <1>7 DEF Tells
<1>9. QED
  BY <1>4, <1>8 DEF new, x

-----------------------------------------------------------------------------
(***************************************************************************)
(* That nothing is made up.                                                *)
(***************************************************************************)

(* More was said by the signals y than by x.                               *)
Bigger(x, y) ==
  /\ Len(x) <= Len(y)
  /\ \A c : Cardinality(ErrorsOf(c, x)) <= Cardinality(ErrorsOf(c, y))
  /\ LevelsOf(x) \subseteq LevelsOf(y)
  /\ \A a : Cardinality(TurnsOf(a, x)) <= Cardinality(TurnsOf(a, y))

LEMMA TurnsGrow ==
  ASSUME NEW x \in Seq(Signals), NEW s \in Signals, NEW a
  PROVE  /\ Cardinality(TurnsOf(a, x)) \in Nat
         /\ Cardinality(TurnsOf(a, Append(x, s))) =
              Cardinality(TurnsOf(a, x)) + (IF s.scene = a THEN 1 ELSE 0)
<1> DEFINE y == Append(x, s)
           n == Len(x)
<1>1. /\ n \in Nat /\ y[n + 1] = s
      /\ \A i \in 1..n : y[i] = x[i]
      /\ DOMAIN x = 1..n /\ DOMAIN y = 1..(n + 1)
  BY NamesOfMore
<1> HIDE DEF y, n
<1>2. /\ \A i : i \in 1..(n + 1) <=> i = n + 1 \/ i \in 1..n
      /\ n + 1 \notin 1..n
  BY <1>1
<1>3. /\ \A i : i \in TurnsOf(a, x) <=> i \in 1..n /\ x[i].scene = a
      /\ \A i : i \in TurnsOf(a, y) <=> i \in 1..(n + 1) /\ y[i].scene = a
  BY <1>1 DEF TurnsOf
<1>4. TurnsOf(a, x) \in SUBSET (1..n) /\ IsFiniteSet(1..n)
  BY <1>1, <1>3, FS_Interval
<1>5. IsFiniteSet(TurnsOf(a, x)) /\ Cardinality(TurnsOf(a, x)) \in Nat
  BY <1>4, FS_Subset, FS_CardinalityType
<1>6. CASE s.scene = a
  <2>1. TurnsOf(a, y) = TurnsOf(a, x) \cup {n + 1} /\ n + 1 \notin TurnsOf(a, x)
    BY <1>1, <1>2, <1>3, <1>6
  <2>2. Cardinality(TurnsOf(a, y)) = Cardinality(TurnsOf(a, x)) + 1
    BY <1>5, <2>1, FS_AddElement
  <2>3. QED
    BY <1>5, <1>6, <2>2 DEF y
<1>7. CASE s.scene # a
  <2>1. TurnsOf(a, y) = TurnsOf(a, x)
    BY <1>1, <1>2, <1>3, <1>7
  <2>2. QED
    BY <1>5, <1>7, <2>1 DEF y
<1>8. QED
  BY <1>6, <1>7

LEMMA LevelsGrow ==
  ASSUME NEW x \in Seq(Signals), NEW s \in Signals
  PROVE  LevelsOf(Append(x, s)) = LevelsOf(x) \cup ({s.level} \ {0})
<1> DEFINE y == Append(x, s)
           n == Len(x)
<1>1. /\ n \in Nat /\ y[n + 1] = s
      /\ \A i \in 1..n : y[i] = x[i]
      /\ DOMAIN x = 1..n /\ DOMAIN y = 1..(n + 1)
  BY NamesOfMore
<1> HIDE DEF y, n
<1>2. /\ \A i : i \in 1..(n + 1) <=> i = n + 1 \/ i \in 1..n
      /\ n + 1 \notin 1..n
  BY <1>1
<1>3. /\ \A l : l \in LevelsOf(x) <=> l # 0 /\ \E i \in 1..n : x[i].level = l
      /\ \A l : l \in LevelsOf(y) <=> l # 0 /\ \E i \in 1..(n + 1) : y[i].level = l
  BY <1>1 DEF LevelsOf
<1>4. \A l : l \in LevelsOf(y) <=> l \in LevelsOf(x) \/ (l # 0 /\ l = s.level)
  BY <1>1, <1>2, <1>3
<1>5. QED
  BY <1>4 DEF y

LEMMA BiggerWithOne ==
  ASSUME NEW x \in Seq(Signals), NEW s \in Signals
  PROVE  Bigger(x, Append(x, s))
<1>1. Len(x) <= Len(Append(x, s))
  BY NamesOfMore
<1>2. ASSUME NEW c  PROVE Cardinality(ErrorsOf(c, x)) <= Cardinality(ErrorsOf(c, Append(x, s)))
  <2>1. /\ Cardinality(ErrorsOf(c, x)) \in Nat /\ Occurrences(c, s.errors) \in Nat
        /\ Cardinality(ErrorsOf(c, Append(x, s))) = Cardinality(ErrorsOf(c, x)) + Occurrences(c, s.errors)
    BY ErrorsFinite, ErrorsGrow, OccurrencesAre
  <2>2. QED
    BY <2>1
<1>3. LevelsOf(x) \subseteq LevelsOf(Append(x, s))
  BY LevelsGrow
<1>4. ASSUME NEW a  PROVE Cardinality(TurnsOf(a, x)) <= Cardinality(TurnsOf(a, Append(x, s)))
  BY TurnsGrow
<1>5. QED
  BY <1>1, <1>2, <1>3, <1>4 DEF Bigger

LEMMA BiggerBoth ==
  ASSUME NEW x \in Seq(Signals), NEW y \in Seq(Signals), NEW s \in Signals, Bigger(x, y)
  PROVE  Bigger(Append(x, s), Append(y, s))
<1>1. Len(Append(x, s)) <= Len(Append(y, s))
  BY NamesOfMore DEF Bigger
<1>2. ASSUME NEW c
      PROVE  Cardinality(ErrorsOf(c, Append(x, s))) <= Cardinality(ErrorsOf(c, Append(y, s)))
  <2>1. /\ Cardinality(ErrorsOf(c, x)) \in Nat /\ Cardinality(ErrorsOf(c, y)) \in Nat
        /\ Occurrences(c, s.errors) \in Nat
        /\ Cardinality(ErrorsOf(c, Append(x, s))) = Cardinality(ErrorsOf(c, x)) + Occurrences(c, s.errors)
        /\ Cardinality(ErrorsOf(c, Append(y, s))) = Cardinality(ErrorsOf(c, y)) + Occurrences(c, s.errors)
    BY ErrorsFinite, ErrorsGrow, OccurrencesAre
  <2>2. Cardinality(ErrorsOf(c, x)) <= Cardinality(ErrorsOf(c, y))
    BY DEF Bigger
  <2>3. QED
    BY <2>1, <2>2
<1>3. LevelsOf(Append(x, s)) \subseteq LevelsOf(Append(y, s))
  BY LevelsGrow DEF Bigger
<1>4. ASSUME NEW a
      PROVE  Cardinality(TurnsOf(a, Append(x, s))) <= Cardinality(TurnsOf(a, Append(y, s)))
  <2>1. PICK d : d = IF s.scene = a THEN 1 ELSE 0
    OBVIOUS
  <2>2. /\ Cardinality(TurnsOf(a, x)) \in Nat /\ Cardinality(TurnsOf(a, y)) \in Nat /\ d \in Nat
        /\ Cardinality(TurnsOf(a, Append(x, s))) = Cardinality(TurnsOf(a, x)) + d
        /\ Cardinality(TurnsOf(a, Append(y, s))) = Cardinality(TurnsOf(a, y)) + d
    BY <2>1, TurnsGrow
  <2>3. Cardinality(TurnsOf(a, x)) <= Cardinality(TurnsOf(a, y))
    BY DEF Bigger
  <2>4. QED
    BY <2>2, <2>3
<1>5. QED
  BY <1>1, <1>2, <1>3, <1>4 DEF Bigger

(* What does not make anything up of x does not of more either.            *)
LEMMA WithinBigger ==
  ASSUME NEW p \in Profiles, NEW x \in Seq(Signals), NEW y \in Seq(Signals), Within(p, x), Bigger(x, y)
  PROVE  Within(p, y)
<1>1. p.practised \in Nat /\ p.scenes \in KeptScenes /\ p.errors \in Counts
  BY DEF Profiles
<1>2. p.practised <= Len(y)
  <2>1. Len(x) \in Nat /\ Len(y) \in Nat
    BY LenProperties
  <2>2. QED
    BY <1>1, <2>1 DEF Within, Bigger
<1>3. ASSUME NEW c \in DOMAIN p.errors
      PROVE  c \in Categories /\ p.errors[c] <= Cardinality(ErrorsOf(c, y))
  <2>1. /\ Cardinality(ErrorsOf(c, x)) \in Nat /\ Cardinality(ErrorsOf(c, y)) \in Nat
        /\ Cardinality(ErrorsOf(c, x)) <= Cardinality(ErrorsOf(c, y))
    BY ErrorsFinite DEF Bigger
  <2>2. p.errors[c] <= Cardinality(ErrorsOf(c, x)) /\ c \in Categories
    BY DEF Within
  <2>3. p.errors[c] \in Nat
    <3>1. PICK C \in SUBSET Categories : p.errors \in [C -> Nat]
      BY <1>1 DEF Counts
    <3>2. QED
      BY <3>1
  <2>4. QED
    BY <2>1, <2>2, <2>3
<1>4. Range(p.levels) \cup ({p.estimate} \ {0}) \subseteq LevelsOf(y)
  BY DEF Within, Bigger
<1>5. ASSUME NEW i \in DOMAIN p.scenes
      PROVE  p.scenes[i].count <= Cardinality(TurnsOf(p.scenes[i].scene, y))
  <2>1. PICK a : a = p.scenes[i].scene
    OBVIOUS
  <2>2. p.scenes[i].count <= Cardinality(TurnsOf(a, x))
    BY <2>1 DEF Within
  <2>3. Cardinality(TurnsOf(a, x)) <= Cardinality(TurnsOf(a, y))
    BY DEF Bigger
  <2>4. p.scenes[i].count \in Nat
    <3>1. p.scenes \in Seq(Entry)
      BY <1>1 DEF KeptScenes
    <3>2. DOMAIN p.scenes = 1..Len(p.scenes)
      BY <3>1, LenProperties
    <3>3. p.scenes[i] \in Entry
      BY <3>1, <3>2, ElementOfSeq
    <3>4. QED
      BY <3>3 DEF Entry
  <2>5. \A z \in Seq(Signals) : Cardinality(TurnsOf(a, z)) \in Nat
    <3> SUFFICES ASSUME NEW z \in Seq(Signals)  PROVE Cardinality(TurnsOf(a, z)) \in Nat
      OBVIOUS
    <3>1. TurnsOf(a, z) \in SUBSET (1..Len(z)) /\ Len(z) \in Nat
      BY LenProperties DEF TurnsOf
    <3>2. IsFiniteSet(1..Len(z))
      BY <3>1, FS_Interval
    <3>3. QED
      BY <3>1, <3>2, FS_Subset, FS_CardinalityType
  <2>6. QED
    BY <2>1, <2>2, <2>3, <2>4, <2>5
<1>6. Len(p.scenes) <= SceneCap /\ Len(p.levels) <= Window
  BY DEF Within
<1>7. QED
  BY <1>2, <1>3, <1>4, <1>5, <1>6 DEF Within

(* A turn more makes nothing up.                                           *)
LEMMA WithinOn ==
  ASSUME NEW p \in Profiles, NEW x \in Seq(Signals), NEW s \in Signals, Within(p, x)
  PROVE  Within(ApplyTurn(p, s), Append(x, s))
<1> DEFINE new == ApplyTurn(p, s)
           y == Append(x, s)
<1>1. /\ p.practised \in Nat /\ p.scenes \in KeptScenes /\ p.errors \in Counts
      /\ p.levels \in KeptLevels /\ p.estimate \in Nat
  BY DEF Profiles
<1>2. /\ new \in Profiles
      /\ s.level # 0 => /\ new.levels # <<>> /\ new.levels \in KeptLevels
                        /\ new.levels = LastLevels(Append(p.levels, s.level))
                        /\ new.estimate = MedianLow(new.levels)
      /\ s.level = 0 => new.levels = p.levels /\ new.estimate = p.estimate
      /\ new.practised = p.practised + 1
      /\ new.scenes = AddedScene(p.scenes, s.scene)
      /\ new.errors = AddedErrors(p.errors, s)
  BY ApplyTurnTyped
<1>3. s.level \in Nat /\ s.scene \in Names
  BY ProfileAssumption DEF Names
<1>4. new.practised <= Len(y)
  <2>1. Len(x) \in Nat /\ Len(y) = Len(x) + 1 /\ p.practised <= Len(x)
    BY NamesOfMore DEF Within
  <2> HIDE DEF y, new
  <2>2. QED
    BY <1>1, <1>2, <2>1
<1>5. Len(new.scenes) <= SceneCap /\ Len(new.levels) <= Window
  <2>1. new.scenes \in KeptScenes /\ new.levels \in KeptLevels
    <3> HIDE DEF new
    <3> QED  BY <1>2 DEF Profiles
  <2> HIDE DEF new
  <2>2. QED
    BY <2>1 DEF KeptScenes, KeptLevels
<1>6. ASSUME NEW c \in DOMAIN new.errors
      PROVE  c \in Categories /\ new.errors[c] <= Cardinality(ErrorsOf(c, y))
  <2>1. /\ new.errors \in Counts
        /\ DOMAIN new.errors = DOMAIN p.errors \cup (Range(s.errors) \cap Categories)
        /\ new.errors[c] = (IF c \in DOMAIN p.errors THEN p.errors[c] ELSE 0) + Occurrences(c, s.errors)
        /\ DOMAIN p.errors \subseteq Categories
        /\ \A e \in DOMAIN p.errors : p.errors[e] \in Nat
    <3>1. new.errors = AddedErrors(p.errors, s)
      BY <1>2
    <3>2. c \in DOMAIN AddedErrors(p.errors, s)
      BY <3>1
    <3>3. PICK w : w = AddedErrors(p.errors, s)
      OBVIOUS
    <3>4. /\ w \in Counts /\ DOMAIN w = DOMAIN p.errors \cup (Range(s.errors) \cap Categories)
          /\ \A e \in DOMAIN w : w[e] =
               (IF e \in DOMAIN p.errors THEN p.errors[e] ELSE 0) + Occurrences(e, s.errors)
          /\ DOMAIN p.errors \subseteq Categories
          /\ \A e \in DOMAIN p.errors : p.errors[e] \in Nat
      <4>1. PICK o : o = p.errors
        OBVIOUS
      <4>2. o \in Counts
        BY <1>1, <4>1
      <4>3. /\ AddedErrors(o, s) \in Counts
            /\ DOMAIN AddedErrors(o, s) = DOMAIN o \cup (Range(s.errors) \cap Categories)
            /\ \A e \in DOMAIN AddedErrors(o, s) : AddedErrors(o, s)[e] =
                 (IF e \in DOMAIN o THEN o[e] ELSE 0) + Occurrences(e, s.errors)
            /\ DOMAIN o \subseteq Categories
            /\ \A e \in DOMAIN o : o[e] \in Nat
        BY <4>2, ErrorsTyped
      <4>4. w = AddedErrors(o, s)
        BY <3>3, <4>1
      <4> QED  BY ONLY <4>1, <4>3, <4>4
    <3> HIDE DEF new
    <3>5. QED
      BY <3>1, <3>2, <3>3, <3>4
  <2>2. PICK a, o, k : /\ a = IF c \in DOMAIN p.errors THEN p.errors[c] ELSE 0
                       /\ o = Occurrences(c, s.errors) /\ k = Cardinality(ErrorsOf(c, x))
    OBVIOUS
  <2>3. o \in Nat /\ k \in Nat /\ Cardinality(ErrorsOf(c, y)) = k + o
    BY <2>2, OccurrencesAre, ErrorsFinite, ErrorsGrow
  <2>4. a \in Nat /\ a <= k
    <3>1. CASE c \in DOMAIN p.errors
      BY <2>1, <2>2, <3>1 DEF Within
    <3>2. CASE c \notin DOMAIN p.errors
      BY <2>2, <2>3, <3>2
    <3>3. QED
      BY <3>1, <3>2
  <2>5. a + o <= k + o
    BY <2>3, <2>4
  <2> HIDE DEF new, y
  <2>6. c \in Categories
    BY <2>1
  <2>7. QED
    BY <2>1, <2>2, <2>3, <2>5, <2>6
<1>7. Range(p.levels) \cup ({p.estimate} \ {0}) \subseteq LevelsOf(x)
  BY DEF Within
<1>8. LevelsOf(y) = LevelsOf(x) \cup ({s.level} \ {0})
  BY LevelsGrow
<1>9. Range(new.levels) \cup ({new.estimate} \ {0}) \subseteq LevelsOf(y)
  <2>1. CASE s.level = 0
    <3> HIDE DEF new, y
    <3> QED  BY <1>2, <1>7, <1>8, <2>1
  <2>2. CASE s.level # 0
    <3>1. PICK l, e : l = new.levels /\ e = new.estimate
      OBVIOUS
    <3>2. l \in KeptLevels /\ l # <<>> /\ e = MedianLow(l) /\ l = LastLevels(Append(p.levels, s.level))
      <4> HIDE DEF new
      <4> QED  BY <1>2, <2>2, <3>1
    <3>3. e \in Range(l)
      BY <3>2, MedianIsLow DEF IsLowMedian
    <3>4. /\ Len(p.levels) \in Nat /\ Window \in Nat \ {0}
          /\ Len(l) = IF Len(p.levels) + 1 > Window THEN Window ELSE Len(p.levels) + 1
          /\ l[Len(l)] = s.level
          /\ \A i \in 1..(Len(l) - 1) : l[i] = p.levels[Len(p.levels) + 1 - Len(l) + i]
      <4>1. s.level \in Nat \ {0}
        BY <1>3, <2>2
      <4>2. QED
        BY <1>1, <3>2, <4>1, LevelsMove
    <3>5. ASSUME NEW i \in DOMAIN l  PROVE l[i] \in Range(p.levels) \cup {s.level}
      <4>1. DOMAIN l = 1..Len(l) /\ DOMAIN p.levels = 1..Len(p.levels)
        BY <1>1, <3>2, LenProperties DEF KeptLevels
      <4>2. CASE i = Len(l)
        BY <3>4, <4>2
      <4>3. CASE i # Len(l)
        <5>1. i \in 1..(Len(l) - 1) /\ Len(p.levels) + 1 - Len(l) + i \in 1..Len(p.levels)
          <6>1. PICK k, q : k = Len(p.levels) /\ q = Len(l)
            OBVIOUS
          <6>2. /\ k \in Nat /\ Window \in Nat \ {0} /\ i \in 1..q /\ i # q
                /\ q = IF k + 1 > Window THEN Window ELSE k + 1
            BY <3>4, <4>1, <4>3, <6>1
          <6>3. i \in 1..(q - 1) /\ k + 1 - q + i \in 1..k
            BY ONLY <6>2
          <6>4. QED
            BY <6>1, <6>3
        <5>2. PICK j \in DOMAIN p.levels : l[i] = p.levels[j]
          BY <3>4, <4>1, <5>1
        <5>3. QED
          BY <5>2 DEF Range
      <4>4. QED
        BY <4>2, <4>3
    <3>6. Range(l) \subseteq Range(p.levels) \cup {s.level}
      BY <3>5 DEF Range
    <3> HIDE DEF new, y
    <3>7. QED
      BY <1>7, <1>8, <2>2, <3>1, <3>3, <3>6
  <2>3. QED
    BY <2>1, <2>2
<1>10. ASSUME NEW i \in DOMAIN new.scenes
       PROVE  new.scenes[i].count <= Cardinality(TurnsOf(new.scenes[i].scene, y))
  <2>1. PICK w : w = new.scenes
    OBVIOUS
  <2>2. PICK d : Moved(p.scenes, w, s.scene, d)
    <3> HIDE DEF new
    <3> QED  BY <1>1, <1>2, <1>3, <2>1, SceneMoves
  <2>3. w \in KeptScenes
    BY <1>1, <1>2, <1>3, <2>1, SceneMoves
  <2> DEFINE q == Len(w)
             m == Len(p.scenes)
  <2>4. DOMAIN w = 1..q /\ q \in Nat /\ m \in Nat /\ DOMAIN p.scenes = 1..m
    BY <1>1, <2>3, LenProperties DEF KeptScenes
  <2>5. \A j \in 1..m : p.scenes[j] \in Entry
    BY <1>1, ElementOfSeq DEF KeptScenes
  <2>6. \A j \in 1..m : p.scenes[j].count \in Nat /\ p.scenes[j].count <= Cardinality(TurnsOf(p.scenes[j].scene, x))
    <3>1. \A j \in 1..m : p.scenes[j].count \in Nat
      BY <2>5 DEF Entry
    <3>2. QED
      BY <2>4, <3>1 DEF Within
  <2>7. \A a : /\ Cardinality(TurnsOf(a, x)) \in Nat
               /\ Cardinality(TurnsOf(a, y)) = Cardinality(TurnsOf(a, x)) + (IF s.scene = a THEN 1 ELSE 0)
    BY TurnsGrow
  <2>8. /\ d \in 1..(m + 1)
        /\ q = IF d <= m THEN m ELSE m + 1
        /\ \A j \in 1..(q - 1) : w[j] = p.scenes[IF j < d THEN j ELSE j + 1]
        /\ w[q].scene = s.scene
        /\ \/ d <= m /\ p.scenes[d].scene = s.scene /\ w[q].count = p.scenes[d].count + 1
           \/ w[q].count = 1
    BY <2>2 DEF Moved
  <2> HIDE DEF q, m, y, new
  <2>9. i \in 1..q
    BY <2>1, <2>4
  <2>10. CASE i = q
    <3>1. PICK u : u = Cardinality(TurnsOf(s.scene, x))
      OBVIOUS
    <3>2. u \in Nat /\ Cardinality(TurnsOf(s.scene, y)) = u + 1
      BY <2>7, <3>1
    <3>3. CASE d <= m /\ p.scenes[d].scene = s.scene /\ w[q].count = p.scenes[d].count + 1
      <4>1. d \in 1..m
        BY <2>4, <2>8, <3>3
      <4>2. p.scenes[d].count \in Nat /\ p.scenes[d].count <= u
        BY <2>6, <3>1, <3>3, <4>1
      <4>3. w[q].count <= u + 1
        BY <3>2, <3>3, <4>2
      <4>4. QED
        BY <2>1, <2>8, <2>10, <3>2, <4>3
    <3>4. CASE w[q].count = 1
      <4>1. 1 <= u + 1
        BY <3>2
      <4>2. QED
        BY <2>1, <2>8, <2>10, <3>2, <3>4, <4>1
    <3>5. QED
      BY <2>8, <3>3, <3>4
  <2>11. CASE i # q
    <3>1. i \in 1..(q - 1) /\ (IF i < d THEN i ELSE i + 1) \in 1..m
      BY <2>4, <2>8, <2>9, <2>11
    <3>2. PICK j \in 1..m : w[i] = p.scenes[j]
      BY <2>8, <3>1
    <3>3. PICK a, u, v : a = w[i].scene /\ u = Cardinality(TurnsOf(a, x)) /\ v = Cardinality(TurnsOf(a, y))
      OBVIOUS
    <3>4. u \in Nat /\ (v = u + 1 \/ v = u + 0)
      BY <2>7, <3>3
    <3>5. w[i].count \in Nat /\ w[i].count <= u
      BY <2>6, <3>2, <3>3
    <3>6. w[i].count <= v
      BY <3>4, <3>5
    <3>7. QED
      BY <2>1, <3>3, <3>6
  <2>12. QED
    BY <2>10, <2>11
<1> HIDE DEF new, y
<1>11. Within(new, y)
  BY <1>4, <1>5, <1>6, <1>9, <1>10 DEF Within
<1>12. QED
  BY <1>11 DEF new, y

-----------------------------------------------------------------------------
(***************************************************************************)
(* What was practised before.                                              *)
(***************************************************************************)

(* Nothing practised yet.                                                  *)
LEMMA NothingYet ==
  NoProfile \in Profiles /\ Tells(NoProfile, <<>>) /\ Within(NoProfile, <<>>)
<1> DEFINE e == [c \in {} |-> 0]
           none == <<>>
<1>1. /\ NoProfile.practised = 0 /\ NoProfile.scenes = <<>> /\ NoProfile.errors = e
      /\ NoProfile.levels = <<>> /\ NoProfile.estimate = 0
      /\ NoProfile = [practised |-> 0, scenes |-> <<>>, errors |-> e, levels |-> <<>>, estimate |-> 0]
  BY DEF NoProfile
<1>2. none \in Seq(Entry) /\ none \in Seq(Nat \ {0}) /\ Len(none) = 0 /\ DOMAIN none = {}
  OBVIOUS
<1>3. SceneCap \in Nat \ {0} /\ Window \in Nat \ {0} /\ Cardinality({}) = 0
  BY ProfileAssumption, FS_EmptySet
<1>4. e \in Counts
  <2>1. {} \in SUBSET Categories /\ e \in [{} -> Nat]
    OBVIOUS
  <2> HIDE DEF e
  <2>2. QED
    BY <2>1 DEF Counts
<1>5. DOMAIN e = {}
  OBVIOUS
<1> HIDE DEF e
<1>6. NoProfile \in Profiles
  BY <1>1, <1>2, <1>3, <1>4 DEF Profiles, KeptScenes, KeptLevels
<1>7. ScenesTold(none, none)
  BY <1>2 DEF ScenesTold, ScenesOf
<1>8. ErrorsTold(e, none)
  <2>1. \A c : ErrorsOf(c, none) = {}
    BY <1>2 DEF ErrorsOf
  <2>2. {c \in Categories : ErrorsOf(c, none) # {}} = {}
    BY <2>1
  <2>3. e = [c \in {} |-> Cardinality(ErrorsOf(c, none))]
    BY DEF e
  <2>4. QED
    BY <2>2, <2>3 DEF ErrorsTold
<1>9. LevelsTold(none, none)
  <2>1. TurnsWithLevel(none) = {}
    BY <1>2 DEF TurnsWithLevel
  <2>2. 0 < Window
    BY <1>3
  <2>3. Len(none) = IF Cardinality({}) < Window THEN Cardinality({}) ELSE Window
    BY <1>2, <1>3, <2>2
  <2> HIDE DEF none
  <2>4. QED
    BY <2>1, <2>3 DEF LevelsTold
<1>10. EstimateTold(0, none)
  BY DEF EstimateTold
<1>11. Tells(NoProfile, none)
  BY <1>1, <1>2, <1>7, <1>8, <1>9, <1>10 DEF Tells
<1>12. Within(NoProfile, none)
  <2>1. Range(none) = {}
    BY <1>2 DEF Range
  <2>2. QED
    BY <1>1, <1>2, <1>3, <1>5, <2>1 DEF Within
<1>13. QED
  BY <1>6, <1>11, <1>12

(* What a profile is to be after these signals, and no others.             *)
Told(p, signals) == p \in Profiles /\ Tells(p, signals) /\ Within(p, signals)

(* The turns of a learner, one after the other, make the profile that      *)
(* tells them (apply_turn_to_profile).                                     *)
THEOREM AllApplied ==
  ASSUME NEW past \in Seq(Signals)
  PROVE  Told(ApplyAll(past), past)
<1> DEFINE n == Len(past)
           Says(g) == g = [i \in 0..n |-> IF i = 0 THEN NoProfile ELSE ApplyTurn(g[i - 1], past[i])]
           F == CHOOSE g : Says(g)
           P(i) == SubSeq(past, 1, i)
           S == {i \in 0..n : Told(F[i], P(i))}
<1>1. n \in Nat /\ \A i \in 1..n : past[i] \in Signals
  BY LenProperties, ElementOfSeq
<1>2. F[n] = ApplyAll(past)
  BY Zenon DEF ApplyAll
<1>3. \E g : Says(g)
  <2> DEFINE step == [k \in 1..n |-> [p \in Profiles |-> ApplyTurn(p, past[k])]]
  <2> HIDE DEF n
  <2>1. step \in [1..n -> [Profiles -> Profiles]]
    <3>1. \A k \in 1..n, p \in Profiles : ApplyTurn(p, past[k]) \in Profiles
      BY <1>1, ApplyTurnTyped
    <3>2. QED
      BY <3>1
  <2>2. \A k \in 1..n : \A p \in Profiles : step[k][p] = ApplyTurn(p, past[k])
    OBVIOUS
  <2> HIDE DEF step
  <2>3. \E f : Takes(f, n, Profiles, NoProfile, step)
    BY <1>1, <2>1, NothingYet, StepByStep
  <2>4. PICK f \in [0..n -> Profiles] : f[0] = NoProfile /\ \A k \in 1..n : f[k] = step[k][f[k - 1]]
    BY <2>3 DEF Takes
  <2>5. \A k \in 1..n : f[k] = ApplyTurn(f[k - 1], past[k])
    <3> SUFFICES ASSUME NEW k \in 1..n  PROVE f[k] = ApplyTurn(f[k - 1], past[k])
      OBVIOUS
    <3>1. k - 1 \in 0..n
      BY <1>1
    <3>2. f[k - 1] \in Profiles
      BY <2>4, <3>1
    <3>3. QED
      BY <2>2, <2>4, <3>2
  <2>6. \A i \in 0..n : f[i] = IF i = 0 THEN NoProfile ELSE ApplyTurn(f[i - 1], past[i])
    <3> SUFFICES ASSUME NEW i \in 0..n
                 PROVE  f[i] = IF i = 0 THEN NoProfile ELSE ApplyTurn(f[i - 1], past[i])
      OBVIOUS
    <3>1. i = 0 \/ (i # 0 /\ i \in 1..n)
      BY <1>1
    <3>2. QED
      BY <2>4, <2>5, <3>1
  <2>7. Says(f)
    BY <2>4, <2>6
  <2>8. QED
    <3> HIDE DEF Says
    <3> QED  BY <2>7
<1>4. Says(F)
  <2> HIDE DEF Says
  <2> QED  BY <1>3
<1>5. F[0] = NoProfile /\ \A i \in 1..n : F[i] = ApplyTurn(F[i - 1], past[i])
  <2> HIDE DEF F, n
  <2>1. \A i \in 0..n : F[i] = IF i = 0 THEN NoProfile ELSE ApplyTurn(F[i - 1], past[i])
    BY <1>4
  <2>2. 0 \in 0..n /\ \A i \in 1..n : i \in 0..n /\ i # 0
    BY <1>1
  <2>3. QED
    BY <2>1, <2>2
<1> HIDE DEF F, n
<1>6. \A i \in 0..n : P(i) \in Seq(Signals) /\ Len(P(i)) = i /\ \A j \in 1..i : P(i)[j] = past[j]
  <2> SUFFICES ASSUME NEW i \in 0..n
               PROVE  P(i) \in Seq(Signals) /\ Len(P(i)) = i /\ \A j \in 1..i : P(i)[j] = past[j]
    OBVIOUS
  <2>1. 1 \in Int /\ i \in Int /\ i \in Nat /\ (\A j \in 1..i : past[j] \in Signals)
    BY <1>1
  <2>2. /\ P(i) \in Seq(Signals) /\ Len(P(i)) = IF 1 <= i THEN i - 1 + 1 ELSE 0
        /\ \A j \in 1..(i - 1 + 1) : P(i)[j] = past[1 + j - 1]
    BY <2>1, SubSeqProperties
  <2> HIDE DEF P
  <2>3. QED
    BY <2>1, <2>2
<1> HIDE DEF P
<1>7. P(0) = <<>>
  <2>1. P(0) \in Seq(Signals) /\ Len(P(0)) = 0
    BY <1>1, <1>6
  <2>2. QED
    BY <2>1, EmptySeq
<1>8. P(n) = past
  <2>1. P(n) \in Seq(Signals) /\ Len(P(n)) = Len(past) /\ \A j \in 1..Len(past) : P(n)[j] = past[j]
    BY <1>1, <1>6 DEF n
  <2>2. QED
    BY <2>1, SeqEqual
<1>9. \A i \in 0..(n - 1) : P(i + 1) = Append(P(i), past[i + 1])
  <2> SUFFICES ASSUME NEW i \in 0..(n - 1)  PROVE P(i + 1) = Append(P(i), past[i + 1])
    OBVIOUS
  <2>1. i \in 0..n /\ i + 1 \in 0..n /\ i + 1 \in 1..n /\ i \in Nat /\ \A j \in 1..(i + 1) : j = i + 1 \/ j \in 1..i
    BY <1>1
  <2>2. PICK u, v : u = P(i) /\ v = P(i + 1)
    OBVIOUS
  <2>3. /\ u \in Seq(Signals) /\ Len(u) = i /\ \A j \in 1..i : u[j] = past[j]
        /\ v \in Seq(Signals) /\ Len(v) = i + 1 /\ \A j \in 1..(i + 1) : v[j] = past[j]
    BY <1>6, <2>1, <2>2
  <2>4. PICK e \in Signals : e = past[i + 1]
    BY <1>1, <2>1
  <2>5. PICK z : z = Append(u, e)
    OBVIOUS
  <2>6. /\ z \in Seq(Signals) /\ Len(z) = Len(v) /\ \A j \in 1..Len(v) : z[j] = v[j]
    BY <2>1, <2>3, <2>4, <2>5, OneMore
  <2>7. z = v
    BY <2>3, <2>6, SeqEqual
  <2>8. QED
    BY <2>2, <2>4, <2>5, <2>7
<1>10. 0 \in S
  <2>1. 0 \in 0..n
    BY <1>1
  <2>2. QED
    BY <2>1, <1>5, <1>7, NothingYet DEF Told
<1>11. ASSUME NEW k \in 0..(n - 1), k \in S  PROVE k + 1 \in S
  <2>1. k \in 0..n /\ k + 1 \in 0..n /\ k + 1 \in 1..n /\ (k + 1) - 1 = k
    BY <1>1
  <2>2. PICK p, z, s : p = F[k] /\ z = P(k) /\ s = past[k + 1]
    OBVIOUS
  <2>3. p \in Profiles /\ Tells(p, z) /\ Within(p, z) /\ z \in Seq(Signals) /\ s \in Signals
    BY <1>1, <1>6, <1>11, <2>1, <2>2 DEF Told
  <2>4. Told(ApplyTurn(p, s), Append(z, s))
    BY <2>3, ApplyTurnTyped, TellsOn, WithinOn DEF Told
  <2>5. F[k + 1] = ApplyTurn(p, s) /\ P(k + 1) = Append(z, s)
    BY <1>5, <1>9, <2>1, <2>2
  <2>6. QED
    BY <2>1, <2>4, <2>5
<1>12. n \in S
  <2> HIDE DEF S
  <2>1. \A k \in 0..n : k \in S
    BY <1>1, <1>10, <1>11, UpTo
  <2>2. QED
    BY <1>1, <2>1
<1>13. QED
  BY <1>2, <1>8, <1>12

-----------------------------------------------------------------------------
(***************************************************************************)
(* The row under turns that end side by side.                              *)
(***************************************************************************)

(* A row of which each column comes from one of two that make nothing up   *)
(* makes nothing up.                                                       *)
Mixed(r, p, q) ==
  /\ r \in Profiles
  /\ r.practised \in {p.practised, q.practised} /\ r.scenes \in {p.scenes, q.scenes}
  /\ r.errors \in {p.errors, q.errors} /\ r.levels \in {p.levels, q.levels}
  /\ r.estimate \in {p.estimate, q.estimate}

LEMMA WithinMixed ==
  ASSUME NEW p, NEW q, NEW r, NEW x, Mixed(r, p, q), Within(p, x), Within(q, x)
  PROVE  Within(r, x)
<1>1. r.practised <= Len(x)
  BY DEF Mixed, Within
<1>2. Len(r.scenes) <= SceneCap /\ Len(r.levels) <= Window
  BY DEF Mixed, Within
<1>3. \A c \in DOMAIN r.errors : c \in Categories /\ r.errors[c] <= Cardinality(ErrorsOf(c, x))
  BY DEF Mixed, Within
<1>4. Range(r.levels) \subseteq LevelsOf(x)
  BY DEF Mixed, Within
<1>5. {r.estimate} \ {0} \subseteq LevelsOf(x)
  BY DEF Mixed, Within
<1>6. \A i \in DOMAIN r.scenes : r.scenes[i].count <= Cardinality(TurnsOf(r.scenes[i].scene, x))
  BY DEF Mixed, Within
<1>7. QED
  BY <1>1, <1>2, <1>3, <1>4, <1>5, <1>6 DEF Within

(* What an update that is under way has read and will write.  While the    *)
(* row was not written since, it is the row with one turn more.            *)
UpdateOK(u) ==
  u.pc \in {"read", "loaded"} =>
    /\ u.signal \in Signals /\ u.profile \in Profiles /\ u.read \in Nat /\ u.read <= Len(counted)
    /\ Within(u.profile, Append(counted, u.signal))
    /\ u.read = Len(counted) => /\ u.profile = ApplyTurn(record, u.signal)
                                /\ u.pc = "loaded" => u.loaded = record

LearnerOK ==
  /\ record \in Profiles /\ counted \in Seq(Signals) /\ overlaid \in BOOLEAN
  /\ SerialIsExact /\ NothingMadeUp
  /\ DOMAIN update = LearnerTurns
  /\ \A t \in LearnerTurns : DOMAIN update[t] = {"pc", "signal", "profile", "loaded", "read"}
  /\ \A t \in LearnerTurns : UpdateOK(update[t])

LEMMA LearnerStarts ==
  LearnerInit => LearnerOK
<1> SUFFICES ASSUME LearnerInit  PROVE LearnerOK
  OBVIOUS
<1>1. PICK past \in Pasts : record = ApplyAll(past) /\ counted = past
  BY DEF LearnerInit
<1>2. past \in Seq(Signals)
  BY ProfileAssumption
<1>3. record \in Profiles /\ Tells(record, counted) /\ Within(record, counted)
  BY <1>1, <1>2, AllApplied DEF Told
<1>4. update = [t \in LearnerTurns |-> Idle] /\ overlaid = FALSE
  BY DEF LearnerInit
<1>5. \A t \in LearnerTurns : update[t] = Idle
  BY <1>4
<1>6. DOMAIN Idle = {"pc", "signal", "profile", "loaded", "read"} /\ Idle.pc = "idle"
  BY DEF Idle
<1>7. UpdateOK(Idle)
  BY <1>6 DEF UpdateOK
<1>8. QED
  BY <1>1, <1>2, <1>3, <1>4, <1>5, <1>6, <1>7 DEF LearnerOK, SerialIsExact, NothingMadeUp

(* A turn that reads, loads or gives up leaves the row as it is.           *)
LEMMA RowStays ==
  ASSUME LearnerOK, NEW t \in LearnerTurns, UNCHANGED <<record, counted, overlaid>>,
         NEW u, update' = [update EXCEPT ![t] = u], UpdateOK(u),
         DOMAIN u = {"pc", "signal", "profile", "loaded", "read"}
  PROVE  LearnerOK'
<1>1. DOMAIN update = LearnerTurns
  BY DEF LearnerOK
<1>2. /\ DOMAIN update' = LearnerTurns /\ update'[t] = u
      /\ \A s \in LearnerTurns : s # t => update'[s] = update[s]
  BY <1>1
<1>3. /\ record' \in Profiles /\ counted' \in Seq(Signals) /\ overlaid' \in BOOLEAN
      /\ SerialIsExact' /\ NothingMadeUp'
  BY DEF LearnerOK, SerialIsExact, NothingMadeUp
<1>4. ASSUME NEW s \in LearnerTurns
      PROVE  UpdateOK(update[s])' /\ DOMAIN update'[s] = {"pc", "signal", "profile", "loaded", "read"}
  <2>1. PICK v : v = update'[s]
    OBVIOUS
  <2>2. UpdateOK(v) /\ DOMAIN v = {"pc", "signal", "profile", "loaded", "read"}
    BY <1>2, <2>1 DEF LearnerOK
  <2>3. UpdateOK(v)'
    BY <2>2 DEF UpdateOK
  <2>4. QED
    BY <2>1, <2>2, <2>3 DEF UpdateOK
<1>5. QED
  BY <1>2, <1>3, <1>4 DEF LearnerOK

LEMMA GetProfileOK ==
  ASSUME LearnerOK, NEW t \in LearnerTurns, GetProfile(t)
  PROVE  LearnerOK'
<1>1. PICK s \in Signals :
        update' = [update EXCEPT ![t] =
          [pc |-> "read", signal |-> s, profile |-> ApplyTurn(record, s),
           loaded |-> NoProfile, read |-> Len(counted)]]
  BY DEF GetProfile
<1> DEFINE u == [pc |-> "read", signal |-> s, profile |-> ApplyTurn(record, s),
                 loaded |-> NoProfile, read |-> Len(counted)]
<1>2. record \in Profiles /\ counted \in Seq(Signals) /\ Within(record, counted)
  BY DEF LearnerOK, NothingMadeUp
<1>3. ApplyTurn(record, s) \in Profiles /\ Within(ApplyTurn(record, s), Append(counted, s))
  BY <1>2, ApplyTurnTyped, WithinOn
<1>4. Len(counted) \in Nat /\ Len(counted) <= Len(counted)
  BY <1>2, LenProperties
<1>5. /\ u.pc = "read" /\ u.signal = s /\ u.profile = ApplyTurn(record, s) /\ u.read = Len(counted)
      /\ DOMAIN u = {"pc", "signal", "profile", "loaded", "read"}
  OBVIOUS
<1>6. update' = [update EXCEPT ![t] = u] /\ UNCHANGED <<record, counted, overlaid>>
  BY <1>1 DEF GetProfile
<1> HIDE DEF u
<1>7. UpdateOK(u)
  BY <1>3, <1>4, <1>5 DEF UpdateOK
<1>8. QED
  BY <1>5, <1>6, <1>7, RowStays

LEMMA LoadRecordOK ==
  ASSUME LearnerOK, NEW t \in LearnerTurns, LoadRecord(t)
  PROVE  LearnerOK'
<1> DEFINE u == [update[t] EXCEPT !.pc = "loaded", !.loaded = record]
<1>1. update' = [update EXCEPT ![t] = u] /\ UNCHANGED <<record, counted, overlaid>> /\ update[t].pc = "read"
  BY DEF LoadRecord
<1>2. DOMAIN update[t] = {"pc", "signal", "profile", "loaded", "read"} /\ UpdateOK(update[t])
  BY DEF LearnerOK
<1>3. /\ DOMAIN u = {"pc", "signal", "profile", "loaded", "read"}
      /\ u.pc = "loaded" /\ u.loaded = record
      /\ u.signal = update[t].signal /\ u.profile = update[t].profile /\ u.read = update[t].read
  BY <1>2
<1> HIDE DEF u
<1>4. UpdateOK(u)
  BY <1>1, <1>2, <1>3 DEF UpdateOK
<1>5. QED
  BY <1>1, <1>3, <1>4, RowStays

LEMMA UpdateFailsOK ==
  ASSUME LearnerOK, NEW t \in LearnerTurns, UpdateFails(t)
  PROVE  LearnerOK'
<1> DEFINE u == [update[t] EXCEPT !.pc = "done"]
<1>1. update' = [update EXCEPT ![t] = u] /\ UNCHANGED <<record, counted, overlaid>>
  BY DEF UpdateFails
<1>2. DOMAIN update[t] = {"pc", "signal", "profile", "loaded", "read"}
  BY DEF LearnerOK
<1>3. DOMAIN u = {"pc", "signal", "profile", "loaded", "read"} /\ u.pc = "done"
  BY <1>2
<1> HIDE DEF u
<1>4. UpdateOK(u)
  BY <1>3 DEF UpdateOK
<1>5. QED
  BY <1>1, <1>3, <1>4, RowStays

(* What is written is mixed of the profile of the turn and the row by now; *)
(* it is that profile when the row is still the one that was loaded.       *)
LEMMA UpdatedIs ==
  ASSUME NEW t, update[t].profile \in Profiles, record \in Profiles
  PROVE  /\ Mixed(UpdatedRecord(t), update[t].profile, record)
         /\ update[t].loaded = record /\ Range(update[t].profile.scenes) # Range(record.scenes) =>
              UpdatedRecord(t) = update[t].profile
<1>1. PICK p, o, n : p = update[t].profile /\ o = update[t].loaded /\ n = record
  OBVIOUS
<1>2. PICK s : s = IF Range(p.scenes) # Range(o.scenes) THEN p.scenes ELSE n.scenes
  OBVIOUS
<1>3. PICK a, b, c, d : /\ a = Written(p.practised, o.practised, n.practised)
                        /\ b = Written(p.errors, o.errors, n.errors)
                        /\ c = Written(p.levels, o.levels, n.levels)
                        /\ d = Written(p.estimate, o.estimate, n.estimate)
  OBVIOUS
<1>4. PICK w : w = [practised |-> a, scenes |-> s, errors |-> b, levels |-> c, estimate |-> d]
  OBVIOUS
<1>5. UpdatedRecord(t) = w
  BY <1>1, <1>2, <1>3, <1>4 DEF UpdatedRecord
<1>6. /\ s \in {p.scenes, n.scenes} /\ a \in {p.practised, n.practised} /\ b \in {p.errors, n.errors}
      /\ c \in {p.levels, n.levels} /\ d \in {p.estimate, n.estimate}
  BY <1>2, <1>3 DEF Written
<1>7. p \in Profiles /\ n \in Profiles
  BY <1>1
<1>8. w \in Profiles
  BY <1>4, <1>6, <1>7 DEF Profiles
<1>9. Mixed(w, p, n)
  BY <1>4, <1>6, <1>8 DEF Mixed
<1>10. ASSUME o = n, Range(p.scenes) # Range(n.scenes)  PROVE w = p
  <2>1. s = p.scenes /\ a = p.practised /\ b = p.errors /\ c = p.levels /\ d = p.estimate
    BY <1>2, <1>3, <1>10 DEF Written
  <2>2. p = [practised |-> p.practised, scenes |-> p.scenes, errors |-> p.errors,
             levels |-> p.levels, estimate |-> p.estimate]
    BY <1>7 DEF Profiles
  <2>3. QED
    BY <1>4, <2>1, <2>2
<1>11. QED
  BY <1>1, <1>5, <1>9, <1>10

LEMMA SaveRecordOK ==
  ASSUME LearnerOK, NEW t \in LearnerTurns, SaveRecord(t)
  PROVE  LearnerOK'
<1>1. PICK s, p, r, x : s = update[t].signal /\ p = update[t].profile /\ r = record /\ x = counted
  OBVIOUS
<1>2. PICK w, y : w = record' /\ y = counted'
  OBVIOUS
<1>3. UpdateOK(update[t]) /\ DOMAIN update[t] = {"pc", "signal", "profile", "loaded", "read"}
  BY DEF LearnerOK
<1>4. /\ update[t].pc = "loaded" /\ w = UpdatedRecord(t) /\ y = Append(x, s)
      /\ overlaid' = (overlaid \/ Len(counted) # update[t].read)
      /\ update' = [update EXCEPT ![t].pc = "done"]
  BY <1>1, <1>2 DEF SaveRecord
<1>5. /\ r \in Profiles /\ x \in Seq(Signals) /\ overlaid \in BOOLEAN /\ Within(r, x)
      /\ ~overlaid => Tells(r, x)
  BY <1>1 DEF LearnerOK, SerialIsExact, NothingMadeUp
<1>6. /\ s \in Signals /\ p \in Profiles /\ update[t].read \in Nat /\ Within(p, y)
      /\ update[t].read = Len(x) => p = ApplyTurn(r, s) /\ update[t].loaded = r
  BY <1>1, <1>3, <1>4 DEF UpdateOK
<1>7. /\ Mixed(w, p, r)
      /\ update[t].loaded = r /\ Range(p.scenes) # Range(r.scenes) => w = p
  BY <1>1, <1>4, <1>5, <1>6, UpdatedIs
<1>8. y \in Seq(Signals) /\ Len(x) \in Nat /\ Len(y) = Len(x) + 1 /\ w \in Profiles /\ Bigger(x, y)
  BY <1>4, <1>5, <1>6, <1>7, NamesOfMore, BiggerWithOne DEF Mixed
<1>9. Within(w, y)
  <2>1. Within(r, y)
    BY <1>5, <1>8, WithinBigger
  <2>2. QED
    BY <1>6, <1>7, <2>1, WithinMixed
<1>10. ASSUME ~overlaid'  PROVE Tells(w, y)
  <2>1. ~overlaid /\ update[t].read = Len(x)
    BY <1>1, <1>4, <1>10
  <2>2. Tells(r, x) /\ p = ApplyTurn(r, s) /\ update[t].loaded = r
    BY <1>5, <1>6, <2>1
  <2>3. Tells(p, y) /\ Range(p.scenes) # Range(r.scenes)
    BY <1>4, <1>5, <1>6, <2>2, TellsOn
  <2>4. QED
    BY <1>7, <2>2, <2>3
<1>11. record' \in Profiles /\ counted' \in Seq(Signals) /\ overlaid' \in BOOLEAN
  BY <1>2, <1>4, <1>5, <1>8
<1>12. SerialIsExact' /\ NothingMadeUp'
  BY <1>2, <1>9, <1>10 DEF SerialIsExact, NothingMadeUp
<1>13. DOMAIN update = LearnerTurns
  BY DEF LearnerOK
<1> DEFINE u == [update[t] EXCEPT !.pc = "done"]
<1>14. update' = [update EXCEPT ![t] = u]
  BY <1>4
<1>15. DOMAIN u = {"pc", "signal", "profile", "loaded", "read"} /\ u.pc = "done"
  BY <1>3
<1> HIDE DEF u
<1>16. /\ DOMAIN update' = LearnerTurns /\ update'[t] = u
       /\ \A v \in LearnerTurns : v # t => update'[v] = update[v]
  BY <1>13, <1>14
<1>17. ASSUME NEW v \in LearnerTurns
       PROVE  UpdateOK(update[v])' /\ DOMAIN update'[v] = {"pc", "signal", "profile", "loaded", "read"}
  <2>1. CASE v = t
    BY <1>15, <1>16, <2>1 DEF UpdateOK
  <2>2. CASE v # t
    <3>1. UpdateOK(update[v]) /\ DOMAIN update[v] = {"pc", "signal", "profile", "loaded", "read"}
      BY DEF LearnerOK
    <3>2. PICK f : f = update[v]
      OBVIOUS
    <3>3. update'[v] = f
      BY <1>16, <2>2, <3>2
    <3>4. ASSUME f.pc \in {"read", "loaded"}
          PROVE  /\ f.signal \in Signals /\ f.profile \in Profiles /\ f.read \in Nat
                 /\ f.read <= Len(y) /\ f.read # Len(y) /\ Within(f.profile, Append(y, f.signal))
      <4>1. /\ f.signal \in Signals /\ f.profile \in Profiles /\ f.read \in Nat /\ f.read <= Len(x)
            /\ Within(f.profile, Append(x, f.signal))
        BY <1>1, <3>1, <3>2, <3>4 DEF UpdateOK
      <4>2. f.read <= Len(y) /\ f.read # Len(y)
        BY <1>8, <4>1
      <4>3. /\ Append(x, f.signal) \in Seq(Signals) /\ Append(y, f.signal) \in Seq(Signals)
            /\ Bigger(Append(x, f.signal), Append(y, f.signal))
        BY <1>5, <1>8, <4>1, NamesOfMore, BiggerBoth
      <4>4. Within(f.profile, Append(y, f.signal))
        BY <4>1, <4>3, WithinBigger
      <4>5. QED
        BY <4>1, <4>2, <4>4
    <3>5. UpdateOK(update[v])'
      BY <1>2, <3>3, <3>4 DEF UpdateOK
    <3>6. QED
      BY <3>1, <3>2, <3>3, <3>5
  <2>3. QED
    BY <2>1, <2>2
<1>18. QED
  BY <1>11, <1>12, <1>16, <1>17 DEF LearnerOK

(* LearnerInv, for any number of turns, any signals and any bounds.        *)
THEOREM ProfileIsTrue == LearnerSpec => []LearnerInv
<1>1. LearnerInit => LearnerOK
  BY LearnerStarts
<1>2. LearnerOK /\ [LearnerNext]_learnerVars => LearnerOK'
  <2> SUFFICES ASSUME LearnerOK, [LearnerNext]_learnerVars  PROVE LearnerOK'
    OBVIOUS
  <2>1. ASSUME NEW t \in LearnerTurns,
               GetProfile(t) \/ LoadRecord(t) \/ SaveRecord(t) \/ UpdateFails(t)
        PROVE  LearnerOK'
    BY <2>1, GetProfileOK, LoadRecordOK, SaveRecordOK, UpdateFailsOK
  <2>2. CASE UNCHANGED learnerVars
    BY <2>2 DEF learnerVars, LearnerOK, SerialIsExact, NothingMadeUp, UpdateOK
  <2>3. QED
    BY <2>1, <2>2 DEF LearnerNext
<1>3. LearnerOK => LearnerInv
  BY DEF LearnerOK, LearnerInv
<1>4. QED
  BY <1>1, <1>2, <1>3, PTL DEF LearnerSpec
=============================================================================
