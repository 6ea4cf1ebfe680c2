--------------------------- MODULE PracticeProofs ---------------------------
(***************************************************************************)
(* The page of past sessions, for any number of sessions and pages of any  *)
(* size: proof that the list overlooks nothing and that a replay is        *)
(* unbroken.  PagesOK says what an answer on its way holds of the sessions *)
(* that nobody has practised since, and where its page begins and ends.    *)
(*                                                                         *)
(* And the benches, for any samples, any answers and any number of places: *)
(* proof of the inductive invariant BenchInv.  The rules of a bench are    *)
(* Booleans and its labels are not empty, so that a row passes exactly     *)
(* when it gives no reason; a sample changes until it is done and never    *)
(* again, so that the rows of the list stay those of their samples.        *)
(***************************************************************************)
EXTENDS HistoryPages, Evaluation, Induction

(* The page of past sessions.                                              *)

Pair == Nat \X Nat
Cursors == Pair \cup {NoCursor}
Pages(S) == [items : Seq(S), hasMore : BOOLEAN, cursor : Cursors]
Pcs == {"idle", "sent", "answered"}

ListState ==
  [entries : Seq(Sessions), hasMore : BOOLEAN, cursor : Cursors, pc : Pcs,
   from : Cursors, answer : Pages(Sessions)]
ReplayState ==
  [active : Nat, shown : Nat, showing : Nat, messages : Seq(Pair), hasMore : BOOLEAN,
   cursor : Cursors, loading : BOOLEAN, pc : Pcs, answer : Pages(Pair)]
MoreState ==
  [of : Nat, from : Cursors, id : Nat, showing : Nat, pc : Pcs, answer : Pages(Pair)]

PagesTyped ==
  /\ touched \in [Sessions -> Nat] /\ lines \in [Sessions -> Nat \ {0}]
  /\ list \in ListState /\ replay \in ReplayState /\ more \subseteq MoreState
  /\ asked \in Nat /\ stirred \subseteq Sessions /\ crossed \in BOOLEAN

(* The keys of all the sessions.                                           *)
Keys == [s \in Sessions |-> Key(s)]

(* Of the sessions e, those in O are in the order of their keys K.         *)
InOrder(e, O, K) ==
  \A i, j \in DOMAIN e : i < j /\ e[i] \in O /\ e[j] \in O => Before(K[e[i]], K[e[j]])

(* What is listed: no session of O is missing but after the cursor.        *)
ListOK(e, hasMore, cursor, O, K) ==
  /\ IsInjective(e)
  /\ InOrder(e, O, K)
  /\ e # <<>> => \A s \in O : s \notin ToSet(e) => hasMore /\ Before(cursor, K[s])
  /\ hasMore => /\ e # <<>> /\ cursor \in Pair
                /\ \A s \in O : s \in ToSet(e) => ~Before(cursor, K[s])

(* A page that begins after from: of O, all that is not after its cursor.  *)
Behind(from, k) == from = NoCursor \/ Before(from, k)

PageOK(a, from, O, K) ==
  /\ IsInjective(a.items)
  /\ InOrder(a.items, O, K)
  /\ \A s \in O : s \in ToSet(a.items) => Behind(from, K[s])
  /\ \A s \in O : s \notin ToSet(a.items) /\ Behind(from, K[s]) =>
       a.hasMore /\ Before(a.cursor, K[s])
  /\ a.hasMore => /\ a.items # <<>> /\ a.cursor \in Pair /\ Behind(from, a.cursor)
                  /\ \A s \in O : s \in ToSet(a.items) => ~Before(a.cursor, K[s])

ListKept ==
  /\ ListOK(list.entries, list.hasMore, list.cursor, Undisturbed, Keys)
  /\ list.pc # "idle" => IF list.from = NoCursor THEN list.entries = <<>>
                                                 ELSE list.hasMore /\ list.from = list.cursor
  /\ list.pc = "answered" => PageOK(list.answer, list.from, Undisturbed, Keys)

(* n messages of session s from the one at position a on.                  *)
Run(s, a, n) == [i \in 1..n |-> Line(s, a + i - 1)]

Unbroken(s, run, hasMore, cursor) ==
  \E a \in Nat, n \in Nat \ {0} :
    /\ run = Run(s, a, n)
    /\ hasMore <=> a > 0
    /\ hasMore => cursor = Line(s, a)

ReplayKept ==
  /\ replay.pc = "sent" => replay.active \in Sessions
  /\ replay.pc = "answered" => \E to \in Nat \ {0} : replay.answer = Stretch(replay.active, to)
  /\ replay.shown # None /\ ~crossed =>
       Unbroken(replay.shown, replay.messages, replay.hasMore, replay.cursor)

MoreOK(m) ==
  /\ m.showing <= replay.showing /\ m.from # NoCursor
  /\ m.pc = "answered" => CursorFits(m.of, m.from) /\ m.answer = Stretch(m.of, m.from[2])
  /\ m.showing = replay.showing /\ ~crossed =>
       more = {m} /\ replay.hasMore /\ m.from = replay.cursor

MoreKept == \A m \in more : MoreOK(m)

ReplayPart ==
  /\ replay \in ReplayState /\ more \subseteq MoreState /\ asked \in Nat /\ crossed \in BOOLEAN
  /\ ReplayKept /\ MoreKept

PagesOK == PagesTyped /\ ListKept /\ ReplayPart

-----------------------------------------------------------------------------
(* What is left of a sequence: what is not taken, in order, and each as    *)
(* often as before.                                                        *)
Leaves(seq, taken, left, S) ==
  /\ left \in Seq(S)
  /\ \A j \in DOMAIN left : \E i \in DOMAIN seq : left[j] = seq[i] /\ seq[i] \notin ToSet(taken)
  /\ ToSet(left) = ToSet(seq) \ ToSet(taken)
  /\ \A j, k \in DOMAIN left : j < k =>
       \E h, i \in DOMAIN seq : h < i /\ left[j] = seq[h] /\ left[k] = seq[i]

LEMMA WithoutLeaves ==
  ASSUME NEW S, NEW seq \in Seq(S), NEW taken
  PROVE  Leaves(seq, taken, Without(seq, taken), S)
<1> DEFINE kept == {i \in DOMAIN seq : seq[i] \notin ToSet(taken)}
           places == Enumerated(kept, Upwards(kept))
           n == Cardinality(kept)
           W == Without(seq, taken)
<1>1. Len(seq) \in Nat /\ DOMAIN seq = 1..Len(seq) /\ \A i \in DOMAIN seq : seq[i] \in S
  BY LenProperties, ElementOfSeq
<1>2. kept \subseteq DOMAIN seq /\ kept \subseteq Int
  BY <1>1
<1>3. IsFiniteSet(kept)
  <2>1. IsFiniteSet(1..Len(seq))
    BY <1>1, FS_Interval
  <2> HIDE DEF kept
  <2> QED  BY <1>1, <1>2, <2>1, FS_Subset
<1>4. Orders(Upwards(kept), kept)
  <2> HIDE DEF kept
  <2> QED  BY <1>2 DEF Orders, Upwards
<1>5. /\ n \in Nat /\ places \in [1..n -> kept]
      /\ \A i \in kept : \E j \in 1..n : places[j] = i
      /\ \A j, k \in 1..n : j < k => <<places[j], places[k]>> \in Upwards(kept)
  <2> HIDE DEF kept
  <2> QED  BY <1>3, <1>4, EnumeratedInOrder
<1>6. W = [j \in DOMAIN places |-> seq[places[j]]]
  BY DEF Without
<1>7. DOMAIN places = 1..n
  <2> HIDE DEF places, n
  <2> QED  BY <1>5
<1>8. DOMAIN W = 1..n /\ \A j \in 1..n : W[j] = seq[places[j]] /\ places[j] \in kept
  <2> HIDE DEF places, n, kept, W
  <2> QED  BY <1>5, <1>6, <1>7
<1>9. W \in Seq(S)
  <2>1. \A j \in 1..n : seq[places[j]] \in S
    <3> HIDE DEF places, n, kept
    <3> QED  BY <1>1, <1>2, <1>5
  <2>2. W = [j \in 1..n |-> seq[places[j]]]
    <3> HIDE DEF places, n, W
    <3> QED  BY <1>6, <1>7
  <2> HIDE DEF places, n, kept, W
  <2> QED  BY <1>5, <2>1, <2>2, IsASeq
<1>10. \A j \in DOMAIN W : \E i \in DOMAIN seq : W[j] = seq[i] /\ seq[i] \notin ToSet(taken)
  <2>1. \A i \in kept : i \in DOMAIN seq /\ seq[i] \notin ToSet(taken)
    OBVIOUS
  <2> HIDE DEF places, n, kept, W
  <2> QED  BY <1>8, <2>1
<1>11. ToSet(W) = ToSet(seq) \ ToSet(taken)
  <2>1. ASSUME NEW i \in DOMAIN seq, seq[i] \notin ToSet(taken)
        PROVE  \E j \in DOMAIN W : W[j] = seq[i]
    <3>1. i \in kept
      BY <2>1
    <3> HIDE DEF places, n, kept, W
    <3> QED  BY <1>5, <1>8, <3>1
  <2> HIDE DEF places, n, kept, W
  <2>2. ToSet(W) = {W[j] : j \in DOMAIN W} /\ ToSet(seq) = {seq[i] : i \in DOMAIN seq}
    BY DEF ToSet
  <2> HIDE DEF ToSet
  <2> QED  BY <1>10, <2>1, <2>2
<1>12. \A j, k \in DOMAIN W : j < k =>
         \E h, i \in DOMAIN seq : h < i /\ W[j] = seq[h] /\ W[k] = seq[i]
  <2> TAKE j, k \in DOMAIN W
  <2> HAVE j < k
  <2>1. <<places[j], places[k]>> \in Upwards(kept)
    <3> HIDE DEF places, n, kept, W
    <3> QED  BY <1>5, <1>8
  <2>2. places[j] < places[k] /\ places[j] \in DOMAIN seq /\ places[k] \in DOMAIN seq
    <3> HIDE DEF places, kept
    <3> QED  BY <1>2, <2>1 DEF Upwards
  <2> HIDE DEF places, n, kept, W
  <2> QED  BY <1>8, <2>2
<1> QED  BY <1>9, <1>10, <1>11, <1>12 DEF Leaves

(* A sequence of which nothing is taken is left as it is.                  *)
LEMMA WithoutNothing ==
  ASSUME NEW S, NEW seq \in Seq(S), NEW taken, ToSet(seq) \cap ToSet(taken) = {}
  PROVE  Without(seq, taken) = seq
<1> DEFINE n == Len(seq)
           kept == {i \in DOMAIN seq : seq[i] \notin ToSet(taken)}
           places == Enumerated(kept, Upwards(kept))
<1>1. n \in Nat /\ DOMAIN seq = 1..n
  BY LenProperties
<1>2. kept = 1..n
  BY <1>1 DEF ToSet
<1>3. Cardinality(1..n) = n
  <2> HIDE DEF n
  <2>1. Cardinality(1..n) = IF 1 > n THEN 0 ELSE n - 1 + 1
    BY <1>1, FS_Interval
  <2> QED  BY <1>1, <2>1
<1>4. ASSUME NEW i \in 1..n
      PROVE  Cardinality({h \in 1..n : <<h, i>> \in Upwards(1..n)}) = i - 1
  <2> DEFINE D == {h \in 1..n : <<h, i>> \in Upwards(1..n)}
  <2> HIDE DEF n
  <2>1. D = 1..(i - 1)
    BY <1>1 DEF Upwards
  <2>2. Cardinality(1..(i - 1)) = IF 1 > i - 1 THEN 0 ELSE i - 1 - 1 + 1
    <3>1. 1 \in Int /\ i - 1 \in Int
      BY <1>1
    <3> QED  BY <3>1, FS_Interval
  <2>3. i \in Int /\ i >= 1
    BY <1>1
  <2>4. Cardinality(D) = i - 1
    <3> HIDE DEF D
    <3> QED  BY <2>1, <2>2, <2>3
  <2> QED  BY <2>4
<1>5. places = [j \in 1..n |->
                  CHOOSE i \in 1..n : Cardinality({h \in 1..n : <<h, i>> \in Upwards(1..n)}) = j - 1]
  <2> HIDE DEF n, kept
  <2> QED  BY <1>2, <1>3 DEF Enumerated
<1>6. ASSUME NEW j \in 1..n
      PROVE  places[j] = j
  <2>1. places[j] \in 1..n /\
        Cardinality({h \in 1..n : <<h, places[j]>> \in Upwards(1..n)}) = j - 1
    <3> HIDE DEF n, places
    <3> QED  BY <1>4, <1>5
  <2> HIDE DEF n, places
  <2>2. places[j] - 1 = j - 1
    BY <1>4, <2>1
  <2> QED  BY <1>1, <2>1, <2>2
<1>7. Without(seq, taken) = [j \in DOMAIN places |-> seq[places[j]]]
  BY DEF Without
<1>8. DOMAIN places = 1..n
  <2> HIDE DEF n, places
  <2> QED  BY <1>5
<1>9. seq = [j \in 1..n |-> seq[j]]
  BY <1>1
<1> HIDE DEF n, places
<1> QED  BY <1>6, <1>7, <1>8, <1>9

-----------------------------------------------------------------------------
(* Keys are totally ordered.                                               *)
LEMMA BeforeOrders ==
  /\ \A k \in Pair : ~Before(k, k)
  /\ \A k, l \in Pair : k = l \/ Before(k, l) \/ Before(l, k)
  /\ \A k, l, m \in Pair : Before(k, l) /\ Before(l, m) => Before(k, m)
<1>1. \A k \in Pair : k = <<k[1], k[2]>> /\ k[1] \in Nat /\ k[2] \in Nat
  BY DEF Pair
<1>2. \A k \in Pair : ~Before(k, k)
  BY <1>1 DEF Before
<1>3. \A k, l \in Pair : k = l \/ Before(k, l) \/ Before(l, k)
  <2> SUFFICES ASSUME NEW k \in Pair, NEW l \in Pair, ~Before(k, l), ~Before(l, k)
               PROVE  k = l
    OBVIOUS
  <2>1. k[1] = l[1] /\ k[2] = l[2]
    BY <1>1 DEF Before
  <2> QED  BY <1>1, <2>1
<1>4. \A k, l, m \in Pair : Before(k, l) /\ Before(l, m) => Before(k, m)
  BY <1>1 DEF Before
<1> QED  BY <1>2, <1>3, <1>4

(* What is not before a key that is before another comes before that one.  *)
LEMMA BeforeBeyond ==
  ASSUME NEW k \in Pair, NEW l \in Pair, NEW c \in Pair, ~Before(c, k), Before(c, l)
  PROVE  Before(k, l)
BY BeforeOrders

(* Two sequences one after the other.                                      *)
LEMMA OneAfterOther ==
  ASSUME NEW S, NEW s \in Seq(S), NEW t \in Seq(S)
  PROVE  /\ s \o t \in Seq(S)
         /\ ToSet(s \o t) = ToSet(s) \cup ToSet(t)
         /\ \A i \in DOMAIN (s \o t) :
              \/ i \in DOMAIN s /\ (s \o t)[i] = s[i]
              \/ \E j \in DOMAIN t : i = Len(s) + j /\ (s \o t)[i] = t[j]
         /\ s \o t = <<>> => s = <<>> /\ t = <<>>
<1>1. /\ Len(s) \in Nat /\ DOMAIN s = 1..Len(s) /\ Len(t) \in Nat /\ DOMAIN t = 1..Len(t)
      /\ s \o t \in Seq(S)
  BY LenProperties, ConcatProperties
<1>2. /\ Len(s \o t) = Len(s) + Len(t)
      /\ DOMAIN (s \o t) = 1..(Len(s) + Len(t))
  BY <1>1, LenProperties, ConcatProperties
<1>3. /\ \A i \in DOMAIN s : i \in DOMAIN (s \o t) /\ (s \o t)[i] = s[i]
      /\ \A j \in DOMAIN t : Len(s) + j \in DOMAIN (s \o t) /\ (s \o t)[Len(s) + j] = t[j]
  BY <1>1, <1>2
<1>4. ASSUME NEW i \in DOMAIN (s \o t)
      PROVE  \/ i \in DOMAIN s /\ (s \o t)[i] = s[i]
             \/ \E j \in DOMAIN t : i = Len(s) + j /\ (s \o t)[i] = t[j]
  <2>1. CASE i <= Len(s)
    <3>1. i \in DOMAIN s
      BY <1>1, <1>2, <2>1
    <3> QED  BY <1>3, <3>1
  <2>2. CASE i > Len(s)
    <3>1. i - Len(s) \in DOMAIN t /\ i = Len(s) + (i - Len(s))
      BY <1>1, <1>2, <2>2
    <3> QED  BY <1>3, <3>1
  <2> QED  BY <1>1, <1>2, <2>1, <2>2
<1>5. ToSet(s \o t) = ToSet(s) \cup ToSet(t)
  <2> DEFINE u == s \o t
  <2>1. /\ ToSet(u) = {u[i] : i \in DOMAIN u} /\ ToSet(s) = {s[i] : i \in DOMAIN s}
        /\ ToSet(t) = {t[i] : i \in DOMAIN t}
    BY DEF ToSet
  <2>2. \A i \in DOMAIN u : \/ i \in DOMAIN s /\ u[i] = s[i]
                            \/ \E j \in DOMAIN t : u[i] = t[j]
    BY <1>4
  <2>3. /\ \A i \in DOMAIN s : \E j \in DOMAIN u : u[j] = s[i]
        /\ \A i \in DOMAIN t : \E j \in DOMAIN u : u[j] = t[i]
    BY <1>3
  <2> HIDE DEF u
  <2>4. ToSet(u) = ToSet(s) \cup ToSet(t)
    BY ONLY <2>1, <2>2, <2>3
  <2> QED  BY <2>4 DEF u
<1>6. s \o t = <<>> => s = <<>> /\ t = <<>>
  BY <1>1, <1>2, EmptySeq
<1> QED  BY <1>1, <1>4, <1>5, <1>6

-----------------------------------------------------------------------------
(* What is said of the sessions of O holds of fewer, if their keys stay.   *)
LEMMA ListOfFewer ==
  ASSUME NEW e \in Seq(Sessions), NEW h, NEW c, NEW O, NEW K, ListOK(e, h, c, O, K),
         NEW P, P \subseteq O, NEW L, \A s \in P : L[s] = K[s]
  PROVE  ListOK(e, h, c, P, L)
<1>1. InOrder(e, P, L)
  BY DEF ListOK, InOrder
<1>2. e # <<>> => \A s \in P : s \notin ToSet(e) => h /\ Before(c, L[s])
  BY DEF ListOK
<1>3. h => /\ e # <<>> /\ c \in Pair
           /\ \A s \in P : s \in ToSet(e) => ~Before(c, L[s])
  BY DEF ListOK
<1> QED  BY <1>1, <1>2, <1>3 DEF ListOK

LEMMA PageOfFewer ==
  ASSUME NEW a, NEW from, NEW O, NEW K, PageOK(a, from, O, K),
         NEW P, P \subseteq O, NEW L, \A s \in P : L[s] = K[s]
  PROVE  PageOK(a, from, P, L)
<1>1. InOrder(a.items, P, L)
  BY DEF PageOK, InOrder
<1>2. \A s \in P : s \in ToSet(a.items) => Behind(from, L[s])
  BY DEF PageOK
<1>3. \A s \in P : s \notin ToSet(a.items) /\ Behind(from, L[s]) =>
        a.hasMore /\ Before(a.cursor, L[s])
  BY DEF PageOK
<1>4. a.hasMore => /\ a.items # <<>> /\ a.cursor \in Pair /\ Behind(from, a.cursor)
                   /\ \A s \in P : s \in ToSet(a.items) => ~Before(a.cursor, L[s])
  BY DEF PageOK
<1> QED  BY <1>1, <1>2, <1>3, <1>4 DEF PageOK

(* A page that begins where the list ends makes a longer list.             *)
LEMMA ListWithPage ==
  ASSUME NEW e \in Seq(Sessions), NEW h, NEW c, NEW a, NEW from \in Cursors,
         a.items \in Seq(Sessions),
         NEW O, O \subseteq Sessions, NEW K \in [Sessions -> Pair],
         ListOK(e, h, c, O, K), PageOK(a, from, O, K),
         IF from = NoCursor THEN e = <<>> ELSE h /\ from = c
  PROVE  /\ MergedEntries(e, a.items) \in Seq(Sessions)
         /\ ListOK(MergedEntries(e, a.items), a.hasMore, a.cursor, O, K)
<1> DEFINE new == Without(a.items, e)
           m == e \o new
<1>1. Leaves(a.items, e, new, Sessions)
  BY WithoutLeaves
<1>2. /\ new \in Seq(Sessions) /\ m \in Seq(Sessions)
      /\ ToSet(m) = ToSet(e) \cup ToSet(new)
      /\ \A i \in DOMAIN m :
           \/ i \in DOMAIN e /\ m[i] = e[i]
           \/ \E j \in DOMAIN new : i = Len(e) + j /\ m[i] = new[j]
      /\ m = <<>> => e = <<>> /\ new = <<>>
  <2>1. new \in Seq(Sessions)
    BY <1>1 DEF Leaves
  <2> HIDE DEF new
  <2> QED  BY <2>1, OneAfterOther
<1>3. m = MergedEntries(e, a.items)
  BY DEF MergedEntries
<1>4. ToSet(new) = ToSet(a.items) \ ToSet(e)
  BY <1>1 DEF Leaves
<1>5. /\ Len(e) \in Nat /\ DOMAIN e = 1..Len(e) /\ DOMAIN new \subseteq Nat \ {0}
      /\ \A i \in DOMAIN e : e[i] \in ToSet(e) /\ e[i] \in Sessions
      /\ \A j \in DOMAIN new : new[j] \in ToSet(new) /\ new[j] \in Sessions
  <2> HIDE DEF new
  <2> QED  BY <1>2, LenProperties, ElementOfSeq DEF ToSet
<1>6. ASSUME NEW j \in DOMAIN new, NEW k \in DOMAIN new, j < k
      PROVE  /\ new[j] # new[k]
             /\ new[j] \in O /\ new[k] \in O => Before(K[new[j]], K[new[k]])
  <2>1. PICK x \in DOMAIN a.items, y \in DOMAIN a.items :
               x < y /\ new[j] = a.items[x] /\ new[k] = a.items[y]
    BY <1>1, <1>6 DEF Leaves
  <2>2. DOMAIN a.items \subseteq Nat
    BY LenProperties
  <2>3. a.items[x] # a.items[y]
    BY <2>1, <2>2 DEF PageOK, IsInjective
  <2>4. a.items[x] \in O /\ a.items[y] \in O => Before(K[a.items[x]], K[a.items[y]])
    BY <2>1 DEF PageOK, InOrder
  <2> HIDE DEF new
  <2> QED  BY <2>1, <2>3, <2>4
<1>7. IsInjective(m)
  <2> SUFFICES ASSUME NEW i \in DOMAIN m, NEW k \in DOMAIN m, m[i] = m[k]
               PROVE  i = k
    BY DEF IsInjective
  <2>1. CASE i \in DOMAIN e /\ m[i] = e[i] /\ k \in DOMAIN e /\ m[k] = e[k]
    <3> HIDE DEF m
    <3> QED  BY <2>1 DEF ListOK, IsInjective
  <2>2. CASE /\ i \in DOMAIN e /\ m[i] = e[i]
             /\ \E j \in DOMAIN new : k = Len(e) + j /\ m[k] = new[j]
    <3> HIDE DEF m, new
    <3> QED  BY <1>4, <1>5, <2>2
  <2>3. CASE /\ k \in DOMAIN e /\ m[k] = e[k]
             /\ \E j \in DOMAIN new : i = Len(e) + j /\ m[i] = new[j]
    <3> HIDE DEF m, new
    <3> QED  BY <1>4, <1>5, <2>3
  <2>4. CASE /\ \E j \in DOMAIN new : i = Len(e) + j /\ m[i] = new[j]
             /\ \E j \in DOMAIN new : k = Len(e) + j /\ m[k] = new[j]
    <3>1. PICK x \in DOMAIN new, y \in DOMAIN new :
                 i = Len(e) + x /\ m[i] = new[x] /\ k = Len(e) + y /\ m[k] = new[y]
      BY <2>4
    <3> HIDE DEF m, new
    <3>2. ~(x < y) /\ ~(y < x)
      BY <1>6, <3>1
    <3> QED  BY <1>5, <3>1, <3>2
  <2> HIDE DEF m, new
  <2> QED  BY <1>2, <2>1, <2>2, <2>3, <2>4
<1>8. ASSUME NEW r \in O, r \in ToSet(e), NEW s \in O, s \in ToSet(a.items)
      PROVE  Before(K[r], K[s])
  <2>1. from # NoCursor
    BY <1>8 DEF ToSet
  <2>2. h /\ from = c /\ c \in Pair /\ ~Before(c, K[r])
    BY <1>8, <2>1 DEF ListOK
  <2>3. Before(c, K[s])
    BY <1>8, <2>1, <2>2 DEF PageOK, Behind
  <2> QED  BY <2>2, <2>3, BeforeBeyond
<1>9. InOrder(m, O, K)
  <2> SUFFICES ASSUME NEW i \in DOMAIN m, NEW k \in DOMAIN m, i < k, m[i] \in O, m[k] \in O
               PROVE  Before(K[m[i]], K[m[k]])
    BY DEF InOrder
  <2>1. CASE i \in DOMAIN e /\ m[i] = e[i] /\ k \in DOMAIN e /\ m[k] = e[k]
    <3> HIDE DEF m
    <3> QED  BY <2>1 DEF ListOK, InOrder
  <2>2. CASE /\ i \in DOMAIN e /\ m[i] = e[i]
             /\ \E j \in DOMAIN new : k = Len(e) + j /\ m[k] = new[j]
    <3> HIDE DEF m, new
    <3> QED  BY <1>4, <1>5, <1>8, <2>2
  <2>3. CASE /\ k \in DOMAIN e /\ m[k] = e[k]
             /\ \E j \in DOMAIN new : i = Len(e) + j /\ m[i] = new[j]
    <3> HIDE DEF m, new
    <3> QED  BY <1>5, <2>3
  <2>4. CASE /\ \E j \in DOMAIN new : i = Len(e) + j /\ m[i] = new[j]
             /\ \E j \in DOMAIN new : k = Len(e) + j /\ m[k] = new[j]
    <3>1. PICK x \in DOMAIN new, y \in DOMAIN new :
                 i = Len(e) + x /\ m[i] = new[x] /\ k = Len(e) + y /\ m[k] = new[y]
      BY <2>4
    <3> HIDE DEF m, new
    <3>2. x < y
      BY <1>5, <3>1
    <3> QED  BY <1>6, <3>1, <3>2
  <2> HIDE DEF m, new
  <2> QED  BY <1>2, <2>1, <2>2, <2>3, <2>4
<1>10. ASSUME NEW s \in O, s \notin ToSet(m)
       PROVE  a.hasMore /\ Before(a.cursor, K[s])
  <2>1. s \notin ToSet(e) /\ s \notin ToSet(a.items)
    <3> HIDE DEF m, new
    <3> QED  BY <1>2, <1>4, <1>10
  <2>2. CASE from = NoCursor
    BY <2>1, <2>2 DEF PageOK, Behind
  <2>3. CASE from # NoCursor
    <3>1. h /\ from = c /\ e # <<>>
      BY <2>3 DEF ListOK
    <3>2. Before(from, K[s])
      BY <2>1, <3>1 DEF ListOK
    <3> QED  BY <2>1, <3>2 DEF PageOK, Behind
  <2> QED  BY <2>2, <2>3
<1>11. ASSUME a.hasMore
       PROVE  /\ m # <<>> /\ a.cursor \in Pair
              /\ \A s \in O : s \in ToSet(m) => ~Before(a.cursor, K[s])
  <2>1. a.items # <<>> /\ a.cursor \in Pair /\ Behind(from, a.cursor)
    BY <1>11 DEF PageOK
  <2>2. m # <<>>
    <3>1. a.items[1] \in ToSet(a.items)
      BY <2>1, EmptySeq, LenProperties DEF ToSet
    <3>2. ToSet(<<>>) = {}
      BY DEF ToSet
    <3> HIDE DEF m, new
    <3> QED  BY <1>2, <1>4, <3>1, <3>2
  <2>3. ASSUME NEW s \in O, s \in ToSet(e), Before(a.cursor, K[s])
        PROVE  FALSE
    <3>1. from # NoCursor
      BY <2>3 DEF ToSet
    <3>2. from = c /\ c \in Pair /\ ~Before(c, K[s]) /\ Before(c, a.cursor)
      BY <2>1, <2>3, <3>1 DEF ListOK, Behind
    <3>3. K[s] \in Pair
      OBVIOUS
    <3> QED  BY <2>1, <2>3, <3>2, <3>3, BeforeOrders
  <2>4. ASSUME NEW s \in O, s \in ToSet(a.items)
        PROVE  ~Before(a.cursor, K[s])
    BY <1>11, <2>4 DEF PageOK
  <2> HIDE DEF m, new
  <2> QED  BY <1>2, <1>4, <2>1, <2>2, <2>3, <2>4
<1>12. ListOK(m, a.hasMore, a.cursor, O, K)
  <2> HIDE DEF m
  <2> QED  BY <1>7, <1>9, <1>10, <1>11 DEF ListOK
<1> QED  BY <1>2, <1>3, <1>12

-----------------------------------------------------------------------------
LEMMA KeysTyped ==
  ASSUME PagesTyped
  PROVE  /\ Keys \in [Sessions -> Pair]
         /\ \A s \in Sessions : Keys[s] = Key(s) /\ touched[s] \in Nat
         /\ \A r, s \in Sessions : Keys[r] = Keys[s] => r = s
BY PagesAssumption DEF PagesTyped, Keys, Key, Pair

(* What the query answers, of all sessions there are then.                 *)
LEMMA SessionsPageOK ==
  ASSUME PagesTyped, NEW cursor \in Cursors
  PROVE  /\ SessionsPage(cursor) \in Pages(Sessions)
         /\ PageOK(SessionsPage(cursor), cursor, Listed(NoCursor), Keys)
<1> DEFINE L == Listed(cursor)
           rows == Enumerated(L, NewestFirst)
           n == Cardinality(L)
           k == IF n > ListSize THEN ListSize ELSE n
           page == SubSeq(rows, 1, k)
           a == SessionsPage(cursor)
<1>1. /\ Keys \in [Sessions -> Pair]
      /\ \A s \in Sessions : Keys[s] = Key(s)
      /\ \A r, s \in Sessions : Keys[r] = Keys[s] => r = s
  BY KeysTyped
<1>2. L \subseteq Sessions /\ IsFiniteSet(L)
  <2>1. L \in SUBSET Sessions
    BY DEF Listed
  <2> HIDE DEF L
  <2> QED  BY <2>1, PagesAssumption, FS_Subset
<1>3. Orders(NewestFirst, L)
  <2>1. \A r, s \in L : <<r, s>> \in NewestFirst <=> Before(Keys[r], Keys[s])
    <3> HIDE DEF L
    <3> QED  BY <1>1, <1>2 DEF NewestFirst
  <2>2. \A s \in L : Keys[s] \in Pair
    <3> HIDE DEF L
    <3> QED  BY <1>1, <1>2
  <2>3. \A s \in L : <<s, s>> \notin NewestFirst
    <3> HIDE DEF L
    <3> QED  BY <2>1, <2>2, BeforeOrders
  <2>4. \A r, s \in L : r = s \/ <<r, s>> \in NewestFirst \/ <<s, r>> \in NewestFirst
    <3> HIDE DEF L
    <3> QED  BY <1>1, <1>2, <2>1, <2>2, BeforeOrders
  <2>5. \A r, s, t \in L : <<r, s>> \in NewestFirst /\ <<s, t>> \in NewestFirst =>
                             <<r, t>> \in NewestFirst
    <3> HIDE DEF L
    <3> QED  BY <2>1, <2>2, BeforeOrders
  <2> HIDE DEF L
  <2> QED  BY <2>3, <2>4, <2>5 DEF Orders
<1>4. /\ n \in Nat /\ rows \in [1..n -> L]
      /\ \A s \in L : \E j \in 1..n : rows[j] = s
      /\ \A i, j \in 1..n : i < j => <<rows[i], rows[j]>> \in NewestFirst
  <2> HIDE DEF L
  <2> QED  BY <1>2, <1>3, EnumeratedInOrder
<1>5. /\ ListSize \in Nat /\ ListSize >= 1 /\ k \in Nat /\ k <= n
      /\ n > ListSize => k = ListSize
      /\ ~(n > ListSize) => k = n
  <2> HIDE DEF n
  <2> QED  BY <1>4, PagesAssumption
<1>6. /\ rows \in Seq(Sessions) /\ Len(rows) = n /\ DOMAIN rows = 1..n
      /\ \A j \in 1..n : rows[j] \in L /\ rows[j] \in Sessions
  <2> HIDE DEF n, rows, L
  <2>1. rows \in [1..n -> Sessions] /\ \A j \in 1..n : rows[j] \in L
    BY <1>2, <1>4
  <2> QED  BY <1>4, <2>1
<1>7. \A i, j \in 1..n : i < j => Before(Keys[rows[i]], Keys[rows[j]])
  <2>1. \A r, s \in Sessions : <<r, s>> \in NewestFirst => Before(Keys[r], Keys[s])
    BY <1>1 DEF NewestFirst
  <2> HIDE DEF n, rows, L
  <2> QED  BY <1>4, <1>6, <2>1
<1>8. /\ page \in Seq(Sessions) /\ Len(page) = k /\ DOMAIN page = 1..k
      /\ \A j \in 1..k : page[j] = rows[j]
  <2> HIDE DEF n, k, rows, L
  <2>1. 1..k \subseteq 1..n
    BY <1>4, <1>5
  <2> QED  BY <1>4, <1>5, <1>6, <2>1
<1>9. /\ a.items = page /\ (a.hasMore <=> n > ListSize) /\ a.hasMore \in BOOLEAN
      /\ a.cursor = IF n > ListSize THEN Key(Last(page)) ELSE NoCursor
  <2>1. a = [items |-> SubSeq(rows, 1, IF Len(rows) > ListSize THEN ListSize ELSE Len(rows)),
             hasMore |-> Len(rows) > ListSize,
             cursor |-> IF Len(rows) > ListSize
                          THEN Key(Last(SubSeq(rows, 1, IF Len(rows) > ListSize
                                                          THEN ListSize ELSE Len(rows))))
                          ELSE NoCursor]
    BY DEF SessionsPage
  <2> HIDE DEF a, rows, L
  <2>2. a = [items |-> page, hasMore |-> n > ListSize,
             cursor |-> IF n > ListSize THEN Key(Last(page)) ELSE NoCursor]
    BY <1>6, <2>1
  <2> DEFINE further == n > ListSize
             c == IF further THEN Key(Last(page)) ELSE NoCursor
  <2>3. a = [items |-> page, hasMore |-> further, cursor |-> c]
    BY <2>2
  <2>4. further \in BOOLEAN
    OBVIOUS
  <2> HIDE DEF n, page, further, c
  <2>5. a.items = page /\ a.hasMore = further /\ a.cursor = c
    BY <2>3
  <2> QED  BY <2>4, <2>5 DEF further, c
<1>10. n > ListSize => /\ k >= 1 /\ k < n /\ a.cursor = Keys[rows[k]]
                       /\ a.cursor \in Pair /\ rows[k] \in L
  <2> SUFFICES ASSUME n > ListSize
               PROVE  /\ k >= 1 /\ k < n /\ a.cursor = Keys[rows[k]]
                      /\ a.cursor \in Pair /\ rows[k] \in L
    OBVIOUS
  <2> HIDE DEF n, k, rows, page, a, L
  <2>1. k >= 1 /\ k < n /\ k \in 1..n /\ k \in 1..k
    BY <1>4, <1>5
  <2>2. Last(page) = rows[k]
    BY <1>8, <2>1 DEF Last
  <2> QED  BY <1>1, <1>6, <1>9, <2>1, <2>2
<1>11. a \in Pages(Sessions)
  <2>1. a.cursor \in Cursors
    <3> HIDE DEF n, page, a, k, rows, L
    <3> QED  BY <1>9, <1>10 DEF Cursors
  <2>2. a = [items |-> a.items, hasMore |-> a.hasMore, cursor |-> a.cursor]
    BY DEF SessionsPage
  <2> HIDE DEF n, page, a, k, rows, L
  <2> QED  BY <1>8, <1>9, <2>1, <2>2 DEF Pages
<1>12. IsInjective(page) /\ InOrder(page, Listed(NoCursor), Keys)
  <2> HIDE DEF n, page, a, k, rows, L
  <2>1. \A i \in 1..k : i \in 1..n /\ page[i] = rows[i] /\ Keys[rows[i]] \in Pair
    BY <1>1, <1>4, <1>5, <1>6, <1>8
  <2>2. \A i, j \in 1..k : i < j => Before(Keys[page[i]], Keys[page[j]])
    BY <1>7, <2>1
  <2>3. \A i, j \in 1..k : i < j => page[i] # page[j]
    BY <2>1, <2>2, BeforeOrders
  <2>4. \A i, j \in 1..k : i < j \/ j < i \/ i = j
    BY <1>5
  <2>5. IsInjective(page)
    BY <1>8, <2>3, <2>4 DEF IsInjective
  <2> QED  BY <1>8, <2>2, <2>5 DEF InOrder
<1>13. \A s \in Sessions : s \in L <=> s \in Listed(NoCursor) /\ Behind(cursor, Keys[s])
  BY <1>1 DEF Listed, Follows, Behind
<1>14. \A s \in ToSet(page) : s \in L /\ \E j \in 1..k : s = rows[j] /\ j \in 1..n
  <2>1. \A s \in ToSet(page) : \E j \in DOMAIN page : s = page[j]
    BY DEF ToSet
  <2> HIDE DEF n, page, a, k, rows, L
  <2> QED  BY <1>4, <1>5, <1>6, <1>8, <2>1
<1>15. ASSUME NEW s \in Listed(NoCursor), s \notin ToSet(page), Behind(cursor, Keys[s])
       PROVE  n > ListSize /\ Before(a.cursor, Keys[s])
  <2>1. s \in L
    BY <1>13, <1>15 DEF Listed
  <2>2. PICK j \in 1..n : rows[j] = s
    <3> HIDE DEF n, rows, L
    <3> QED  BY <1>4, <2>1
  <2>3. j \notin 1..k
    <3> SUFFICES ASSUME j \in 1..k
                 PROVE  FALSE
      OBVIOUS
    <3> HIDE DEF n, page, a, k, rows, L
    <3> QED  BY <1>8, <1>15, <2>2 DEF ToSet
  <2> HIDE DEF n, page, a, k, rows, L
  <2>4. k < j /\ n > ListSize
    BY <1>4, <1>5, <2>2, <2>3
  <2> QED  BY <1>4, <1>5, <1>7, <1>10, <2>2, <2>4
<1>16. ASSUME n > ListSize, NEW s \in ToSet(page)
       PROVE  ~Before(a.cursor, Keys[s])
  <2> HIDE DEF n, page, a, k, rows, L
  <2>1. PICK j \in 1..k : s = rows[j] /\ j \in 1..n
    BY <1>14
  <2>2. k \in 1..n /\ Keys[rows[j]] \in Pair /\ a.cursor = Keys[rows[k]] /\ a.cursor \in Pair
    BY <1>1, <1>4, <1>5, <1>6, <1>10, <1>16, <2>1
  <2>3. j = k \/ j < k
    BY <1>5, <2>1
  <2>4. CASE j = k
    BY <2>1, <2>2, <2>4, BeforeOrders
  <2>5. CASE j < k
    <3>1. Before(Keys[s], a.cursor)
      BY <1>7, <2>1, <2>2, <2>5
    <3> QED  BY <2>1, <2>2, <3>1, BeforeOrders
  <2> QED  BY <2>3, <2>4, <2>5
<1>17. PageOK(a, cursor, Listed(NoCursor), Keys)
  <2>1. \A s \in ToSet(page) : Behind(cursor, Keys[s])
    <3> HIDE DEF n, page, a, k, rows, L
    <3> QED  BY <1>2, <1>13, <1>14
  <2>2. n > ListSize => page # <<>> /\ Behind(cursor, a.cursor)
    <3> HIDE DEF n, page, a, k, rows, L
    <3>1. n > ListSize => page # <<>>
      BY <1>8, <1>10, EmptySeq
    <3>2. n > ListSize => Behind(cursor, a.cursor)
      BY <1>2, <1>10, <1>13
    <3> QED  BY <3>1, <3>2
  <2> HIDE DEF n, page, a, k, rows, L
  <2> QED  BY <1>9, <1>10, <1>12, <1>15, <1>16, <2>1, <2>2 DEF PageOK
<1> QED  BY <1>11, <1>17

-----------------------------------------------------------------------------
(* What the list state says, kept by whatever leaves it alone.             *)
LEMMA ListUntouched ==
  ASSUME ListKept, list' = list, Undisturbed' \subseteq Undisturbed, PagesTyped,
         \A s \in Undisturbed' : Keys'[s] = Keys[s]
  PROVE  ListKept'
<1>1. list.entries \in Seq(Sessions)
  BY DEF PagesTyped, ListState
<1>2. ListOK(list.entries, list.hasMore, list.cursor, Undisturbed', Keys')
  BY <1>1, ListOfFewer DEF ListKept
<1>3. list.pc = "answered" => PageOK(list.answer, list.from, Undisturbed', Keys')
  BY PageOfFewer DEF ListKept
<1> QED  BY <1>2, <1>3 DEF ListKept

LEMMA ListServedKept ==
  ASSUME PagesTyped, ListKept, ListServed
  PROVE  ListKept'
<1> DEFINE a == SessionsPage(list.from)
<1>1. list \in ListState /\ list.from \in Cursors /\ list.entries \in Seq(Sessions)
  BY DEF PagesTyped, ListState
<1>2. PageOK(a, list.from, Listed(NoCursor), Keys)
  BY <1>1, SessionsPageOK
<1>3. /\ list' = [list EXCEPT !.pc = "answered", !.answer = a]
      /\ touched' = touched /\ list.pc = "sent"
  BY DEF ListServed
<1>4. Undisturbed' \subseteq Listed(NoCursor) /\ Keys' = Keys
  BY <1>3 DEF Undisturbed, Listed, Keys, Key
<1>5. /\ list'.pc = "answered" /\ list'.answer = a /\ list'.from = list.from
      /\ list'.entries = list.entries /\ list'.hasMore = list.hasMore
      /\ list'.cursor = list.cursor
  <2> HIDE DEF a
  <2> QED  BY <1>1, <1>3 DEF ListState
<1>6. PageOK(a, list.from, Undisturbed', Keys')
  <2> HIDE DEF a
  <2> QED  BY <1>2, <1>4, PageOfFewer
<1>7. ListOK(list.entries, list.hasMore, list.cursor, Undisturbed', Keys')
  <2>1. CASE list.from = NoCursor
    <3>1. list.entries = <<>> /\ ~list.hasMore
      BY <1>3, <2>1 DEF ListKept, ListOK
    <3>2. IsInjective(<<>>) /\ \A O, K : InOrder(<<>>, O, K)
      BY DEF IsInjective, InOrder
    <3> QED  BY <3>1, <3>2 DEF ListOK
  <2>2. CASE list.from # NoCursor
    <3>1. stirred' = stirred
      BY <2>2 DEF ListServed
    <3>2. Undisturbed' = Undisturbed
      BY <1>3, <3>1 DEF Undisturbed
    <3> QED  BY <1>4, <3>2 DEF ListKept
  <2> QED  BY <2>1, <2>2
<1> HIDE DEF a
<1> QED  BY <1>3, <1>5, <1>6, <1>7 DEF ListKept

LEMMA ListArrivesKept ==
  ASSUME PagesTyped, ListKept, ListArrives
  PROVE  /\ ListKept'
         /\ list' \in ListState
<1> DEFINE a == list.answer
           m == MergedEntries(list.entries, a.items)
<1>1. /\ list \in ListState /\ list.from \in Cursors /\ list.entries \in Seq(Sessions)
      /\ a \in Pages(Sessions)
  BY DEF PagesTyped, ListState
<1>2. a.items \in Seq(Sessions) /\ a.hasMore \in BOOLEAN /\ a.cursor \in Cursors
  BY <1>1 DEF Pages
<1>3. list' = Arrived(a) /\ touched' = touched /\ stirred' = stirred /\ list.pc = "answered"
  BY DEF ListArrives
<1>4. Undisturbed' = Undisturbed /\ Keys' = Keys
  BY <1>3 DEF Undisturbed, Keys, Key
<1>5. /\ list'.pc = "idle" /\ list'.entries = m /\ list'.hasMore = a.hasMore
      /\ list'.cursor = a.cursor /\ list'.from = list.from /\ list'.answer = Failed
  <2> HIDE DEF m
  <2> QED  BY <1>1, <1>3 DEF ListState, Arrived, m
<1>6. Keys \in [Sessions -> Pair] /\ Undisturbed \subseteq Sessions
  BY KeysTyped DEF Undisturbed
<1>7. m \in Seq(Sessions) /\ ListOK(m, a.hasMore, a.cursor, Undisturbed, Keys)
  <2> HIDE DEF a
  <2>1. ListOK(list.entries, list.hasMore, list.cursor, Undisturbed, Keys)
    BY DEF ListKept
  <2>2. PageOK(a, list.from, Undisturbed, Keys)
    BY <1>3 DEF ListKept, a
  <2>3. IF list.from = NoCursor THEN list.entries = <<>>
                                ELSE list.hasMore /\ list.from = list.cursor
    BY <1>3 DEF ListKept
  <2> QED  BY <1>1, <1>2, <1>6, <2>1, <2>2, <2>3, ListWithPage
<1>8. ListKept'
  <2> HIDE DEF m, a
  <2> QED  BY <1>4, <1>5, <1>7 DEF ListKept
<1>9. Failed \in Pages(Sessions)
  BY DEF Failed, Pages, Cursors
<1>10. list' \in ListState
  <2>1. list' = [list EXCEPT !.entries = m, !.hasMore = a.hasMore, !.cursor = a.cursor,
                             !.pc = "idle", !.answer = Failed]
    BY <1>3 DEF Arrived
  <2> HIDE DEF m, a
  <2> QED  BY <1>1, <1>2, <1>7, <1>9, <2>1 DEF ListState, Pcs
<1> QED  BY <1>8, <1>10

-----------------------------------------------------------------------------
LEMMA PractiseKeeps ==
  ASSUME PagesTyped, ListKept, NEW s \in Sessions, Practise(s)
  PROVE  ListKept' /\ touched' \in [Sessions -> Nat] /\ lines' \in [Sessions -> Nat \ {0}]
<1>1. PICK now \in 1..(MaxTurns + 1) : touched' = [touched EXCEPT ![s] = now]
  BY DEF Practise
<1>2. now \in Nat /\ now # 0
  BY PagesAssumption
<1>3. touched \in [Sessions -> Nat] /\ lines \in [Sessions -> Nat \ {0}]
  BY DEF PagesTyped
<1>4. /\ touched' \in [Sessions -> Nat]
      /\ \A r \in Sessions : r # s => touched'[r] = touched[r]
  BY <1>1, <1>2, <1>3
<1>5. lines' \in [Sessions -> Nat \ {0}]
  BY <1>3 DEF Practise
<1>6. /\ stirred' = stirred \cup {s} /\ list' = list
  BY DEF Practise
<1>7. Undisturbed' \subseteq Undisturbed /\ \A r \in Undisturbed' : r \in Sessions /\ r # s
  BY <1>4, <1>6 DEF Undisturbed
<1>8. \A r \in Undisturbed' : Keys'[r] = Keys[r]
  BY <1>4, <1>7 DEF Keys, Key
<1>9. ListKept'
  BY <1>6, <1>7, <1>8, ListUntouched
<1> QED  BY <1>4, <1>5, <1>9

LEMMA ListIdleKept ==
  ASSUME PagesTyped, ListKept, ListFails \/ LoadMoreHistory
  PROVE  ListKept' /\ list' \in ListState
<1>1. list \in ListState
  BY DEF PagesTyped
<1>2. Undisturbed' = Undisturbed /\ Keys' = Keys
  BY DEF ListFails, LoadMoreHistory, Undisturbed, Keys, Key
<1>3. Failed \in Pages(Sessions)
  BY DEF Failed, Pages, Cursors
<1>4. CASE ListFails
  <2>1. list' = [list EXCEPT !.pc = "idle", !.answer = Failed]
    BY <1>4 DEF ListFails
  <2>2. /\ list'.entries = list.entries /\ list'.hasMore = list.hasMore
        /\ list'.cursor = list.cursor /\ list'.pc = "idle"
    BY <1>1, <2>1 DEF ListState
  <2>3. list' \in ListState
    BY <1>1, <1>3, <2>1 DEF ListState, Pcs
  <2> QED  BY <1>2, <2>2, <2>3 DEF ListKept
<1>5. CASE LoadMoreHistory
  <2>1. /\ list' = [list EXCEPT !.pc = "sent", !.from = list.cursor]
        /\ list.hasMore /\ list.cursor # NoCursor
    BY <1>5 DEF LoadMoreHistory
  <2>2. /\ list'.entries = list.entries /\ list'.hasMore = list.hasMore
        /\ list'.cursor = list.cursor /\ list'.pc = "sent" /\ list'.from = list.cursor
    BY <1>1, <2>1 DEF ListState
  <2>3. list' \in ListState
    BY <1>1, <2>1 DEF ListState, Pcs
  <2> QED  BY <1>2, <2>1, <2>2, <2>3 DEF ListKept
<1> QED  BY <1>4, <1>5

LEMMA ListServedTyped ==
  ASSUME PagesTyped, ListServed
  PROVE  list' \in ListState /\ stirred' \subseteq Sessions
<1>1. list \in ListState /\ list.from \in Cursors /\ stirred \subseteq Sessions
  BY DEF PagesTyped, ListState
<1>2. SessionsPage(list.from) \in Pages(Sessions)
  BY <1>1, SessionsPageOK
<1>3. list' = [list EXCEPT !.pc = "answered", !.answer = SessionsPage(list.from)]
  BY DEF ListServed
<1>4. stirred' \subseteq Sessions
  BY <1>1 DEF ListServed
<1> HIDE DEF SessionsPage
<1> QED  BY <1>1, <1>2, <1>3, <1>4 DEF ListState, Pcs

-----------------------------------------------------------------------------
(* A page of messages of session s is an unbroken run that ends before     *)
(* the message to.                                                         *)
RunTo(page, s, to) ==
  \E a \in Nat, k \in Nat :
    /\ to = a + k /\ (to > 0 => k > 0)
    /\ page.items = Run(s, a, k)
    /\ page.hasMore <=> a > 0
    /\ page.hasMore => page.cursor = Line(s, a)

LEMMA StretchRuns ==
  ASSUME NEW s \in Nat, NEW to \in Nat
  PROVE  Stretch(s, to) \in Pages(Pair) /\ RunTo(Stretch(s, to), s, to)
<1> DEFINE page == Stretch(s, to)
           a == IF to > ReplaySize THEN to - ReplaySize ELSE 0
           n == to - a
           items == Run(s, a, n)
           h == a > 0
           c == IF a > 0 THEN Line(s, a) ELSE NoCursor
<1>1. ReplaySize \in Nat /\ ReplaySize >= 1
  BY PagesAssumption
<1>2. a \in Nat /\ n \in Nat /\ to = a + n /\ (to > 0 => n > 0)
  BY <1>1
<1>3. page = [items |-> items, hasMore |-> h, cursor |-> c]
  BY DEF Stretch, Run
<1>4. h \in BOOLEAN
  OBVIOUS
<1> HIDE DEF page, h, c, items, n, a
<1>5. items \in Seq(Pair)
  <2>1. items \in [1..n -> Pair]
    BY <1>2 DEF items, Run, Line, Pair
  <2> QED  BY <1>2, <2>1
<1>6. Line(s, a) \in Pair
  BY <1>2 DEF Line, Pair
<1>7. c \in Cursors
  BY <1>6 DEF c, Cursors
<1>8. page \in Pages(Pair)
  BY <1>3, <1>4, <1>5, <1>7 DEF Pages
<1>9. page.items = items /\ page.hasMore = h /\ page.cursor = c
  BY <1>3
<1>10. /\ page.items = Run(s, a, n)
       /\ page.hasMore <=> a > 0
       /\ page.hasMore => page.cursor = Line(s, a)
  BY <1>9 DEF h, c, items
<1>11. RunTo(page, s, to)
  BY <1>2, <1>10 DEF RunTo
<1> QED  BY <1>8, <1>11 DEF page

(* A run before a run makes one run.                                       *)
LEMMA RunsMerge ==
  ASSUME NEW s \in Nat, NEW a \in Nat, NEW b \in Nat, NEW k \in Nat,
         NEW n \in Nat \ {0}, b = a + k
  PROVE  MergedMessages(Run(s, a, k), Run(s, b, n)) = Run(s, a, k + n)
<1> DEFINE u == Run(s, a, k)
           v == Run(s, b, n)
           r == Run(s, a, k + n)
<1>1. k \in Nat /\ n \in Nat /\ k + n \in Nat /\ b = a + k
  OBVIOUS
<1>2. ASSUME NEW t \in Nat, NEW c \in Nat
      PROVE  /\ Run(s, c, t) \in Seq(Pair) /\ Len(Run(s, c, t)) = t
             /\ DOMAIN Run(s, c, t) = 1..t
             /\ \A i \in 1..t : Run(s, c, t)[i] = <<s, c + i - 1>>
  <2> DEFINE w == Run(s, c, t)
  <2>1. w \in [1..t -> Pair] /\ \A i \in 1..t : w[i] = <<s, c + i - 1>>
    BY DEF Run, Line, Pair
  <2> HIDE DEF w
  <2>2. w \in Seq(Pair) /\ Len(w) = t /\ DOMAIN w = 1..t
    BY <2>1
  <2> QED  BY <2>1, <2>2 DEF w
<1>3. /\ u \in Seq(Pair) /\ Len(u) = k /\ DOMAIN u = 1..k
      /\ \A i \in 1..k : u[i] = <<s, a + i - 1>>
  BY <1>1, <1>2
<1>4. /\ v \in Seq(Pair) /\ Len(v) = n /\ DOMAIN v = 1..n
      /\ \A i \in 1..n : v[i] = <<s, b + i - 1>>
  BY <1>1, <1>2
<1>5. /\ r \in Seq(Pair) /\ Len(r) = k + n
      /\ \A i \in 1..(k + n) : r[i] = <<s, a + i - 1>>
  BY <1>1, <1>2
<1> HIDE DEF u, v, r
<1>6. ToSet(u) \cap ToSet(v) = {}
  <2> SUFFICES ASSUME NEW i \in 1..k, NEW j \in 1..n, u[i] = v[j]
               PROVE  FALSE
    BY <1>3, <1>4 DEF ToSet
  <2>1. <<s, a + i - 1>> = <<s, b + j - 1>>
    BY <1>3, <1>4
  <2>2. a + i - 1 = b + j - 1
    BY <2>1
  <2> QED  BY <1>1, <2>2
<1>7. Without(u, v) = u
  BY <1>3, <1>6, WithoutNothing
<1> DEFINE w == u \o v
<1>8. /\ w \in Seq(Pair) /\ Len(w) = k + n
      /\ \A i \in 1..(k + n) : w[i] = IF i <= k THEN u[i] ELSE v[i - k]
  <2>1. /\ w \in Seq(Pair) /\ Len(w) = Len(u) + Len(v)
        /\ \A i \in 1..(Len(u) + Len(v)) : w[i] = IF i <= Len(u) THEN u[i] ELSE v[i - Len(u)]
    BY <1>3, <1>4, ConcatProperties
  <2> HIDE DEF w
  <2> QED  BY <1>3, <1>4, <2>1
<1> HIDE DEF w
<1>9. ASSUME NEW i \in 1..(k + n)
      PROVE  w[i] = r[i]
  <2>1. CASE i <= k
    <3>1. i \in 1..k
      BY <1>1, <2>1
    <3> QED  BY <1>3, <1>5, <1>8, <2>1, <3>1
  <2>2. CASE i > k
    <3>1. i - k \in 1..n /\ b + (i - k) - 1 = a + i - 1 /\ ~(i <= k)
      BY <1>1, <2>2
    <3>2. PICK j \in 1..n : j = i - k
      BY <3>1
    <3>3. v[j] = <<s, b + j - 1>> /\ b + j - 1 = a + i - 1
      BY <1>4, <3>1, <3>2
    <3>4. v[j] = r[i]
      BY <1>5, <3>3
    <3> QED  BY <1>8, <3>1, <3>2, <3>4
  <2> QED  BY <1>1, <2>1, <2>2
<1>10. w = r
  BY <1>5, <1>8, <1>9, SeqEqual
<1>11. MergedMessages(u, v) = w
  BY <1>7 DEF MergedMessages, w
<1> QED  BY <1>10, <1>11 DEF u, v, r

LEMMA MergedTyped ==
  ASSUME NEW s \in Seq(Pair), NEW t \in Seq(Pair)
  PROVE  MergedMessages(s, t) \in Seq(Pair)
<1>1. Without(s, t) \in Seq(Pair)
  BY WithoutLeaves DEF Leaves
<1> QED  BY <1>1 DEF MergedMessages

-----------------------------------------------------------------------------
(* What is shown, and the requests for more of it, as they were.           *)
LEMMA ShownUntouched ==
  ASSUME ReplayPart, replay' \in ReplayState,
         replay'.shown = replay.shown, replay'.showing = replay.showing,
         replay'.messages = replay.messages, replay'.hasMore = replay.hasMore,
         replay'.cursor = replay.cursor, more' = more, crossed' = crossed,
         asked' \in Nat,
         replay'.pc = "sent" => replay'.active \in Sessions,
         replay'.pc = "answered" =>
           \E to \in Nat \ {0} : replay'.answer = Stretch(replay'.active, to)
  PROVE  ReplayPart'
<1>1. ReplayKept'
  BY DEF ReplayPart, ReplayKept
<1>2. MoreKept'
  <2> SUFFICES ASSUME NEW m \in more'
               PROVE  MoreOK(m)'
    BY DEF MoreKept
  <2>1. MoreOK(m)
    BY DEF ReplayPart, MoreKept
  <2> QED  BY <2>1 DEF MoreOK
<1> QED  BY <1>1, <1>2 DEF ReplayPart

LEMMA SelectedKeeps ==
  ASSUME ReplayPart, NEW s \in Sessions, replay' = Selected(s), asked' = asked + 1,
         more' = more, crossed' = crossed
  PROVE  ReplayPart'
<1>1. replay \in ReplayState /\ asked \in Nat /\ s \in Nat
  BY PagesAssumption DEF ReplayPart
<1>2. Failed \in Pages(Pair)
  BY DEF Failed, Pages, Cursors
<1>3. replay' = [replay EXCEPT !.active = s, !.loading = TRUE, !.pc = "sent", !.answer = Failed]
  BY DEF Selected
<1>4. replay' \in ReplayState
  BY <1>1, <1>2, <1>3 DEF ReplayState, Pcs
<1>5. /\ replay'.shown = replay.shown /\ replay'.showing = replay.showing
      /\ replay'.messages = replay.messages /\ replay'.hasMore = replay.hasMore
      /\ replay'.cursor = replay.cursor /\ replay'.pc = "sent" /\ replay'.active = s
  BY <1>1, <1>3 DEF ReplayState
<1> QED  BY <1>1, <1>4, <1>5, ShownUntouched

LEMMA ReplayServedKeeps ==
  ASSUME ReplayPart, lines \in [Sessions -> Nat \ {0}], ReplayServed
  PROVE  ReplayPart'
<1> DEFINE s == replay.active
           page == Stretch(s, lines[s])
<1>1. replay \in ReplayState /\ s \in Nat /\ s \in Sessions
  BY DEF ReplayPart, ReplayState, ReplayKept, ReplayServed
<1>2. lines[s] \in Nat \ {0}
  BY <1>1
<1>3. page \in Pages(Pair)
  BY <1>1, <1>2, StretchRuns
<1>4. replay' = [replay EXCEPT !.pc = "answered", !.answer = page]
  BY DEF ReplayServed, MessagesPage
<1> HIDE DEF page
<1>5. replay' \in ReplayState
  BY <1>1, <1>3, <1>4 DEF ReplayState, Pcs
<1>6. /\ replay'.shown = replay.shown /\ replay'.showing = replay.showing
      /\ replay'.messages = replay.messages /\ replay'.hasMore = replay.hasMore
      /\ replay'.cursor = replay.cursor /\ replay'.pc = "answered"
      /\ replay'.active = replay.active /\ replay'.answer = page
  BY <1>1, <1>4 DEF ReplayState
<1>7. \E to \in Nat \ {0} : replay'.answer = Stretch(replay'.active, to)
  BY <1>2, <1>6 DEF page
<1>8. more' = more /\ crossed' = crossed /\ asked' \in Nat
  BY DEF ReplayServed, ReplayPart
<1> QED  BY <1>5, <1>6, <1>7, <1>8, ShownUntouched

LEMMA ReplayFailsKeeps ==
  ASSUME ReplayPart, ReplayFails
  PROVE  ReplayPart'
<1>1. replay \in ReplayState
  BY DEF ReplayPart
<1>2. Failed \in Pages(Pair)
  BY DEF Failed, Pages, Cursors
<1>3. replay' = [replay EXCEPT !.loading = FALSE, !.pc = "idle", !.answer = Failed]
  BY DEF ReplayFails
<1>4. replay' \in ReplayState
  BY <1>1, <1>2, <1>3 DEF ReplayState, Pcs
<1>5. /\ replay'.shown = replay.shown /\ replay'.showing = replay.showing
      /\ replay'.messages = replay.messages /\ replay'.hasMore = replay.hasMore
      /\ replay'.cursor = replay.cursor /\ replay'.pc = "idle"
  BY <1>1, <1>3 DEF ReplayState
<1>6. more' = more /\ crossed' = crossed /\ asked' \in Nat
  BY DEF ReplayFails, ReplayPart
<1> QED  BY <1>4, <1>5, <1>6, ShownUntouched

(* A new showing: whatever is still asked for belongs to an earlier one.   *)
LEMMA ReplayArrivesKeeps ==
  ASSUME ReplayPart, ReplayArrives
  PROVE  ReplayPart'
<1> DEFINE a == replay.answer
<1>1. /\ replay \in ReplayState /\ a \in Pages(Pair) /\ replay.active \in Nat
      /\ replay.showing \in Nat /\ more \subseteq MoreState
  BY DEF ReplayPart, ReplayState
<1>2. Failed \in Pages(Pair)
  BY DEF Failed, Pages, Cursors
<1>3. PICK to \in Nat \ {0} : a = Stretch(replay.active, to)
  BY DEF ReplayPart, ReplayKept, ReplayArrives
<1>4. replay' = [replay EXCEPT !.shown = replay.active, !.showing = replay.showing + 1,
                   !.messages = a.items, !.hasMore = a.hasMore, !.cursor = a.cursor,
                   !.loading = FALSE, !.pc = "idle", !.answer = Failed]
  BY DEF ReplayArrives
<1>5. a.items \in Seq(Pair) /\ a.hasMore \in BOOLEAN /\ a.cursor \in Cursors
  BY <1>1 DEF Pages
<1>6. PICK b \in Nat, k \in Nat : /\ to = b + k /\ (to > 0 => k > 0)
                                  /\ a.items = Run(replay.active, b, k)
                                  /\ a.hasMore <=> b > 0
                                  /\ a.hasMore => a.cursor = Line(replay.active, b)
  <2> HIDE DEF a
  <2>1. to \in Nat
    OBVIOUS
  <2>2. RunTo(a, replay.active, to)
    BY <1>1, <1>3, <2>1, StretchRuns
  <2> QED  BY <2>2 DEF RunTo
<1> HIDE DEF a
<1>7. replay' \in ReplayState
  <2>1. replay.showing + 1 \in Nat /\ "idle" \in Pcs /\ FALSE \in BOOLEAN
    BY <1>1 DEF Pcs
  <2> QED  BY <1>1, <1>2, <1>4, <1>5, <2>1 DEF ReplayState
<1>8. /\ replay'.shown = replay.active /\ replay'.showing = replay.showing + 1
      /\ replay'.messages = a.items /\ replay'.hasMore = a.hasMore
      /\ replay'.cursor = a.cursor /\ replay'.pc = "idle"
  BY <1>1, <1>4 DEF ReplayState
<1>9. Unbroken(replay'.shown, replay'.messages, replay'.hasMore, replay'.cursor)
  <2>1. k \in Nat \ {0}
    BY <1>6
  <2> QED  BY <1>6, <1>8, <2>1 DEF Unbroken
<1>10. ReplayKept'
  BY <1>8, <1>9 DEF ReplayKept
<1>11. MoreKept'
  <2> SUFFICES ASSUME NEW m \in more'
               PROVE  MoreOK(m)'
    BY DEF MoreKept
  <2>1. more' = more /\ MoreOK(m) /\ m.showing \in Nat
    BY <1>1 DEF ReplayArrives, ReplayPart, MoreKept, MoreState
  <2>2. m.showing <= replay'.showing /\ m.showing # replay'.showing
    BY <1>1, <1>8, <2>1 DEF MoreOK
  <2> QED  BY <2>1, <2>2 DEF MoreOK
<1>12. more' \subseteq MoreState /\ asked' \in Nat /\ crossed' \in BOOLEAN
  BY DEF ReplayPart, ReplayArrives
<1> QED  BY <1>7, <1>10, <1>11, <1>12 DEF ReplayPart

LEMMA LoadMoreReplayKeeps ==
  ASSUME ReplayPart, LoadMoreReplay
  PROVE  ReplayPart'
<1> DEFINE n == [of |-> replay.active, from |-> replay.cursor, id |-> asked,
                 showing |-> replay.showing, pc |-> "sent", answer |-> Failed]
<1>1. /\ replay \in ReplayState /\ more \subseteq MoreState /\ asked \in Nat /\ crossed \in BOOLEAN
      /\ replay.cursor \in Cursors /\ replay.active \in Nat /\ replay.showing \in Nat
  BY DEF ReplayPart, ReplayState
<1>2. Failed \in Pages(Pair)
  BY DEF Failed, Pages, Cursors
<1>3. /\ replay' = [replay EXCEPT !.loading = TRUE] /\ more' = more \cup {n}
      /\ crossed' = (crossed \/ more # {}) /\ asked' = asked + 1
      /\ replay.hasMore /\ replay.cursor # NoCursor
  BY DEF LoadMoreReplay
<1>4. replay' \in ReplayState
  BY <1>1, <1>3 DEF ReplayState
<1>5. /\ replay'.shown = replay.shown /\ replay'.showing = replay.showing
      /\ replay'.messages = replay.messages /\ replay'.hasMore = replay.hasMore
      /\ replay'.cursor = replay.cursor /\ replay'.pc = replay.pc
      /\ replay'.active = replay.active /\ replay'.answer = replay.answer
  BY <1>1, <1>3 DEF ReplayState
<1>6. n \in MoreState /\ n.showing = replay.showing /\ n.from = replay.cursor /\ n.pc = "sent"
  BY <1>1, <1>2 DEF MoreState, Pcs
<1> HIDE DEF n
<1>7. crossed' \in BOOLEAN /\ (~crossed' => ~crossed /\ more = {})
  BY <1>1, <1>3
<1>8. ReplayKept'
  BY <1>5, <1>7 DEF ReplayPart, ReplayKept
<1>9. MoreKept'
  <2> SUFFICES ASSUME NEW m \in more'
               PROVE  MoreOK(m)'
    BY DEF MoreKept
  <2>1. CASE m = n
    BY <1>1, <1>3, <1>5, <1>6, <1>7, <2>1 DEF MoreOK
  <2>2. CASE m \in more
    <3>1. MoreOK(m) /\ more # {}
      BY <2>2 DEF ReplayPart, MoreKept
    <3> QED  BY <1>5, <1>7, <3>1 DEF MoreOK
  <2> QED  BY <1>3, <2>1, <2>2
<1> QED  BY <1>1, <1>3, <1>4, <1>6, <1>7, <1>8, <1>9 DEF ReplayPart

LEMMA MoreServedKeeps ==
  ASSUME ReplayPart, NEW m \in more, MoreServed(m)
  PROVE  ReplayPart'
<1> DEFINE page == Stretch(m.of, m.from[2])
           n == [m EXCEPT !.pc = "answered", !.answer = page]
<1>1. /\ m \in MoreState /\ more \subseteq MoreState /\ m.from \in Cursors /\ m.of \in Nat
      /\ asked \in Nat /\ crossed \in BOOLEAN /\ replay \in ReplayState
  BY DEF ReplayPart, MoreState
<1>2. MoreOK(m) /\ m.pc = "sent" /\ CursorFits(m.of, m.from)
  BY DEF ReplayPart, MoreKept, MoreServed
<1>3. m.from # NoCursor /\ m.from[2] \in Nat
  BY <1>1, <1>2 DEF MoreOK, Cursors, Pair
<1>4. more' = (more \ {m}) \cup {n}
  BY <1>3 DEF MoreServed, MessagesPage
<1>5. replay' = replay /\ asked' = asked /\ crossed' = crossed
  BY DEF MoreServed
<1>6. page \in Pages(Pair)
  BY <1>1, <1>3, StretchRuns
<1> HIDE DEF page
<1>7. /\ n \in MoreState /\ n.of = m.of /\ n.from = m.from /\ n.showing = m.showing
      /\ n.pc = "answered" /\ n.answer = page
  BY <1>1, <1>6 DEF MoreState, Pcs
<1> HIDE DEF n
<1>8. ReplayKept'
  BY <1>5 DEF ReplayPart, ReplayKept
<1>9. MoreKept'
  <2> SUFFICES ASSUME NEW x \in more'
               PROVE  MoreOK(x)'
    BY DEF MoreKept
  <2>1. CASE x = n
    <3>1. n.showing <= replay.showing /\ n.from # NoCursor
      BY <1>2, <1>7 DEF MoreOK
    <3>2. CursorFits(n.of, n.from) /\ n.answer = Stretch(n.of, n.from[2])
      BY <1>2, <1>7 DEF page
    <3>3. n.showing = replay.showing /\ ~crossed =>
            more' = {n} /\ replay.hasMore /\ n.from = replay.cursor
      BY <1>2, <1>4, <1>7 DEF MoreOK
    <3> QED  BY <1>5, <2>1, <3>1, <3>2, <3>3 DEF MoreOK
  <2>2. CASE x \in more /\ x # m
    <3>1. MoreOK(x) /\ more # {x}
      BY <2>2 DEF ReplayPart, MoreKept
    <3> QED  BY <1>5, <3>1 DEF MoreOK
  <2> QED  BY <1>4, <2>1, <2>2
<1> QED  BY <1>1, <1>4, <1>5, <1>7, <1>8, <1>9 DEF ReplayPart

(* A page that arrives at the showing it was asked for lengthens the run.  *)
LEMMA MoreArrivesKeeps ==
  ASSUME ReplayPart, NEW m \in more, MoreArrives(m)
  PROVE  ReplayPart'
<1> DEFINE a == m.answer
           merged == MergedMessages(a.items, replay.messages)
<1>1. /\ m \in MoreState /\ more \subseteq MoreState /\ m.from \in Cursors /\ m.of \in Nat
      /\ asked \in Nat /\ crossed \in BOOLEAN /\ replay \in ReplayState
      /\ replay.messages \in Seq(Pair) /\ a \in Pages(Pair) /\ replay.shown \in Nat
  BY DEF ReplayPart, MoreState, ReplayState
<1>2. a.items \in Seq(Pair) /\ a.hasMore \in BOOLEAN /\ a.cursor \in Cursors
  BY <1>1 DEF Pages
<1>3. MoreOK(m) /\ m.pc = "answered"
  BY DEF ReplayPart, MoreKept, MoreArrives
<1>4. /\ replay' = [replay EXCEPT !.messages = merged, !.hasMore = a.hasMore,
                                  !.cursor = a.cursor, !.loading = FALSE]
      /\ more' = more \ {m} /\ asked' = asked
      /\ crossed' = (crossed \/ m.showing # replay.showing)
  BY DEF MoreArrives
<1>5. merged \in Seq(Pair)
  BY <1>1, <1>2, MergedTyped
<1> HIDE DEF merged, a
<1>6. replay' \in ReplayState
  BY <1>1, <1>2, <1>4, <1>5 DEF ReplayState
<1>7. /\ replay'.shown = replay.shown /\ replay'.showing = replay.showing
      /\ replay'.messages = merged /\ replay'.hasMore = a.hasMore
      /\ replay'.cursor = a.cursor /\ replay'.pc = replay.pc
      /\ replay'.active = replay.active /\ replay'.answer = replay.answer
  BY <1>1, <1>4 DEF ReplayState
<1>8. crossed' \in BOOLEAN /\ (~crossed' => ~crossed /\ m.showing = replay.showing)
  BY <1>1, <1>4
<1>9. ASSUME replay.shown # None, ~crossed'
      PROVE  Unbroken(replay.shown, merged, a.hasMore, a.cursor)
  <2>1. PICK b \in Nat, n \in Nat \ {0} : /\ replay.messages = Run(replay.shown, b, n)
                                          /\ replay.hasMore <=> b > 0
                                          /\ replay.hasMore => replay.cursor = Line(replay.shown, b)
    BY <1>8, <1>9 DEF ReplayPart, ReplayKept, Unbroken
  <2>2. replay.hasMore /\ m.from = replay.cursor /\ m.from # NoCursor
    BY <1>3, <1>8, <1>9 DEF MoreOK
  <2>3. b > 0 /\ m.from = <<replay.shown, b>>
    BY <2>1, <2>2 DEF Line
  <2>4. m.of = replay.shown /\ a = Stretch(replay.shown, b)
    BY <1>3, <2>2, <2>3 DEF MoreOK, CursorFits, a
  <2>5. PICK c \in Nat, k \in Nat : /\ b = c + k /\ (b > 0 => k > 0)
                                    /\ a.items = Run(replay.shown, c, k)
                                    /\ a.hasMore <=> c > 0
                                    /\ a.hasMore => a.cursor = Line(replay.shown, c)
    <3>1. RunTo(a, replay.shown, b)
      BY <1>1, <2>4, StretchRuns
    <3> QED  BY <3>1 DEF RunTo
  <2>6. merged = Run(replay.shown, c, k + n)
    <3>1. MergedMessages(Run(replay.shown, c, k), Run(replay.shown, b, n)) =
            Run(replay.shown, c, k + n)
      <4>1. replay.shown \in Nat /\ b = c + k
        BY <1>1, <2>5
      <4>2. \A s \in Nat : MergedMessages(Run(s, c, k), Run(s, b, n)) = Run(s, c, k + n)
        BY <4>1, RunsMerge
      <4> QED  BY <4>1, <4>2
    <3> QED  BY <2>1, <2>5, <3>1 DEF merged
  <2>7. k + n \in Nat \ {0}
    OBVIOUS
  <2> QED  BY <2>5, <2>6, <2>7 DEF Unbroken
<1>10. ReplayKept'
  BY <1>7, <1>9 DEF ReplayPart, ReplayKept
<1>11. MoreKept'
  <2> SUFFICES ASSUME NEW x \in more'
               PROVE  MoreOK(x)'
    BY DEF MoreKept
  <2>1. MoreOK(x) /\ more # {x}
    BY <1>4 DEF ReplayPart, MoreKept
  <2> QED  BY <1>7, <1>8, <2>1 DEF MoreOK
<1> QED  BY <1>1, <1>4, <1>6, <1>8, <1>10, <1>11 DEF ReplayPart

LEMMA MoreFailsKeeps ==
  ASSUME ReplayPart, NEW m \in more, MoreFails(m)
  PROVE  ReplayPart'
<1>1. /\ replay \in ReplayState /\ more \subseteq MoreState /\ asked \in Nat
      /\ crossed \in BOOLEAN
  BY DEF ReplayPart
<1>2. /\ replay' = [replay EXCEPT !.loading = FALSE] /\ more' = more \ {m}
      /\ asked' = asked /\ crossed' = (crossed \/ m.showing # replay.showing)
  BY DEF MoreFails
<1>3. replay' \in ReplayState
  BY <1>1, <1>2 DEF ReplayState
<1>4. /\ replay'.shown = replay.shown /\ replay'.showing = replay.showing
      /\ replay'.messages = replay.messages /\ replay'.hasMore = replay.hasMore
      /\ replay'.cursor = replay.cursor /\ replay'.pc = replay.pc
      /\ replay'.active = replay.active /\ replay'.answer = replay.answer
  BY <1>1, <1>2 DEF ReplayState
<1>5. crossed' \in BOOLEAN /\ (~crossed' => ~crossed)
  BY <1>1, <1>2
<1>6. ReplayKept'
  BY <1>4, <1>5 DEF ReplayPart, ReplayKept
<1>7. MoreKept'
  <2> SUFFICES ASSUME NEW x \in more'
               PROVE  MoreOK(x)'
    BY DEF MoreKept
  <2>1. MoreOK(x) /\ more # {x}
    BY <1>2 DEF ReplayPart, MoreKept
  <2> QED  BY <1>4, <1>5, <2>1 DEF MoreOK
<1> QED  BY <1>1, <1>2, <1>3, <1>5, <1>6, <1>7 DEF ReplayPart

-----------------------------------------------------------------------------
LEMMA PagesIInvBegins ==
  ASSUME PagesInit
  PROVE  PagesTyped /\ ListKept /\ ReplayPart
<1>1. Failed \in Pages(Sessions) /\ Failed \in Pages(Pair)
  BY DEF Failed, Pages, Cursors
<1>2. touched \in [Sessions -> Nat] /\ lines \in [Sessions -> Nat \ {0}]
  <2>1. Sessions \subseteq Nat
    BY PagesAssumption
  <2>2. touched \in [Sessions -> Nat]
    BY DEF PagesInit
  <2>3. \A s \in Sessions : 1 + 2 * s \in Nat \ {0}
    BY <2>1
  <2> QED  BY <2>2, <2>3 DEF PagesInit
<1>3. /\ list.entries = <<>> /\ ~list.hasMore /\ list.pc = "sent" /\ list.from = NoCursor
      /\ list \in ListState
  BY <1>1 DEF PagesInit, ListState, Cursors, Pcs
<1>4. /\ replay \in ReplayState /\ replay.pc = "idle" /\ replay.shown = None
  BY <1>1 DEF PagesInit, ReplayState, Cursors, Pcs, None
<1>5. more = {} /\ asked = 0 /\ stirred = {} /\ crossed = FALSE
  BY DEF PagesInit
<1>6. IsInjective(<<>>) /\ InOrder(<<>>, Undisturbed, Keys)
  BY DEF IsInjective, InOrder
<1>7. ListKept
  BY <1>3, <1>6 DEF ListKept, ListOK
<1>8. PagesTyped
  BY <1>2, <1>3, <1>4, <1>5 DEF PagesTyped
<1>9. ReplayPart
  BY <1>4, <1>5 DEF ReplayPart, ReplayKept, MoreKept
<1> QED  BY <1>7, <1>8, <1>9

LEMMA PagesOKInductive ==
  ASSUME PagesOK, [PagesNext]_pageVars
  PROVE  PagesOK'
<1>1. PagesTyped /\ ListKept /\ ReplayPart
  BY DEF PagesOK
<1>2. /\ touched \in [Sessions -> Nat] /\ lines \in [Sessions -> Nat \ {0}]
      /\ list \in ListState /\ stirred \subseteq Sessions
  BY <1>1 DEF PagesTyped
<1>3. ReplayPart' => replay' \in ReplayState /\ more' \subseteq MoreState
                     /\ asked' \in Nat /\ crossed' \in BOOLEAN
  BY DEF ReplayPart
<1>4. ASSUME UNCHANGED <<replay, more, asked, crossed>>
      PROVE  ReplayPart'
  BY <1>1, <1>4 DEF ReplayPart, ReplayKept, MoreKept, MoreOK
<1>5. ASSUME UNCHANGED <<touched, stirred, list>>
      PROVE  ListKept'
  BY <1>1, <1>5 DEF ListKept, Undisturbed, Keys, Key
<1>6. ASSUME UNCHANGED <<touched, lines, stirred, list>>, ReplayPart'
      PROVE  PagesOK'
  BY <1>2, <1>3, <1>5, <1>6 DEF PagesOK, PagesTyped
<1>7. ASSUME NEW s \in Sessions, Practise(s)
      PROVE  PagesOK'
  <2>1. UNCHANGED <<list, replay, more, asked, crossed>> /\ stirred' \subseteq Sessions
    BY <1>2, <1>7 DEF Practise
  <2> QED  BY <1>1, <1>2, <1>3, <1>4, <1>7, <2>1, PractiseKeeps DEF PagesOK, PagesTyped
<1>8. ASSUME NEW s \in Sessions, Select(s)
      PROVE  PagesOK'
  <2>1. replay' = Selected(s) /\ asked' = asked + 1
        /\ UNCHANGED <<touched, lines, stirred, list, more, crossed>>
    BY <1>8 DEF Select
  <2> QED  BY <1>1, <1>6, <2>1, SelectedKeeps
<1>9. ASSUME ListServed
      PROVE  PagesOK'
  <2>1. UNCHANGED <<touched, lines, replay, more, asked, crossed>>
    BY <1>9 DEF ListServed
  <2> QED  BY <1>1, <1>2, <1>3, <1>4, <1>9, <2>1, ListServedKept, ListServedTyped
           DEF PagesOK, PagesTyped
<1>10. ASSUME ListArrives
       PROVE  PagesOK'
  <2>1. UNCHANGED <<touched, lines, stirred, more, crossed>>
    BY <1>10 DEF ListArrives
  <2>2. ReplayPart'
    <3>1. CASE list.from = NoCursor /\ list.answer.items # <<>>
      <4>1. replay' = Selected(list.answer.items[1]) /\ asked' = asked + 1
        BY <1>10, <3>1 DEF ListArrives
      <4>2. list.answer.items \in Seq(Sessions)
        BY <1>2 DEF ListState, Pages
      <4>3. list.answer.items[1] \in Sessions
        BY <3>1, <4>2
      <4> QED  BY <1>1, <2>1, <4>1, <4>3, SelectedKeeps
    <3>2. CASE ~(list.from = NoCursor /\ list.answer.items # <<>>)
      BY <1>4, <1>10, <2>1, <3>2 DEF ListArrives
    <3> QED  BY <3>1, <3>2
  <2> QED  BY <1>1, <1>2, <1>3, <1>10, <2>1, <2>2, ListArrivesKept DEF PagesOK, PagesTyped
<1>11. ASSUME ListFails \/ LoadMoreHistory
       PROVE  PagesOK'
  <2>1. UNCHANGED <<touched, lines, replay, more, asked, stirred, crossed>>
    BY <1>11 DEF ListFails, LoadMoreHistory
  <2> QED  BY <1>1, <1>2, <1>3, <1>4, <1>11, <2>1, ListIdleKept DEF PagesOK, PagesTyped
<1>12. ASSUME ReplayServed \/ ReplayArrives \/ ReplayFails \/ LoadMoreReplay
       PROVE  PagesOK'
  <2>1. UNCHANGED <<touched, lines, stirred, list>>
    BY <1>12 DEF ReplayServed, ReplayArrives, ReplayFails, LoadMoreReplay
  <2> QED  BY <1>1, <1>2, <1>6, <1>12, <2>1, ReplayServedKeeps, ReplayArrivesKeeps,
              ReplayFailsKeeps, LoadMoreReplayKeeps
<1>13. ASSUME NEW m \in more, MoreServed(m) \/ MoreArrives(m) \/ MoreFails(m)
       PROVE  PagesOK'
  <2>1. UNCHANGED <<touched, lines, stirred, list>>
    BY <1>13 DEF MoreServed, MoreArrives, MoreFails
  <2> QED  BY <1>1, <1>6, <1>13, <2>1, MoreServedKeeps, MoreArrivesKeeps, MoreFailsKeeps
<1>14. CASE UNCHANGED pageVars
  BY <1>4, <1>6, <1>14 DEF pageVars
<1>15. CASE PagesNext
  BY <1>7, <1>8, <1>9, <1>10, <1>11, <1>12, <1>13, <1>15 DEF PagesNext
<1> QED  BY <1>14, <1>15

LEMMA PagesOKImplies ==
  ASSUME PagesOK
  PROVE  PagesInv
<1>1. PagesTyped /\ ListKept /\ ReplayPart
  BY DEF PagesOK
<1>2. NothingOverlooked
  <2>1. /\ Keys \in [Sessions -> Pair] /\ \A s \in Sessions : Keys[s] = Key(s)
        /\ list.entries \in Seq(Sessions)
    BY <1>1, KeysTyped DEF PagesTyped, ListState
  <2>2. Undisturbed \subseteq Sessions
    BY DEF Undisturbed
  <2>3. ListOK(list.entries, list.hasMore, list.cursor, Undisturbed, Keys)
    BY <1>1 DEF ListKept
  <2>4. \A i, j \in DOMAIN list.entries :
          i < j /\ {list.entries[i], list.entries[j]} \subseteq Undisturbed =>
            Before(Key(list.entries[i]), Key(list.entries[j]))
    BY <2>1, <2>2, <2>3 DEF ListOK, InOrder
  <2>5. list.entries # <<>> =>
          \A s \in Undisturbed \ ToSet(list.entries) : list.hasMore /\ Before(list.cursor, Key(s))
    BY <2>1, <2>2, <2>3 DEF ListOK
  <2> QED  BY <2>3, <2>4, <2>5 DEF NothingOverlooked, ListOK
<1>3. ReplayUnbroken
  <2> SUFFICES ASSUME replay.shown # None, ~crossed
               PROVE  /\ replay.messages # <<>>
                      /\ \A i \in DOMAIN replay.messages :
                           replay.messages[i] = Line(replay.shown, replay.messages[1][2] + i - 1)
                      /\ (replay.hasMore <=> replay.messages[1][2] > 0)
                      /\ (replay.hasMore => replay.cursor = replay.messages[1])
    BY DEF ReplayUnbroken
  <2>1. PICK a \in Nat, n \in Nat \ {0} : /\ replay.messages = Run(replay.shown, a, n)
                                          /\ replay.hasMore <=> a > 0
                                          /\ replay.hasMore => replay.cursor = Line(replay.shown, a)
    BY <1>1 DEF ReplayPart, ReplayKept, Unbroken
  <2>2. /\ DOMAIN replay.messages = 1..n
        /\ \A i \in 1..n : replay.messages[i] = Line(replay.shown, a + i - 1)
    BY <2>1 DEF Run
  <2>3. 1 \in 1..n /\ a + 1 - 1 = a
    OBVIOUS
  <2>4. replay.messages[1] = Line(replay.shown, a) /\ replay.messages[1][2] = a
    BY <2>2, <2>3 DEF Line
  <2>5. replay.messages # <<>>
    BY <2>2, <2>3
  <2> QED  BY <2>1, <2>2, <2>4, <2>5
<1> QED  BY <1>2, <1>3 DEF PagesInv

(* For any number of sessions and pages of any size: however much is       *)
(* practised meanwhile and however answers are delayed, no session is      *)
(* listed twice or passed over, and a replay is one unbroken stretch       *)
(* unless a page of an earlier showing got in between                      *)
(* (list_user_sessions_page, list_session_messages_page and the merges of  *)
(* HistoryPage.tsx).                                                       *)
THEOREM PagesComplete == PagesSpec => []PagesInv
<1>1. PagesInit => PagesOK
  BY PagesIInvBegins DEF PagesOK
<1>2. PagesOK /\ [PagesNext]_pageVars => PagesOK'
  BY PagesOKInductive
<1>3. PagesOK => PagesInv
  BY PagesOKImplies
<1> QED  BY <1>1, <1>2, <1>3, PTL DEF PagesSpec

-----------------------------------------------------------------------------
(* The benches.                                                            *)

(* One state of sample n gives way to the next, and nothing else changes.  *)
SampleStepsTo(n, at, row) ==
  /\ batch = "running"
  /\ sample' = [sample EXCEPT ![n] = [at |-> at, row |-> row]]
  /\ UNCHANGED <<bench, results, file, batch>>

(* What RowsTrue and DraftsKept say of one sample.                         *)
RowTrue(n, at, row) ==
  /\ row.final => row.hard /\ row.reason = "" /\ row.judge # "veto"
  /\ at = "done" /\ ~row.final => row.reason # "" \/ row.judge = "veto"
  /\ row.outcome = "graceful_failure" => ~row.final /\ row.judge = "none"
  /\ row.outcome = "unsupported_image" =>
       (row.final <=> Samples[n].expected = "unsupported_image")
  /\ row.judge = "error" /\ ~Concurrent => (row.final <=> row.hard)

DraftTrue(at, row) ==
  at = "judging" =>
    /\ row.outcome = "answered" /\ row.judge = "none"
    /\ ~row.final => row.reason # ""
    /\ ~Concurrent => (row.final <=> row.hard)

-----------------------------------------------------------------------------
(* The rules.                                                              *)

(* The rule that is reported is a broken one.                              *)
LEMMA FirstBrokenIsBroken ==
  ASSUME NEW rules, DOMAIN rules \subseteq Nat, Broken(rules) # {}
  PROVE  FirstBroken(rules) \in Broken(rules)
<1>1. Broken(rules) \in SUBSET Nat
  BY DEF Broken
<1>2. \E i \in Broken(rules) : \A j \in Broken(rules) : i <= j
  BY <1>1, FirstPosition
<1>3. QED
  BY <1>2 DEF FirstBroken

(* Each bench has a label for each of its rules, and no label is empty.    *)
LEMMA RulesHaveLabels ==
  ASSUME NEW output, NEW n, bench.engine \in Benches
  PROVE  /\ DOMAIN Rules(output, n) \subseteq Nat
         /\ DOMAIN Rules(output, n) = DOMAIN Labels[bench.engine]
<1>1. CASE bench.engine = "coach"
  BY <1>1 DEF Rules, CoachRules, Labels
<1>2. CASE bench.engine = "feedback"
  BY <1>2 DEF Rules, FeedbackRules, Labels
<1>3. CASE bench.engine = "review"
  BY <1>3 DEF Rules, ReviewRules, Labels
<1>4. CASE bench.engine = "scene"
  BY <1>4 DEF Rules, SceneRules, Labels
<1>5. QED
  BY <1>1, <1>2, <1>3, <1>4 DEF Benches

LEMMA LabelsSay ==
  ASSUME NEW e \in Benches, NEW i \in DOMAIN Labels[e]
  PROVE  Labels[e][i] \in Reasons /\ Labels[e][i] # ""
<1>1. Labels[e][i] \in {Labels[e][j] : j \in DOMAIN Labels[e]}
  OBVIOUS
<1>2. Labels[e][i] \in Reasons
  BY <1>1, Zenon DEF Reasons
<1>3. CASE e = "coach"
  <2>1. Labels[e] = <<"english", "length", "follow_up", "meta_leak", "no_echo">>
    BY <1>3 DEF Labels
  <2>2. i \in 1..5
    BY <2>1
  <2>3. Labels[e][i] \in {"english", "length", "follow_up", "meta_leak", "no_echo"}
    BY <2>1, <2>2
  <2>4. QED
    BY <1>2, <2>3
<1>4. CASE e = "feedback"
  <2>1. Labels[e] = <<"structure", "quotes", "grammar", "more_natural", "useful_words">>
    BY <1>4 DEF Labels
  <2>2. i \in 1..5
    BY <2>1
  <2>3. Labels[e][i] \in {"structure", "quotes", "grammar", "more_natural", "useful_words"}
    BY <2>1, <2>2
  <2>4. QED
    BY <1>2, <2>3
<1>5. CASE e = "review"
  <2>1. Labels[e] = <<"structure", "chinese", "length", "scene_id", "topic">>
    BY <1>5 DEF Labels
  <2>2. i \in 1..5
    BY <2>1
  <2>3. Labels[e][i] \in {"structure", "chinese", "length", "scene_id", "topic"}
    BY <2>1, <2>2
  <2>4. QED
    BY <1>2, <2>3
<1>6. CASE e = "scene"
  <2>1. Labels[e] = <<"meta_opener", "long_opener", "long_role",
                      "scene", "anchors", "vocab", "vocab_value">>
    BY <1>6 DEF Labels
  <2>2. i \in 1..7
    BY <2>1
  <2>3. Labels[e][i] \in {"meta_opener", "long_opener", "long_role",
                            "scene", "anchors", "vocab", "vocab_value"}
    BY <2>1, <2>2
  <2>4. QED
    BY <1>2, <2>3
<1>7. QED
  BY <1>3, <1>4, <1>5, <1>6 DEF Benches

LEMMA FoldedIsTrue ==
  ASSUME NEW n \in Numbers, NEW output, bench.engine \in Benches
  PROVE  /\ Folded(n, output) \in ResultRow
         /\ Folded(n, output).outcome = "answered" /\ Folded(n, output).judge = "none"
         /\ Folded(n, output).final <=> Folded(n, output).reason = ""
         /\ Folded(n, output).final => Folded(n, output).hard
         /\ ~Concurrent => (Folded(n, output).final <=> Folded(n, output).hard)
<1> DEFINE rules == Rules(output, n)
           reason == IF Broken(rules) = {} THEN ""
                     ELSE Labels[bench.engine][FirstBroken(rules)]
<1>1. reason \in Reasons /\ (reason = "" <=> Broken(rules) = {})
  <2>1. CASE Broken(rules) = {}
    BY <2>1 DEF Reasons
  <2>2. CASE Broken(rules) # {}
    <3>1. FirstBroken(rules) \in DOMAIN Labels[bench.engine]
      BY <2>2, RulesHaveLabels, FirstBrokenIsBroken DEF Broken
    <3>2. QED
      BY <2>2, <3>1, LabelsSay
  <2>3. QED
    BY <2>1, <2>2
<1>2. /\ HardChecks(rules) \in BOOLEAN
      /\ Broken(rules) = {} => HardChecks(rules)
      /\ ~Concurrent => (HardChecks(rules) <=> Broken(rules) = {})
  BY DEF HardChecks, Concurrent, Broken
<1>3. Folded(n, output) = [outcome |-> "answered", hard |-> HardChecks(rules), judge |-> "none",
                           final |-> Broken(rules) = {}, reason |-> reason]
  BY DEF Folded
<1> DEFINE hard == HardChecks(rules)
           final == Broken(rules) = {}
<1>4. /\ Folded(n, output) = [outcome |-> "answered", hard |-> hard, judge |-> "none",
                              final |-> final, reason |-> reason]
      /\ hard \in BOOLEAN /\ final \in BOOLEAN /\ reason \in Reasons
      /\ final <=> reason = ""
      /\ final => hard
      /\ ~Concurrent => (final <=> hard)
  BY <1>1, <1>2, <1>3
<1> HIDE DEF rules, reason, hard, final
<1>5. /\ Folded(n, output) \in ResultRow
      /\ Folded(n, output).outcome = "answered" /\ Folded(n, output).judge = "none"
      /\ Folded(n, output).final = final /\ Folded(n, output).hard = hard
      /\ Folded(n, output).reason = reason
  <2>1. ASSUME NEW h \in BOOLEAN, NEW f \in BOOLEAN, NEW r \in Reasons,
               Folded(n, output) = [outcome |-> "answered", hard |-> h, judge |-> "none",
                                    final |-> f, reason |-> r]
        PROVE  /\ Folded(n, output) \in ResultRow
               /\ Folded(n, output).outcome = "answered" /\ Folded(n, output).judge = "none"
               /\ Folded(n, output).final = f /\ Folded(n, output).hard = h
               /\ Folded(n, output).reason = r
    BY <2>1 DEF ResultRow
  <2>2. QED
    BY <1>4, <2>1, Zenon
<1>6. QED
  BY <1>4, <1>5

LEMMA FailuresAreTrue ==
  ASSUME NEW n \in Numbers
  PROVE  /\ NoRow \in ResultRow /\ RowTrue(n, "asking", NoRow)
         /\ GracefulFailure \in ResultRow /\ RowTrue(n, "done", GracefulFailure)
         /\ Refusal(n) \in ResultRow /\ RowTrue(n, "done", Refusal(n))
<1>1. {"", "graceful_failure", "unsupported_image"} \subseteq Reasons
  BY DEF Reasons
<1>2. NoRow \in ResultRow /\ RowTrue(n, "asking", NoRow)
  BY <1>1 DEF NoRow, ResultRow, RowTrue
<1>3. GracefulFailure \in ResultRow /\ RowTrue(n, "done", GracefulFailure)
  BY <1>1 DEF GracefulFailure, ResultRow, RowTrue
<1>4. Refusal(n) \in ResultRow /\ RowTrue(n, "done", Refusal(n))
  <2> DEFINE expected == Samples[n].expected = "unsupported_image"
             reason == IF expected THEN "" ELSE "unsupported_image"
  <2>1. ASSUME NEW f \in BOOLEAN, NEW r \in Reasons,
               Refusal(n) = [outcome |-> "unsupported_image", hard |-> f, judge |-> "none",
                             final |-> f, reason |-> r]
        PROVE  /\ Refusal(n) \in ResultRow
               /\ Refusal(n).outcome = "unsupported_image" /\ Refusal(n).judge = "none"
               /\ Refusal(n).final = f /\ Refusal(n).hard = f /\ Refusal(n).reason = r
    BY <2>1 DEF ResultRow
  <2>2. /\ Refusal(n) = [outcome |-> "unsupported_image", hard |-> expected,
                         judge |-> "none", final |-> expected, reason |-> reason]
        /\ expected \in BOOLEAN /\ reason \in Reasons
        /\ expected => reason = ""
        /\ ~expected => reason # ""
    BY <1>1 DEF Refusal
  <2>3. /\ Refusal(n) \in ResultRow
        /\ Refusal(n).outcome = "unsupported_image" /\ Refusal(n).judge = "none"
        /\ Refusal(n).final = expected /\ Refusal(n).hard = expected
        /\ Refusal(n).reason = reason
    <3> HIDE DEF expected, reason
    <3> QED  BY <2>1, <2>2, Zenon
  <2>4. /\ Refusal(n).final <=> expected
        /\ Refusal(n).hard <=> expected
        /\ expected => Refusal(n).reason = ""
        /\ ~expected => Refusal(n).reason # ""
    <3> HIDE DEF expected, reason
    <3> QED  BY <2>2, <2>3
  <2>5. QED
    BY <2>3, <2>4 DEF RowTrue
<1>5. QED
  BY <1>2, <1>3, <1>4

(* The judge and its failure leave a draft what it was, or take its pass   *)
(* away.                                                                   *)
LEMMA JudgedIsTrue ==
  ASSUME NEW n \in Numbers, NEW row \in ResultRow, RowTrue(n, "judging", row),
         DraftTrue("judging", row),
         NEW says \in {"pass", "veto", "error"}, NEW reason \in {"", "judge"}
  PROVE  Judged(row, says, reason) \in ResultRow
         /\ RowTrue(n, "done", Judged(row, says, reason))
<1> DEFINE judged == Judged(row, says, reason)
           because == IF row.reason = "" /\ says = "veto" THEN reason ELSE row.reason
<1>1. because \in Reasons
  BY DEF ResultRow, Reasons
<1>2. /\ row.hard \in BOOLEAN /\ row.final \in BOOLEAN /\ row.outcome = "answered"
      /\ ~row.final => row.reason # ""
      /\ row.final => row.hard /\ row.reason = ""
      /\ ~Concurrent => (row.final <=> row.hard)
  BY DEF ResultRow, RowTrue, DraftTrue
<1>3. /\ judged = [row EXCEPT !.judge = says, !.final = row.final /\ says # "veto",
                            !.reason = because]
      /\ (row.final /\ says # "veto") \in BOOLEAN
  BY DEF Judged
<1>4. /\ judged \in ResultRow
      /\ judged.outcome = "answered" /\ judged.judge = says /\ judged.reason = because
      /\ judged.hard = row.hard /\ judged.final = (row.final /\ says # "veto")
  <2>1. ASSUME NEW f \in BOOLEAN, NEW r \in Reasons, NEW s \in {"none", "pass", "veto", "error"},
               judged = [row EXCEPT !.judge = s, !.final = f, !.reason = r]
        PROVE  /\ judged \in ResultRow
               /\ judged.outcome = row.outcome /\ judged.judge = s /\ judged.reason = r
               /\ judged.hard = row.hard /\ judged.final = f
    <3> HIDE DEF judged
    <3> QED  BY <2>1 DEF ResultRow
  <2> HIDE DEF judged, because
  <2>2. QED
    BY <1>1, <1>2, <1>3, <2>1, Zenon
<1> HIDE DEF judged
<1>5. CASE says = "veto"
  <2>1. ~judged.final /\ judged.judge = "veto" /\ judged.outcome = "answered"
    BY <1>4, <1>5
  <2>2. QED
    BY <1>4, <2>1 DEF RowTrue, judged
<1>6. CASE says # "veto"
  <2>1. /\ judged.final <=> row.final
        /\ judged.reason = row.reason /\ judged.judge # "veto" /\ judged.outcome = "answered"
        /\ judged.hard = row.hard
    BY <1>2, <1>4, <1>6
  <2>2. QED
    BY <1>2, <1>4, <2>1 DEF RowTrue, judged
<1>7. QED
  BY <1>5, <1>6

-----------------------------------------------------------------------------
(* The steps of a batch.                                                   *)

(* A sample is begun when its turn has come.                               *)
Begun(n) ==
  \/ /\ Concurrent /\ Cardinality(InFlight) < Places
     /\ \A m \in 1..(n - 1) : sample[m].at # "waiting"
  \/ ~Concurrent /\ n = Len(results) + 1

Moves(n, at, row) ==
  /\ SampleStepsTo(n, at, row)
  /\ RowTrue(n, at, row) /\ DraftTrue(at, row)
  /\ \/ sample[n].at = "waiting" /\ at = "asking" /\ Begun(n)
     \/ sample[n].at = "asking" /\ at \in {"judging", "done"}
     \/ sample[n].at = "judging" /\ at = "done"

Raising(n) ==
  /\ Concurrent /\ batch = "running" /\ sample[n].at = "judging"
  /\ batch' = "raised" /\ UNCHANGED <<bench, sample, results, file>>

LEMMA SampleSteps ==
  ASSUME BenchTypeOK, RowsTrue, DraftsKept, NEW n \in Numbers, SampleStep(n)
  PROVE  \/ \E at \in {"asking", "judging", "done"}, row \in ResultRow : Moves(n, at, row)
         \/ Raising(n)
<1>1. /\ sample[n] \in SampleState /\ sample[n].row \in ResultRow
      /\ bench.engine \in Benches
  BY DEF BenchTypeOK, SampleState
<1>2. CASE TakePlace(n) \/ NextSample(n)
  <2>1. Moves(n, "asking", NoRow)
    BY <1>2, FailuresAreTrue
       DEF TakePlace, NextSample, SampleGoes, Moves, SampleStepsTo, Begun, DraftTrue
  <2>2. QED
    BY <2>1, FailuresAreTrue
<1>3. CASE Answered(n)
  <2>1. PICK output \in Outputs[bench.engine] :
          SampleGoes(n, "asking", IF GoesToJudge(output) THEN "judging" ELSE "done",
                     Folded(n, output))
    BY <1>3 DEF Answered
  <2>2. PICK at \in {"judging", "done"} : SampleGoes(n, "asking", at, Folded(n, output))
    BY <2>1
  <2>3. RowTrue(n, at, Folded(n, output)) /\ DraftTrue(at, Folded(n, output))
    BY <1>1, FoldedIsTrue DEF RowTrue, DraftTrue
  <2>4. Moves(n, at, Folded(n, output))
    BY <1>3, <2>2, <2>3 DEF Answered, SampleGoes, Moves, SampleStepsTo
  <2>5. QED
    BY <1>1, <2>4, FoldedIsTrue
<1>4. CASE AnswerFails(n)
  <2>1. Moves(n, "done", GracefulFailure)
    BY <1>4, FailuresAreTrue DEF AnswerFails, SampleGoes, Moves, SampleStepsTo, DraftTrue
  <2>2. QED
    BY <2>1, FailuresAreTrue
<1>5. CASE Refused(n)
  <2>1. Moves(n, "done", Refusal(n))
    BY <1>5, FailuresAreTrue DEF Refused, SampleGoes, Moves, SampleStepsTo, DraftTrue
  <2>2. QED
    BY <2>1, FailuresAreTrue
<1>6. CASE JudgeSpeaks(n) \/ JudgeFails(n)
  <2>1. PICK says \in {"pass", "veto", "error"}, reason \in {"", "judge"} :
          SampleGoes(n, "judging", "done", Judged(sample[n].row, says, reason))
    <3>1. CASE JudgeSpeaks(n)
      BY <3>1 DEF JudgeSpeaks, Verdicts
    <3>2. CASE JudgeFails(n)
      BY <3>2 DEF JudgeFails
    <3>3. QED
      BY <1>6, <3>1, <3>2
  <2>2. RowTrue(n, "judging", sample[n].row) /\ DraftTrue("judging", sample[n].row)
    BY <2>1 DEF SampleGoes, RowsTrue, DraftsKept, RowTrue, DraftTrue
  <2>3. /\ Judged(sample[n].row, says, reason) \in ResultRow
        /\ RowTrue(n, "done", Judged(sample[n].row, says, reason))
    BY <1>1, <2>2, JudgedIsTrue
  <2>4. Moves(n, "done", Judged(sample[n].row, says, reason))
    BY <1>6, <2>1, <2>3
       DEF JudgeSpeaks, JudgeFails, SampleGoes, Moves, SampleStepsTo, DraftTrue
  <2>5. QED
    BY <2>3, <2>4
<1>7. CASE JudgeRaises(n)
  BY <1>7 DEF JudgeRaises, Raising
<1>8. QED
  BY <1>2, <1>3, <1>4, <1>5, <1>6, <1>7 DEF SampleStep

Sampling(n) ==
  \E at \in {"asking", "judging", "done"}, row \in ResultRow : Moves(n, at, row)

Joining ==
  /\ batch = "running" /\ batch' = "writing"
  /\ Len(results) + 1 \in Numbers /\ sample[Len(results) + 1].at = "done"
  /\ Concurrent => \A n \in Numbers : sample[n].at = "done"
  /\ results' = Append(results, sample[Len(results) + 1].row) /\ file' = <<>>
  /\ UNCHANGED <<bench, sample>>

LEMMA BenchSteps ==
  ASSUME BenchInv, BenchNext
  PROVE  \/ \E n \in Numbers : Sampling(n) \/ Raising(n)
         \/ Joining \/ WriteFile \/ Return \/ Killed
<1>1. CASE \E n \in Numbers : SampleStep(n)
  <2>1. PICK n \in Numbers : SampleStep(n)
    BY <1>1
  <2>2. QED
    BY <2>1, SampleSteps DEF BenchInv, Sampling
<1>2. Len(results) \in Nat /\ Len(Samples) \in Nat
  BY BenchAssumption DEF BenchInv, BenchTypeOK
<1>3. CASE AppendRow \/ CollectRow
  <2>1. Len(results) + 1 \in Numbers
    BY <1>2, <1>3 DEF AppendRow, CollectRow, Numbers
  <2>2. QED
    BY <1>3, <2>1 DEF AppendRow, CollectRow, RowJoins, Joining
<1>4. QED
  BY <1>1, <1>3 DEF BenchNext

(* Whose bench it is does not change, and a sample that is done stays.     *)
LEMMA DoneStays ==
  ASSUME BenchInv, BenchNext
  PROVE  /\ bench' = bench /\ Concurrent' = Concurrent /\ Places' = Places
         /\ sample' \in [Numbers -> SampleState]
         /\ \A n \in Numbers : /\ sample[n].at = "done" => sample'[n] = sample[n]
                               /\ sample[n].at # "waiting" => sample'[n].at # "waiting"
<1>1. sample \in [Numbers -> SampleState]
  BY DEF BenchInv, BenchTypeOK
<1>2. bench' = bench
  BY BenchSteps DEF Sampling, Moves, SampleStepsTo, Raising, Joining, WriteFile, Return, Killed
<1>3. CASE \E n \in Numbers : Sampling(n)
  <2>1. PICK n \in Numbers, at \in {"asking", "judging", "done"}, row \in ResultRow :
          Moves(n, at, row)
    BY <1>3 DEF Sampling
  <2>2. /\ sample' = [sample EXCEPT ![n] = [at |-> at, row |-> row]]
        /\ sample[n].at # "done" /\ at # "waiting"
    BY <2>1 DEF Moves, SampleStepsTo
  <2>3. [at |-> at, row |-> row] \in SampleState
    BY DEF SampleState
  <2>4. QED
    BY <1>1, <1>2, <2>2, <2>3 DEF Concurrent, Places
<1>4. CASE sample' = sample
  BY <1>1, <1>2, <1>4 DEF Concurrent, Places
<1>5. QED
  BY <1>3, <1>4, BenchSteps DEF Raising, Joining, WriteFile, Return, Killed

LEMMA TypeStays ==
  ASSUME BenchInv, BenchNext
  PROVE  BenchTypeOK'
<1>1. /\ bench \in [engine : Benches, judge : BOOLEAN]
      /\ results \in Seq(ResultRow) /\ Len(results) <= Len(Samples)
      /\ batch \in {"running", "writing", "returned", "raised", "killed"}
      /\ Len(results) \in Nat /\ Len(Samples) \in Nat
      /\ \A n \in Numbers : sample[n].row \in ResultRow
  BY BenchAssumption DEF BenchInv, BenchTypeOK, SampleState
<1>2. results' \in Seq(ResultRow) /\ Len(results') <= Len(Samples)
  <2>1. CASE Joining
    <3>1. results' \in Seq(ResultRow) /\ Len(results') = Len(results) + 1
      BY <1>1, <2>1 DEF Joining
    <3>2. QED
      BY <1>1, <2>1, <3>1 DEF Joining, Numbers
  <2>2. CASE results' = results
    BY <1>1, <2>2
  <2>3. QED
    BY <2>1, <2>2, BenchSteps DEF Sampling, Moves, SampleStepsTo, Raising, WriteFile, Return, Killed
<1>3. batch' \in {"running", "writing", "returned", "raised", "killed"}
  BY <1>1, BenchSteps
     DEF Sampling, Moves, SampleStepsTo, Raising, Joining, WriteFile, Return, Killed
<1>4. QED
  BY <1>1, <1>2, <1>3, DoneStays DEF BenchTypeOK

LEMMA OrderStays ==
  ASSUME BenchInv, BenchNext
  PROVE  RowsInOrder'
<1>1. /\ RowsInOrder /\ results \in Seq(ResultRow)
      /\ Len(results) \in Nat /\ Len(Samples) \in Nat /\ Len(results) <= Len(Samples)
      /\ \A n \in Numbers : sample[n].row \in ResultRow
  BY BenchAssumption DEF BenchInv, BenchTypeOK, SampleState
<1>2. DOMAIN results = 1..Len(results) /\ DOMAIN results \subseteq Numbers
  BY <1>1 DEF Numbers
<1>3. CASE Joining
  <2>1. /\ DOMAIN results' = 1..(Len(results) + 1)
        /\ \A n \in DOMAIN results : results'[n] = results[n]
        /\ results'[Len(results) + 1] = sample[Len(results) + 1].row
    BY <1>1, <1>2, <1>3 DEF Joining
  <2>2. sample' = sample /\ sample[Len(results) + 1].at = "done"
    BY <1>3 DEF Joining
  <2>3. ASSUME NEW n \in DOMAIN results'
        PROVE  sample'[n].at = "done" /\ results'[n] = sample'[n].row
    <3>1. n \in DOMAIN results \/ n = Len(results) + 1
      BY <1>1, <1>2, <2>1
    <3>2. QED
      BY <1>1, <2>1, <2>2, <3>1 DEF RowsInOrder
  <2>4. QED
    BY <2>3 DEF RowsInOrder
<1>4. CASE results' = results
  BY <1>1, <1>2, <1>4, DoneStays DEF RowsInOrder
<1>5. QED
  BY <1>3, <1>4, BenchSteps DEF Sampling, Moves, SampleStepsTo, Raising, WriteFile, Return, Killed

LEMMA TruthStays ==
  ASSUME BenchInv, BenchNext
  PROVE  RowsTrue' /\ DraftsKept'
<1>1. RowsTrue /\ DraftsKept /\ sample \in [Numbers -> SampleState]
  BY DEF BenchInv, BenchTypeOK
<1>2. \A m \in Numbers : /\ RowTrue(m, sample[m].at, sample[m].row)
                         /\ DraftTrue(sample[m].at, sample[m].row)
  BY <1>1 DEF RowsTrue, DraftsKept, RowTrue, DraftTrue
<1>3. \A m \in Numbers : /\ RowTrue(m, sample'[m].at, sample'[m].row)
                         /\ DraftTrue(sample'[m].at, sample'[m].row)
  <2>1. CASE \E n \in Numbers : Sampling(n)
    <3>1. PICK n \in Numbers, at \in {"asking", "judging", "done"}, row \in ResultRow :
            Moves(n, at, row)
      BY <2>1 DEF Sampling
    <3>2. /\ sample' = [sample EXCEPT ![n] = [at |-> at, row |-> row]]
          /\ RowTrue(n, at, row) /\ DraftTrue(at, row)
      BY <3>1 DEF Moves, SampleStepsTo
    <3>3. /\ sample'[n].at = at /\ sample'[n].row = row
          /\ \A m \in Numbers \ {n} : sample'[m] = sample[m]
      BY <1>1, <3>2
    <3>4. QED
      BY <1>2, <3>2, <3>3
  <2>2. CASE sample' = sample
    BY <1>2, <2>2
  <2>3. QED
    BY <2>1, <2>2, BenchSteps DEF Raising, Joining, WriteFile, Return, Killed
<1>4. Concurrent' = Concurrent
  BY DoneStays
<1>5. QED
  BY <1>3, <1>4 DEF RowsTrue, DraftsKept, RowTrue, DraftTrue

LEMMA PlacesStay ==
  ASSUME BenchInv, BenchNext
  PROVE  PlacesKept'
<1>1. /\ PlacesKept /\ RowsInOrder /\ SamplesKept /\ sample \in [Numbers -> SampleState]
      /\ results \in Seq(ResultRow) /\ Len(results) \in Nat /\ Len(Samples) \in Nat
      /\ Len(results) <= Len(Samples) /\ Concurrency \in Nat
  BY BenchAssumption DEF BenchInv, BenchTypeOK
<1>2. /\ IsFiniteSet(InFlight) /\ Cardinality(InFlight) \in Nat
      /\ \A T \in SUBSET InFlight : /\ Cardinality(T) \in Nat
                                    /\ Cardinality(T) <= Cardinality(InFlight)
      /\ Places \in Nat \ {0}
  <2>1. IsFiniteSet(Numbers)
    BY <1>1, FS_Interval DEF Numbers
  <2>2. IsFiniteSet(InFlight)
    BY <2>1, FS_Subset DEF InFlight
  <2>3. QED
    BY <1>1, <2>2, FS_Subset, FS_CardinalityType DEF Places
<1>3. CASE InFlight' \subseteq InFlight
           /\ \A n \in Numbers : sample[n].at = "waiting" => sample'[n].at = "waiting"
  <2>1. Cardinality(InFlight') <= Places
    <3>1. InFlight' \in SUBSET InFlight
      BY <1>3
    <3>2. Cardinality(InFlight') \in Nat /\ Cardinality(InFlight') <= Cardinality(InFlight)
      BY <1>2, <3>1
    <3>3. Cardinality(InFlight) <= Places
      BY <1>1 DEF PlacesKept
    <3>4. QED
      BY <1>2, <3>2, <3>3
  <2>2. \A n \in Numbers : \A m \in 1..n : m \in Numbers
    BY <1>1 DEF Numbers
  <2>3. QED
    BY <1>1, <1>3, <2>1, <2>2, DoneStays DEF PlacesKept
<1>4. CASE \E n \in Numbers : Sampling(n)
  <2>1. PICK n \in Numbers, at \in {"asking", "judging", "done"}, row \in ResultRow :
          Moves(n, at, row)
    BY <1>4 DEF Sampling
  <2>2. /\ sample' = [sample EXCEPT ![n] = [at |-> at, row |-> row]]
        /\ sample'[n].at = at
        /\ \A m \in Numbers \ {n} : sample'[m] = sample[m]
    BY <1>1, <2>1 DEF Moves, SampleStepsTo
  <2>3. CASE sample[n].at # "waiting"
    <3>1. sample[n].at \in {"asking", "judging"}
      BY <2>1, <2>3 DEF Moves
    <3>2. InFlight' \subseteq InFlight
      BY <2>2, <3>1 DEF InFlight
    <3>3. QED
      BY <1>3, <2>2, <2>3, <3>2
  <2>4. CASE sample[n].at = "waiting"
    <3>1. at = "asking" /\ Begun(n) /\ n \notin InFlight
      BY <2>1, <2>4 DEF Moves, InFlight
    <3>2. InFlight' = InFlight \cup {n}
      BY <2>2, <3>1 DEF InFlight
    <3>3. Cardinality(InFlight \cup {n}) = Cardinality(InFlight) + 1
      BY <1>2, <3>1, FS_AddElement
    <3>4. \A m \in 1..(n - 1) : m \in Numbers /\ sample[m].at # "waiting"
      <4>1. CASE Concurrent
        BY <1>1, <3>1, <4>1 DEF Begun, Numbers
      <4>2. CASE ~Concurrent
        BY <1>1, <3>1, <4>2 DEF Begun, Numbers, RowsInOrder
      <4>3. QED
        BY <4>1, <4>2
    <3>5. Cardinality(InFlight) < Places
      <4>1. CASE Concurrent
        BY <3>1, <4>1 DEF Begun
      <4>2. CASE ~Concurrent
        <5>1. n = Len(results) + 1
          BY <3>1, <4>2 DEF Begun
        <5>2. ASSUME NEW m \in InFlight
              PROVE  FALSE
          <6>1. m \in Numbers /\ sample[m].at \in {"asking", "judging"} /\ m # n
            BY <3>1 DEF InFlight
          <6>2. m <= Len(results) + 1
            BY <1>1, <4>2, <6>1 DEF SamplesKept
          <6>3. m \in DOMAIN results
            BY <1>1, <5>1, <6>1, <6>2 DEF Numbers
          <6>4. QED
            BY <1>1, <6>1, <6>3 DEF RowsInOrder
        <5>3. InFlight = {}
          BY <5>2
        <5>4. QED
          BY <1>2, <5>3, FS_EmptySet
      <4>3. QED
        BY <4>1, <4>2
    <3>6. Cardinality(InFlight') <= Places
      BY <1>2, <3>2, <3>3, <3>5
    <3>7. ASSUME NEW k \in Numbers, sample'[k].at # "waiting", NEW m \in 1..k
          PROVE  sample'[m].at # "waiting"
      <4>1. m \in Numbers
        BY <1>1 DEF Numbers
      <4>2. CASE k = n
        BY <2>2, <3>1, <3>4, <4>1, <4>2 DEF Numbers
      <4>3. CASE k # n
        <5>1. sample[m].at # "waiting"
          BY <1>1, <2>2, <3>7, <4>3 DEF PlacesKept
        <5>2. QED
          BY <4>1, <5>1, DoneStays
      <4>4. QED
        BY <4>2, <4>3
    <3>8. QED
      BY <3>6, <3>7, DoneStays DEF PlacesKept
  <2>5. QED
    BY <2>3, <2>4
<1>5. CASE sample' = sample
  <2>1. InFlight' = InFlight
    BY <1>5 DEF InFlight
  <2>2. QED
    BY <1>3, <1>5, <2>1
<1>6. QED
  BY <1>4, <1>5, BenchSteps DEF Raising, Joining, WriteFile, Return, Killed

LEMMA FileStays ==
  ASSUME BenchInv, BenchNext
  PROVE  SamplesKept'
<1>1. /\ SamplesKept /\ RowsInOrder /\ sample \in [Numbers -> SampleState]
      /\ results \in Seq(ResultRow) /\ Len(results) \in Nat /\ Len(Samples) \in Nat
      /\ Samples \in Seq(Sample)
  BY BenchAssumption DEF BenchInv, BenchTypeOK
<1>2. Concurrent' = Concurrent /\ \A n \in Numbers : sample[n].at = "done" => sample'[n] = sample[n]
  BY DoneStays
<1>3. CASE \E n \in Numbers : Sampling(n)
  <2>1. PICK n \in Numbers, at \in {"asking", "judging", "done"}, row \in ResultRow :
          Moves(n, at, row)
    BY <1>3 DEF Sampling
  <2>2. /\ batch = "running" /\ UNCHANGED <<results, file, batch>>
        /\ sample[n].at # "done"
        /\ \A m \in Numbers \ {n} : sample'[m] = sample[m]
        /\ sample[n].at = "waiting" => Begun(n)
    BY <1>1, <2>1 DEF Moves, SampleStepsTo
  <2>3. ~Concurrent => n <= Len(results) + 1
    BY <1>1, <2>2 DEF SamplesKept, Begun, Numbers
  <2>4. QED
    BY <1>1, <1>2, <2>2, <2>3 DEF SamplesKept
<1>4. CASE \E n \in Numbers : Raising(n)
  BY <1>1, <1>2, <1>4 DEF Raising, SamplesKept
<1>5. CASE Joining
  <2>1. /\ results' # <<>> /\ Len(results') = Len(results) + 1
    BY <1>1, <1>5 DEF Joining
  <2>2. \A n \in Numbers : n <= Len(results) + 1 => n <= Len(results) + 1 + 1
    BY <1>1 DEF Numbers
  <2>3. QED
    BY <1>1, <1>2, <1>5, <2>1, <2>2 DEF Joining, SamplesKept
<1>6. CASE WriteFile
  BY <1>1, <1>2, <1>6 DEF WriteFile, SamplesKept
<1>7. CASE Return
  <2>1. results = <<>> => Samples = <<>>
    BY <1>1, <1>7 DEF Return
  <2>2. QED
    BY <1>1, <1>2, <1>7, <2>1 DEF Return, SamplesKept
<1>8. CASE Killed
  BY <1>1, <1>2, <1>8 DEF Killed, SamplesKept
<1>9. QED
  BY <1>3, <1>4, <1>5, <1>6, <1>7, <1>8, BenchSteps

LEMMA BenchInit_Inv ==
  ASSUME BenchInit
  PROVE  BenchInv
<1>1. bench \in [engine : Benches, judge : BOOLEAN]
  BY DEF BenchInit
<1>2. /\ Len(Samples) \in Nat /\ Concurrency \in Nat
      /\ "" \in Reasons
  BY BenchAssumption DEF Reasons
<1>3. NoRow \in ResultRow /\ NoRow.final = FALSE /\ NoRow.outcome = "none" /\ NoRow.judge = "none"
  BY <1>2 DEF NoRow, ResultRow
<1>4. /\ sample \in [Numbers -> SampleState]
      /\ \A n \in Numbers : sample[n].at = "waiting" /\ sample[n].row = NoRow
      /\ results = <<>> /\ file = OldRows /\ batch = "running"
  BY <1>3 DEF BenchInit, SampleState
<1>5. BenchTypeOK
  <2>1. results \in Seq(ResultRow) /\ Len(results) = 0
    BY <1>4
  <2>2. Len(results) <= Len(Samples)
    <3>1. Len(Samples) \in Nat
      BY BenchAssumption
    <3>2. QED
      BY <2>1, <3>1
  <2>3. sample \in [Numbers -> SampleState] /\ batch = "running"
    BY <1>4
  <2>4. QED
    BY <1>1, <2>1, <2>2, <2>3 DEF BenchTypeOK
<1>6. RowsInOrder /\ DraftsKept
  <2>1. DOMAIN results = {}
    BY <1>4
  <2>2. QED
    BY <1>4, <2>1 DEF RowsInOrder, DraftsKept
<1>7. RowsTrue
  BY <1>3, <1>4 DEF RowsTrue
<1>8. PlacesKept
  <2>1. InFlight = {}
    BY <1>4 DEF InFlight
  <2>2. Cardinality(InFlight) <= Places
    <3>1. Cardinality(InFlight) = 0
      BY <2>1, FS_EmptySet
    <3>2. Places \in Nat
      BY <1>2 DEF Places
    <3>3. QED
      BY <3>1, <3>2
  <2>3. QED
    BY <1>4, <2>2 DEF PlacesKept
<1>9. SamplesKept
  BY <1>4 DEF SamplesKept
<1>10. QED
  BY <1>5, <1>6, <1>7, <1>8, <1>9 DEF BenchInv

(* For any samples, any answers of the models and of the judge, and any    *)
(* number of places: no failed sample passes, no row is mixed up with      *)
(* another one, no more calls are under way than there are places, and the *)
(* file keeps what it is said to keep, wherever the batch is killed        *)
(* (evaluation.py of the four engines).                                    *)
THEOREM BenchesKeepTheirRows == BenchSpec => []BenchInv
<1>1. BenchInit => BenchInv
  BY BenchInit_Inv
<1>2. BenchInv /\ [BenchNext]_benchVars => BenchInv'
  <2>1. CASE BenchInv /\ BenchNext
    BY <2>1, TypeStays, OrderStays, TruthStays, PlacesStay, FileStays DEF BenchInv
  <2>2. CASE BenchInv /\ UNCHANGED benchVars
    BY <2>2
       DEF benchVars, BenchInv, BenchTypeOK, RowsInOrder, RowsTrue, DraftsKept, PlacesKept,
           SamplesKept, InFlight, Places, Concurrent
  <2>3. QED
    BY <2>1, <2>2
<1>3. QED
  BY <1>1, <1>2, PTL DEF BenchSpec
=============================================================================
