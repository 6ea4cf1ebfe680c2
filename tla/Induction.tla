------------------------------ MODULE Induction ------------------------------
(***************************************************************************)
(* Facts that the proofs of several components need: a first one in a set  *)
(* of numbers, induction up to a number, functions that are defined by     *)
(* what they are one step before, and what an enumeration lists.           *)
(***************************************************************************)
EXTENDS Enumeration, Sequences, FiniteSetTheorems, SequenceTheorems, WellFoundedInduction, TLAPS

(* A set of naturals that is not empty has a first one.                    *)
LEMMA FirstPosition ==
  ASSUME NEW S \in SUBSET Nat, S # {}
  PROVE  \E x \in S : \A y \in S : x <= y
<1> DEFINE R == OpToRel(<, Nat)
<1>1. IsWellFoundedOn(R, Nat)
  BY NatLessThanWellFounded
<1>2. \E x \in S : \A y \in S : ~(<<y, x>> \in R)
  <2> HIDE DEF R
  <2> QED  BY <1>1, WFMin, Zenon
<1>3. PICK x \in S : \A y \in S : ~(y < x)
  BY <1>2 DEF OpToRel
<1>4. QED
  BY <1>3

(* Induction up to n, with a set for the predicate.                        *)
LEMMA UpTo ==
  ASSUME NEW n \in Nat, NEW S, 0 \in S,
         \A k \in 0..(n - 1) : k \in S => k + 1 \in S
  PROVE  \A k \in 0..n : k \in S
<1> DEFINE Missing == {k \in 0..n : k \notin S}
<1>1. SUFFICES ASSUME Missing # {}  PROVE FALSE
  OBVIOUS
<1>2. Missing \in SUBSET Nat
  OBVIOUS
<1>3. PICK x \in Missing : \A y \in Missing : x <= y
  <2> HIDE DEF Missing
  <2> QED  BY <1>1, <1>2, FirstPosition
<1>4. x # 0 /\ x - 1 \in 0..(n - 1) /\ x - 1 \notin Missing
  BY <1>3
<1>5. x - 1 \in S
  BY <1>4
<1>6. x \in S
  BY <1>4, <1>5
<1>7. QED
  BY <1>3, <1>6

(* A function that begins with z and takes one step of V after the other.  *)
Takes(f, n, V, z, step) ==
  /\ f \in [0..n -> V] /\ f[0] = z
  /\ \A k \in 1..n : f[k] = step[k][f[k - 1]]

(* There is one.                                                           *)
LEMMA StepByStep ==
  ASSUME NEW n \in Nat, NEW V, NEW z \in V, NEW step \in [1..n -> [V -> V]]
  PROVE  \E f : Takes(f, n, V, z, step)
<1> DEFINE Ends(f, m) == /\ f \in [0..m -> V] /\ f[0] = z
                         /\ \A k \in 1..m : f[k] = step[k][f[k - 1]]
           S == {m \in 0..n : \E f : Ends(f, m)}
<1>1. 0 \in S
  <2> DEFINE g == [k \in 0..0 |-> z]
  <2>1. Ends(g, 0)
    OBVIOUS
  <2>2. \E f : Ends(f, 0)
    <3> HIDE DEF Ends, g
    <3> QED  BY <2>1
  <2>3. QED
    <3> HIDE DEF Ends
    <3> QED  BY <2>2
<1>2. ASSUME NEW k \in 0..(n - 1), k \in S  PROVE k + 1 \in S
  <2>1. PICK f : Ends(f, k)
    BY <1>2
  <2> DEFINE g == [j \in 0..(k + 1) |-> IF j = k + 1 THEN step[j][f[k]] ELSE f[j]]
  <2>2. step[k + 1][f[k]] \in V
    BY <2>1
  <2>3. g \in [0..(k + 1) -> V] /\ g[0] = z
    BY <2>1, <2>2
  <2>4. ASSUME NEW j \in 1..(k + 1)  PROVE g[j] = step[j][g[j - 1]]
    <3>1. j - 1 \in 0..k /\ g[j - 1] = f[j - 1]
      OBVIOUS
    <3>2. CASE j = k + 1
      BY <3>1, <3>2
    <3>3. CASE j # k + 1
      <4>1. j \in 1..k /\ g[j] = f[j]
        BY <3>3
      <4>2. QED
        BY <2>1, <3>1, <4>1
    <3>4. QED
      BY <3>2, <3>3
  <2>5. Ends(g, k + 1)
    BY <2>3, <2>4
  <2>6. \E h : Ends(h, k + 1)
    <3> HIDE DEF Ends, g
    <3> QED  BY <2>5
  <2>7. QED
    <3> HIDE DEF Ends
    <3> QED  BY <2>6
<1>3. n \in S
  <2> HIDE DEF S
  <2>1. \A k \in 0..n : k \in S
    BY <1>1, <1>2, UpTo
  <2>2. QED
    BY <2>1
<1>4. QED
  BY <1>3 DEF Takes

-----------------------------------------------------------------------------
(* A strict order of S.                                                    *)
Orders(R, S) ==
  /\ \A s \in S : <<s, s>> \notin R
  /\ \A r, s \in S : r = s \/ <<r, s>> \in R \/ <<s, r>> \in R
  /\ \A r, s, t \in S : <<r, s>> \in R /\ <<s, t>> \in R => <<r, t>> \in R

(* A finite set in an order: each member stands at its place once.         *)
LEMMA EnumeratedInOrder ==
  ASSUME NEW S, IsFiniteSet(S), NEW R, Orders(R, S)
  PROVE  /\ Cardinality(S) \in Nat
         /\ Enumerated(S, R) \in [1..Cardinality(S) -> S]
         /\ \A s \in S : \E j \in 1..Cardinality(S) : Enumerated(S, R)[j] = s
         /\ \A j, k \in 1..Cardinality(S) :
              j < k => <<Enumerated(S, R)[j], Enumerated(S, R)[k]>> \in R
<1> DEFINE n == Cardinality(S)
           Below(s) == {r \in S : <<r, s>> \in R}
           rank == [s \in S |-> Cardinality(Below(s))]
           E == Enumerated(S, R)
<1>1. n \in Nat
  BY FS_CardinalityType
<1>2. ASSUME NEW s \in S
      PROVE  IsFiniteSet(Below(s)) /\ rank[s] \in Nat /\ rank[s] < n
  <2>1. Below(s) \in SUBSET S /\ s \notin Below(s)
    BY DEF Orders
  <2>2. /\ IsFiniteSet(Below(s)) /\ Cardinality(Below(s)) <= n
        /\ Cardinality(S) = Cardinality(Below(s)) => S = Below(s)
    <3> HIDE DEF Below
    <3> QED  BY <2>1, FS_Subset
  <2>3. Cardinality(Below(s)) \in Nat
    <3> HIDE DEF Below
    <3> QED  BY <2>2, FS_CardinalityType
  <2>4. rank[s] = Cardinality(Below(s))
    OBVIOUS
  <2>5. Below(s) # S
    BY <2>1
  <2> HIDE DEF Below, rank
  <2> QED  BY <1>1, <2>2, <2>3, <2>4, <2>5
<1>3. ASSUME NEW r \in S, NEW s \in S, <<r, s>> \in R
      PROVE  rank[r] < rank[s]
  <2>1. Below(r) \in SUBSET Below(s) /\ r \in Below(s) /\ r \notin Below(r)
    BY <1>3 DEF Orders
  <2>2. IsFiniteSet(Below(s)) /\ rank[r] \in Nat /\ rank[s] \in Nat
    BY <1>2
  <2>3. /\ Cardinality(Below(r)) <= Cardinality(Below(s))
        /\ Cardinality(Below(s)) = Cardinality(Below(r)) => Below(s) = Below(r)
    <3> HIDE DEF Below
    <3> QED  BY <2>1, <2>2, FS_Subset
  <2>4. rank[r] = Cardinality(Below(r)) /\ rank[s] = Cardinality(Below(s))
    OBVIOUS
  <2> HIDE DEF Below, rank
  <2> QED  BY <2>1, <2>2, <2>3, <2>4
<1>4. \A r, s \in S : rank[r] = rank[s] => r = s
  <2> SUFFICES ASSUME NEW r \in S, NEW s \in S, rank[r] = rank[s]
               PROVE  r = s
    OBVIOUS
  <2>1. rank[r] \in Nat /\ rank[s] \in Nat
    BY <1>2
  <2>2. <<r, s>> \notin R /\ <<s, r>> \notin R
    <3> HIDE DEF rank
    <3> QED  BY <1>3, <2>1
  <2> QED  BY <2>2 DEF Orders
<1>5. \A j \in 0..(n - 1) : \E s \in S : rank[s] = j
  <2>1. rank \in Injection(S, 0..(n - 1))
    <3>1. rank \in [S -> 0..(n - 1)]
      <4>1. \A s \in S : rank[s] \in 0..(n - 1)
        <5> HIDE DEF rank, Below, n
        <5> QED  BY <1>1, <1>2
      <4> QED  BY <4>1
    <3> HIDE DEF rank
    <3> QED  BY <1>4, <3>1 DEF Injection, IsInjective
  <2>2. IsFiniteSet(0..(n - 1)) /\ Cardinality(0..(n - 1)) = n
    <3> HIDE DEF n
    <3>1. IsFiniteSet(0..(n - 1)) /\ Cardinality(0..(n - 1)) = IF 0 > n - 1 THEN 0 ELSE n - 1 - 0 + 1
      BY <1>1, FS_Interval
    <3> QED  BY <1>1, <3>1
  <2>3. rank \in Surjection(S, 0..(n - 1))
    <3> HIDE DEF rank
    <3> QED  BY <2>1, <2>2, FS_Injection
  <2> HIDE DEF rank
  <2> QED  BY <2>3 DEF Surjection
<1>6. ASSUME NEW j \in 1..n
      PROVE  E[j] \in S /\ rank[E[j]] = j - 1
  <2>1. E[j] = CHOOSE s \in S : Cardinality({r \in S : <<r, s>> \in R}) = j - 1
    BY DEF Enumerated
  <2>2. j - 1 \in 0..(n - 1)
    <3> HIDE DEF n
    <3> QED  BY <1>1
  <2>3. PICK s \in S : rank[s] = j - 1
    <3> HIDE DEF rank, n
    <3> QED  BY <1>5, <2>2
  <2>4. \E t \in S : Cardinality({r \in S : <<r, t>> \in R}) = j - 1
    BY <2>3
  <2> QED  BY <2>1, <2>4
<1>7. E \in [1..n -> S]
  BY <1>6 DEF Enumerated
<1>8. ASSUME NEW s \in S
      PROVE  \E j \in 1..n : E[j] = s
  <2>1. rank[s] + 1 \in 1..n
    <3> HIDE DEF rank, Below, n
    <3> QED  BY <1>1, <1>2
  <2>2. rank[E[rank[s] + 1]] = rank[s] /\ E[rank[s] + 1] \in S
    <3>1. rank[s] \in Nat
      BY <1>2
    <3> HIDE DEF rank, n, E
    <3> QED  BY <1>6, <2>1, <3>1
  <2> HIDE DEF rank, n, E
  <2> QED  BY <1>4, <2>1, <2>2
<1>9. ASSUME NEW j \in 1..n, NEW k \in 1..n, j < k
      PROVE  <<E[j], E[k]>> \in R
  <2>1. /\ E[j] \in S /\ E[k] \in S
        /\ rank[E[j]] = j - 1 /\ rank[E[k]] = k - 1
    BY <1>6
  <2>2. E[j] # E[k]
    <3> HIDE DEF rank, n, E
    <3> QED  BY <1>1, <1>9, <2>1
  <2>3. <<E[k], E[j]>> \notin R
    <3> SUFFICES ASSUME <<E[k], E[j]>> \in R
                 PROVE  FALSE
      OBVIOUS
    <3>1. rank[E[k]] < rank[E[j]]
      BY <1>3, <2>1
    <3> HIDE DEF rank, n, E
    <3> QED  BY <1>1, <1>9, <2>1, <3>1
  <2> HIDE DEF E, n
  <2> QED  BY <2>1, <2>2, <2>3 DEF Orders
<1> QED  BY <1>1, <1>7, <1>8, <1>9
=============================================================================
