------------------------------ MODULE NatFacts ------------------------------
(***************************************************************************)
(* Facts about natural numbers that the proofs of several components use.  *)
(***************************************************************************)
EXTENDS Integers, FiniteSets, FiniteSetTheorems, WellFoundedInduction, TLAPS

(* A non-empty set of naturals has a least element.                        *)
LEMMA NatLeast ==
  ASSUME NEW T \in SUBSET Nat, T # {}
  PROVE  \E x \in T : \A y \in T : x <= y
<1>1. IsWellFoundedOn({ss \in Nat \X Nat : ss[1] < ss[2]}, Nat)
  BY NatLessThanWellFounded DEF OpToRel
<1>2. \E x \in T : \A y \in T :
        ~ (<<y, x>> \in {ss \in Nat \X Nat : ss[1] < ss[2]})
  BY <1>1, WFMin, Zenon
<1>3. \A x, y \in Nat :
        <<y, x>> \in {ss \in Nat \X Nat : ss[1] < ss[2]} <=> y < x
  OBVIOUS
<1>4. \A x, y \in T : ~(y < x) => x <= y
  OBVIOUS
<1> QED
  BY <1>2, <1>3, <1>4

(* An interval from 1 on has as many elements as its upper bound says.     *)
LEMMA CountTo ==
  ASSUME NEW n \in Nat
  PROVE  IsFiniteSet(1 .. n) /\ Cardinality(1 .. n) = n
BY FS_Interval

---------------------------------------------------------------------------
(* A running sum is a recursive function; that it exists, and so obeys its *)
(* recursion, is shown by putting together its finite beginnings.          *)

(* The sum of w[lo] .. w[p] from the sums g before p.                      *)
SumStep(w, lo, g, p) ==
  IF p < lo THEN 0 ELSE w[p] + (IF p = 0 THEN 0 ELSE g[p - 1])

(* g is the running sum on 0 .. n.                                         *)
SumsTo(w, lo, g, n) == g = [p \in 0 .. n |-> SumStep(w, lo, g, p)]

(* Every beginning exists, ...                                             *)
LEMMA BeginningsExist ==
  ASSUME NEW w, NEW lo \in Nat
  PROVE  \A n \in Nat : \E g : SumsTo(w, lo, g, n)
<1> DEFINE T == {n \in Nat : ~ \E g : SumsTo(w, lo, g, n)}
<1> SUFFICES ASSUME T # {} PROVE FALSE
  OBVIOUS
<1>1. PICK n \in T : \A m \in T : n <= m
  <2> HIDE DEF T
  <2>1. T \in SUBSET Nat
    BY DEF T
  <2> QED
    BY <2>1, NatLeast
<1>2. n \in Nat
  OBVIOUS
<1>3. CASE n = 0
  <2> DEFINE v == SumStep(w, lo, << >>, 0)
             h == [p \in 0 .. 0 |-> v]
  <2>1. SumStep(w, lo, h, 0) = v
    BY DEF SumStep
  <2>2. \A p \in 0 .. 0 : p = 0
    OBVIOUS
  <2> HIDE DEF v
  <2>3. [p \in 0 .. 0 |-> SumStep(w, lo, h, p)] = [p \in 0 .. 0 |-> v]
    BY <2>1, <2>2
  <2>4. SumsTo(w, lo, h, 0)
    BY <2>3 DEF SumsTo
  <2> QED
    BY <1>3, <2>4
<1>4. CASE n # 0
  <2> DEFINE m == n - 1
  <2>1. m \in Nat /\ m < n /\ n = m + 1 /\ ~(n <= m)
    BY <1>2, <1>4
  <2> HIDE DEF m
  <2>2. m \notin T
    BY <1>1, <2>1
  <2>3. PICK g : SumsTo(w, lo, g, m)
    BY <2>1, <2>2
  <2> DEFINE h == [p \in 0 .. n |-> IF p = n THEN SumStep(w, lo, g, n) ELSE g[p]]
  <2>4. ASSUME NEW p \in 0 .. n PROVE h[p] = SumStep(w, lo, h, p)
    <3>1. CASE p = n
      <4>1. n - 1 = m /\ m \in 0 .. n /\ m # n /\ n # 0
        BY <2>1
      <4>2. h[n - 1] = g[n - 1]
        BY <4>1
      <4>3. h[n] = SumStep(w, lo, g, n)
        BY <1>2
      <4> HIDE DEF h
      <4> QED
        BY <3>1, <4>2, <4>3 DEF SumStep
    <3>2. CASE p # n
      <4>1. p \in 0 .. m /\ p \in Nat
        BY <2>1, <3>2
      <4>2. g[p] = SumStep(w, lo, g, p)
        BY <2>3, <4>1 DEF SumsTo
      <4>3. p # 0 => h[p - 1] = g[p - 1]
        BY <2>1, <4>1
      <4>4. h[p] = g[p]
        BY <3>2
      <4> HIDE DEF h
      <4> QED
        BY <4>2, <4>3, <4>4 DEF SumStep
    <3> QED
      BY <3>1, <3>2
  <2>5. SumsTo(w, lo, h, n)
    <3>1. h = [p \in 0 .. n |-> h[p]]
      OBVIOUS
    <3> HIDE DEF h
    <3> QED
      BY <2>4, <3>1 DEF SumsTo
  <2> QED
    BY <1>2, <2>5
<1> QED
  BY <1>3, <1>4

(* ... and is the same on what two beginnings have in common.              *)
LEMMA BeginningsAgree ==
  ASSUME NEW w, NEW lo \in Nat, NEW m \in Nat, NEW n \in Nat,
         NEW g, SumsTo(w, lo, g, m), NEW h, SumsTo(w, lo, h, n),
         NEW k \in Nat, k <= m, k <= n
  PROVE  g[k] = h[k]
<1> DEFINE T == {j \in Nat : j <= m /\ j <= n /\ g[j] # h[j]}
<1> SUFFICES ASSUME T # {} PROVE FALSE
  OBVIOUS
<1>1. PICK i \in T : \A j \in T : i <= j
  <2> HIDE DEF T
  <2>1. T \in SUBSET Nat
    BY DEF T
  <2> QED
    BY <2>1, NatLeast
<1>2. i \in Nat /\ i <= m /\ i <= n /\ g[i] # h[i]
  OBVIOUS
<1>3. i # 0 => g[i - 1] = h[i - 1]
  <2> SUFFICES ASSUME i # 0 PROVE i - 1 \notin T /\ i - 1 \in Nat /\ i - 1 <= m /\ i - 1 <= n
    OBVIOUS
  <2>1. i - 1 \in Nat /\ ~(i <= i - 1) /\ i - 1 <= m /\ i - 1 <= n
    BY <1>2
  <2> HIDE DEF T
  <2> QED
    BY <1>1, <2>1
<1>4. i \in 0 .. m /\ i \in 0 .. n
  BY <1>2
<1>5. g[i] = SumStep(w, lo, g, i) /\ h[i] = SumStep(w, lo, h, i)
  <2>1. g = [p \in 0 .. m |-> SumStep(w, lo, g, p)]
    BY DEF SumsTo
  <2>2. h = [p \in 0 .. n |-> SumStep(w, lo, h, p)]
    BY DEF SumsTo
  <2> QED
    BY <1>4, <2>1, <2>2
<1> QED
  BY <1>2, <1>3, <1>5 DEF SumStep

(* So there is a running sum of all naturals.                              *)
LEMMA RunningSum ==
  ASSUME NEW w, NEW lo \in Nat
  PROVE  \E f : f = [p \in Nat |-> SumStep(w, lo, f, p)]
<1> DEFINE g(n) == CHOOSE h : SumsTo(w, lo, h, n)
           f == [p \in Nat |-> g(p)[p]]
<1>1. \A n \in Nat : SumsTo(w, lo, g(n), n)
  BY BeginningsExist
<1> HIDE DEF g
<1>2. ASSUME NEW p \in Nat PROVE f[p] = SumStep(w, lo, f, p)
  <2>1. g(p)[p] = SumStep(w, lo, g(p), p)
    BY <1>1 DEF SumsTo
  <2>2. p # 0 => f[p - 1] = g(p)[p - 1]
    <3> SUFFICES ASSUME p # 0 PROVE f[p - 1] = g(p)[p - 1]
      OBVIOUS
    <3> DEFINE q == p - 1
    <3>1. q \in Nat /\ q <= p
      OBVIOUS
    <3> HIDE DEF q
    <3>2. q <= q /\ SumsTo(w, lo, g(q), q) /\ SumsTo(w, lo, g(p), p)
      BY <1>1, <3>1
    <3>3. g(q)[q] = g(p)[q]
      BY <3>1, <3>2, BeginningsAgree
    <3>4. f[q] = g(p)[q]
      BY <3>1, <3>3
    <3> QED
      BY <3>4 DEF q
  <2>3. f[p] = g(p)[p]
    OBVIOUS
  <2> HIDE DEF f
  <2> QED
    BY <2>1, <2>2, <2>3 DEF SumStep
<1>3. f = [p \in Nat |-> f[p]]
  OBVIOUS
<1> HIDE DEF f
<1>4. f = [p \in Nat |-> SumStep(w, lo, f, p)]
  BY <1>2, <1>3
<1> QED
  BY <1>4

(* Induction, for a set of naturals.                                       *)
LEMMA NatSetInduction ==
  ASSUME NEW T, 0 \in T, \A n \in Nat : n \in T => n + 1 \in T
  PROVE  \A n \in Nat : n \in T
<1> DEFINE U == {n \in Nat : n \notin T}
<1> SUFFICES ASSUME U # {} PROVE FALSE
  OBVIOUS
<1>1. PICK n \in U : \A m \in U : n <= m
  <2>1. U \in SUBSET Nat
    OBVIOUS
  <2> HIDE DEF U
  <2> QED
    BY <2>1, NatLeast
<1>2. n \in Nat /\ n \notin T /\ n # 0
  OBVIOUS
<1> DEFINE m == n - 1
<1>3. m \in Nat /\ m + 1 = n /\ ~(n <= m)
  BY <1>2
<1> HIDE DEF m
<1>4. m \in T
  BY <1>1, <1>3
<1> QED
  BY <1>2, <1>3, <1>4
=============================================================================
