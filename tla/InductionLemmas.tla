-------------------------- MODULE InductionLemmas ---------------------------
(* Induction over the natural numbers without an operator as a parameter:    *)
(* the property is a set, or what is proved is that a set has a least        *)
(* element.  The other proof modules use these facts for functions that are  *)
(* defined by recursion and for paths in graphs; they share the last lemmas  *)
(* too, about sequences, sets in some order and reachability.                *)
EXTENDS Integers, Sequences, SequencesExt, Sorting, Reachability, WellFoundedInduction, FiniteSetTheorems, TLAPS

Below == {p \in Nat \X Nat : p[1] < p[2]}

(* The order of the natural numbers is well founded.                          *)
LEMMA BelowIsWellFounded == IsWellFoundedOn(Below, Nat)
<1>1. IsWellFoundedOn(OpToRel(<, Nat), Nat)
  BY NatLessThanWellFounded
<1> QED
  BY <1>1, IsWellFoundedOnSubrelation DEF OpToRel, Below

(* A set of natural numbers that is not empty has a least element.           *)
LEMMA LeastElement ==
    ASSUME NEW T \in SUBSET Nat, T # {}
    PROVE  \E n \in T : \A m \in T : n <= m
<1>1. PICK n \in T : \A m \in T : ~(<<m, n>> \in Below)
  BY BelowIsWellFounded, WFMin
<1>2. \A m \in T : m \in Nat /\ n \in Nat /\ ~(m < n)
  BY <1>1 DEF Below
<1> QED
  BY <1>2

(* What holds of 0, and of n + 1 if it holds of n, holds of all numbers.     *)
LEMMA Induction ==
    ASSUME NEW S, 0 \in S, \A n \in Nat : n \in S => n + 1 \in S
    PROVE  \A n \in Nat : n \in S
<1> DEFINE T == {n \in Nat : n \notin S}
<1> SUFFICES ASSUME T # {} PROVE FALSE
  OBVIOUS
<1>1. PICK n \in T : \A m \in T : n <= m
  BY LeastElement
<1>2. n # 0 /\ n - 1 \in Nat /\ n - 1 \notin T
  BY <1>1
<1> QED
  BY <1>2

(* A sequence of values given by the first and by a step from each to the    *)
(* next exists.                                                             *)
Recursive(V, first, step) ==
    \E f \in [Nat -> V] : f[0] = first /\ \A n \in Nat : f[n + 1] = step[n][f[n]]

LEMMA RecursionExists ==
    ASSUME NEW V, NEW first \in V, NEW step \in [Nat -> [V -> V]]
    PROVE  Recursive(V, first, step)
<1> DEFINE Upto(n, f) == /\ f \in [0 .. n -> V]
                         /\ f[0] = first
                         /\ \A k \in 0 .. n - 1 : f[k + 1] = step[k][f[k]]
           Good == {n \in Nat : \E f : Upto(n, f)}
<1>1. \A n \in Nat : n \in Good
  <2>1. 0 \in Good
    <3>1. Upto(0, [k \in 0 .. 0 |-> first])
      OBVIOUS
    <3> QED
      BY <3>1
  <2>2. ASSUME NEW n \in Nat, n \in Good PROVE n + 1 \in Good
    <3>1. PICK f : Upto(n, f)
      BY <2>2
    <3> DEFINE g == [k \in 0 .. n + 1 |-> IF k <= n THEN f[k] ELSE step[n][f[n]]]
    <3>2. g \in [0 .. n + 1 -> V]
      BY <3>1
    <3>3. \A k \in 0 .. n : g[k] = f[k]
      OBVIOUS
    <3>4. g[n + 1] = step[n][f[n]]
      OBVIOUS
    <3> HIDE DEF g
    <3>5. \A k \in 0 .. n : g[k + 1] = step[k][g[k]]
      <4> TAKE k \in 0 .. n
      <4>1. CASE k = n
        BY <4>1, <3>3, <3>4
      <4>2. CASE k < n
        <5>1. k + 1 \in 0 .. n /\ k \in 0 .. n - 1
          BY <4>2
        <5> QED
          BY <5>1, <3>1, <3>3
      <4> QED
        BY <4>1, <4>2
    <3>6. Upto(n + 1, g)
      BY <3>1, <3>2, <3>3, <3>5
    <3> HIDE DEF Upto
    <3> QED
      BY <3>6
  <2> HIDE DEF Good
  <2> QED
    BY <2>1, <2>2, Induction
<1> DEFINE F == [n \in Nat |-> CHOOSE f : Upto(n, f)]
<1>2. \A n \in Nat : Upto(n, F[n])
  BY <1>1
<1> HIDE DEF F
<1>3. ASSUME NEW n \in Nat, NEW m \in Nat, n <= m
      PROVE  \A k \in 0 .. n : F[n][k] = F[m][k]
  <2> DEFINE Same == {k \in Nat : k <= n => F[n][k] = F[m][k]}
  <2>1. 0 \in Same
    BY <1>2
  <2>2. ASSUME NEW k \in Nat, k \in Same PROVE k + 1 \in Same
    <3> SUFFICES ASSUME k + 1 <= n PROVE F[n][k + 1] = F[m][k + 1]
      OBVIOUS
    <3>1. k \in 0 .. n - 1 /\ k \in 0 .. m - 1
      BY <1>3
    <3>2. F[n][k + 1] = step[k][F[n][k]] /\ F[m][k + 1] = step[k][F[m][k]]
      BY <1>2, <3>1
    <3>3. F[n][k] = F[m][k]
      BY <2>2, <3>1
    <3> QED
      BY <3>2, <3>3
  <2> HIDE DEF Same
  <2>3. \A k \in Nat : k \in Same
    BY <2>1, <2>2, Induction
  <2>4. \A k \in 0 .. n : k \in Nat /\ k <= n
    OBVIOUS
  <2> QED
    BY <2>3, <2>4 DEF Same
<1> DEFINE f == [n \in Nat |-> F[n][n]]
<1>4. f \in [Nat -> V] /\ f[0] = first
  BY <1>2
<1>5. \A n \in Nat : f[n + 1] = step[n][f[n]]
  <2> TAKE n \in Nat
  <2>1. F[n + 1][n + 1] = step[n][F[n + 1][n]]
    BY <1>2
  <2>2. F[n + 1][n] = F[n][n]
    BY <1>3
  <2> QED
    BY <2>1, <2>2
<1> QED
  BY <1>4, <1>5 DEF Recursive

(* A sequence without its last member.                                        *)
LEMMA FrontFacts ==
    ASSUME NEW S, NEW s \in Seq(S), Len(s) > 0
    PROVE  /\ Front(s) \in Seq(S) /\ Len(Front(s)) = Len(s) - 1
           /\ \A t \in 1 .. Len(s) - 1 : Front(s)[t] = s[t]
<1> DEFINE w == Len(s) - 1
<1>1. w \in Nat /\ w <= Len(s)
  OBVIOUS
<1> HIDE DEF w
<1>2. /\ SubSeq(s, 1, w) \in Seq(S) /\ Len(SubSeq(s, 1, w)) = w
      /\ \A t \in 1 .. w : SubSeq(s, 1, w)[t] = s[t]
  BY <1>1
<1> QED
  BY <1>2 DEF Front, w

(* The image of a finite set is finite and no larger.                         *)
LEMMA Images ==
    ASSUME NEW S, IsFiniteSet(S), NEW f, NEW T, T = {f[x] : x \in S}
    PROVE  IsFiniteSet(T) /\ Cardinality(T) <= Cardinality(S)
<1> DEFINE g == [x \in S |-> f[x]]
<1>1. g \in Surjection(S, T)
  BY DEF Surjection
<1> QED
  BY <1>1, FS_Surjection

(* The image under a function that is one-to-one has the size of the set.     *)
LEMMA Bijections ==
    ASSUME NEW S, IsFiniteSet(S), NEW f, NEW T, T = {f[x] : x \in S},
           \A x, y \in S : f[x] = f[y] => x = y
    PROVE  IsFiniteSet(T) /\ Cardinality(T) = Cardinality(S)
<1> DEFINE g == [x \in S |-> f[x]]
<1>1. g \in Surjection(S, T)
  BY DEF Surjection
<1>2. g \in Injection(S, T)
  BY DEF Injection, IsInjective
<1> QED
  BY <1>1, <1>2, FS_Surjection

\* s lists the n members of S in increasing order.
SortedBy(S, s, n) == /\ s \in [1 .. n -> S]
                     /\ \A i, j \in 1 .. n : i < j => s[i] < s[j]
                     /\ \A x \in S : \E i \in 1 .. n : s[i] = x

(* A finite set of natural numbers can be listed in increasing order.         *)
LEMMA SortedExists ==
    \A n \in Nat : \A S \in SUBSET Nat :
        IsFiniteSet(S) /\ Cardinality(S) = n => \E s : SortedBy(S, s, n)
<1> DEFINE Sortable(n) == \A S \in SUBSET Nat :
                             IsFiniteSet(S) /\ Cardinality(S) = n => \E s : SortedBy(S, s, n)
           T == {n \in Nat : Sortable(n)}
<1>1. 0 \in T
  <2> SUFFICES ASSUME NEW S \in SUBSET Nat, IsFiniteSet(S), Cardinality(S) = 0
               PROVE  \E s : SortedBy(S, s, 0)
    OBVIOUS
  <2>1. S = {}
    BY FS_EmptySet
  <2>2. SortedBy(S, [i \in 1 .. 0 |-> i], 0)
    BY <2>1 DEF SortedBy
  <2> QED
    BY <2>2
<1>2. ASSUME NEW n \in Nat, n \in T PROVE n + 1 \in T
  <2>0. n + 1 \in Nat
    OBVIOUS
  <2> SUFFICES ASSUME NEW S \in SUBSET Nat, IsFiniteSet(S), Cardinality(S) = n + 1
               PROVE  \E s : SortedBy(S, s, n + 1)
    BY <2>0
  <2>1. S # {}
    <3>1. n + 1 # 0
      OBVIOUS
    <3> QED
      BY <3>1, FS_EmptySet
  <2>2. PICK m \in S : \A x \in S : m <= x
    BY <2>1, LeastElement
  <2> DEFINE R == S \ {m}
  <2>3. R \in SUBSET Nat /\ IsFiniteSet(R) /\ Cardinality(R) = n
    <3>1. IsFiniteSet(R) /\ Cardinality(R) = Cardinality(S) - 1
      BY FS_RemoveElement
    <3> HIDE DEF R
    <3>2. Cardinality(R) = n
      BY <3>1
    <3> QED
      BY <3>1, <3>2 DEF R
  <2>4. PICK r : SortedBy(R, r, n)
    BY <1>2, <2>3
  <2>5. /\ r \in [1 .. n -> R] /\ \A i, j \in 1 .. n : i < j => r[i] < r[j]
        /\ \A x \in R : \E i \in 1 .. n : r[i] = x
    BY <2>4 DEF SortedBy
  <2> DEFINE s == [i \in 1 .. n + 1 |-> IF i = 1 THEN m ELSE r[i - 1]]
  <2>6. s[1] = m /\ \A i \in 1 .. n + 1 : i # 1 => i - 1 \in 1 .. n /\ s[i] = r[i - 1]
    OBVIOUS
  <2>7. \A i \in 1 .. n + 1 : s[i] \in S /\ s[i] \in Nat /\ m \in Nat /\ (i # 1 => m < s[i])
    <3> TAKE i \in 1 .. n + 1
    <3> HIDE DEF s
    <3>1. CASE i = 1
      BY <3>1, <2>6
    <3>2. CASE i # 1
      <4>1. s[i] \in R /\ s[i] \in S /\ s[i] # m
        BY <3>2, <2>5, <2>6
      <4>2. m <= s[i] /\ m \in Nat /\ s[i] \in Nat
        BY <2>2, <4>1
      <4> QED
        BY <3>2, <4>1, <4>2
    <3> QED
      BY <3>1, <3>2
  <2>8. ASSUME NEW i \in 1 .. n + 1, NEW j \in 1 .. n + 1, i < j PROVE s[i] < s[j]
    <3> HIDE DEF s
    <3>1. CASE i = 1
      BY <3>1, <2>6, <2>7, <2>8
    <3>2. CASE i # 1
      <4>1. i - 1 \in 1 .. n /\ j - 1 \in 1 .. n /\ i - 1 < j - 1 /\ j # 1
        BY <3>2, <2>8
      <4>2. r[i - 1] < r[j - 1] /\ s[i] = r[i - 1] /\ s[j] = r[j - 1]
        BY <3>2, <4>1, <2>5, <2>6
      <4> QED
        BY <4>2
    <3> QED
      BY <3>1, <3>2
  <2>9. ASSUME NEW x \in S PROVE \E i \in 1 .. n + 1 : s[i] = x
    <3>1. CASE x = m
      <4>1. 1 \in 1 .. n + 1
        OBVIOUS
      <4> QED
        BY <3>1, <4>1, <2>6
    <3>2. CASE x # m
      <4>1. PICK i \in 1 .. n : r[i] = x
        BY <3>2, <2>5
      <4>2. i + 1 \in 1 .. n + 1 /\ i + 1 # 1 /\ (i + 1) - 1 = i
        OBVIOUS
      <4> QED
        BY <4>1, <4>2, <2>6
    <3> QED
      BY <3>1, <3>2
  <2>10. s \in [1 .. n + 1 -> S]
    BY <2>7
  <2> HIDE DEF s
  <2>11. SortedBy(S, s, n + 1)
    BY <2>8, <2>9, <2>10 DEF SortedBy
  <2> QED
    BY <2>11
<1> HIDE DEF T
<1>3. \A n \in Nat : n \in T
  BY <1>1, <1>2, Induction
<1> QED
  BY <1>3 DEF T

(* The sorted members of a set are listed once each.                          *)
LEMMA SortedFacts ==
    ASSUME NEW S \in SUBSET Nat, IsFiniteSet(S)
    PROVE  /\ Cardinality(S) \in Nat
           /\ SortedBy(S, Sorted(S), Cardinality(S))
           /\ Sorted(S) \in Seq(S) /\ Len(Sorted(S)) = Cardinality(S)
           /\ Range(Sorted(S)) = S
<1> DEFINE n == Cardinality(S)
<1>1. n \in Nat
  BY FS_CardinalityType
<1>2. \E s : SortedBy(S, s, n)
  BY <1>1, SortedExists
<1>3. PICK s \in [1 .. n -> S] : SortedBy(S, s, n) /\ Increasing(s)
  BY <1>2 DEF SortedBy, Increasing
<1>4. Sorted(S) \in [1 .. n -> S] /\ Increasing(Sorted(S))
  BY <1>3 DEF Sorted
<1> DEFINE t == Sorted(S)
<1> HIDE DEF t
<1>5. t \in [1 .. n -> S] /\ \A i, j \in 1 .. n : i < j => t[i] < t[j]
  BY <1>4 DEF Increasing, t
<1>6. \A i \in 1 .. n : t[i] \in Nat /\ i \in Nat
  <2> TAKE i \in 1 .. n
  <2>1. t[i] \in S
    BY <1>5
  <2>2. t[i] \in Nat
    BY <2>1
  <2>3. i \in Nat
    <3> HIDE DEF n
    <3> QED
      BY <1>1
  <2> QED
    BY <2>2, <2>3
<1>7. \A i, j \in 1 .. n : t[i] = t[j] => i = j
  <2> TAKE i, j \in 1 .. n
  <2>1. t[i] \in Nat /\ t[j] \in Nat /\ i \in Nat /\ j \in Nat
    BY <1>6
  <2>2. (i < j => t[i] < t[j]) /\ (j < i => t[j] < t[i])
    BY <1>5
  <2> QED
    BY <2>1, <2>2
<1>8. \A x \in S : \E i \in 1 .. n : t[i] = x
  <2> DEFINE R == {t[i] : i \in 1 .. n}
  <2>1. IsFiniteSet(1 .. n) /\ Cardinality(1 .. n) = n
    BY <1>1, FS_Interval
  <2>2. R \in SUBSET S
    BY <1>5
  <2>3. Cardinality(R) = n
    BY <1>7, <2>1, Bijections
  <2> HIDE DEF R
  <2>4. R = S
    BY <2>2, <2>3, FS_Subset
  <2> QED
    BY <2>4 DEF R
<1>9. SortedBy(S, t, n)
  BY <1>5, <1>8 DEF SortedBy
<1>10. t \in Seq(S) /\ Len(t) = n
  BY <1>1, <1>5
<1>11. Range(t) = S
  BY <1>5, <1>8 DEF Range
<1> QED
  BY <1>1, <1>9, <1>10, <1>11 DEF t

(* The members of a finite set in some order: each of them once.              *)
LEMMA SetToSeqFacts ==
    ASSUME NEW S, IsFiniteSet(S)
    PROVE  /\ SetToSeq(S) \in Seq(S) /\ Len(SetToSeq(S)) = Cardinality(S) /\ Cardinality(S) \in Nat
           /\ \A x \in S : \E i \in 1 .. Len(SetToSeq(S)) : SetToSeq(S)[i] = x
           /\ \A i, j \in 1 .. Len(SetToSeq(S)) : SetToSeq(S)[i] = SetToSeq(S)[j] => i = j
<1> DEFINE n == Cardinality(S)
           s == SetToSeq(S)
<1>1. n \in Nat
  BY FS_CardinalityType
<1>2. PICK f : f \in Bijection(1 .. n, S)
  <2>1. PICK m \in Nat : ExistsBijection(1 .. m, S)
    BY FS_NatBijection
  <2>2. Cardinality(S) = m
    BY <2>1, FS_CountingElements
  <2> QED
    BY <2>1, <2>2 DEF ExistsBijection
<1>3. f \in [1 .. n -> S] /\ IsInjective(f)
  BY <1>2 DEF Bijection, Injection
<1>4. s \in [1 .. n -> S] /\ IsInjective(s)
  BY <1>3 DEF SetToSeq
<1> HIDE DEF s
<1>5. \A i, j \in 1 .. n : s[i] = s[j] => i = j
  BY <1>4 DEF IsInjective
<1>6. s \in Seq(S) /\ Len(s) = n
  BY <1>1, <1>4
<1>7. IsFiniteSet(1 .. n) /\ Cardinality(1 .. n) = n
  BY <1>1, FS_Interval
<1>8. s \in Injection(1 .. n, S)
  BY <1>4 DEF Injection
<1> DEFINE R == {s[i] : i \in 1 .. n}
<1>9. R \in SUBSET S
  BY <1>4
<1>10. Cardinality(R) = n
  BY <1>5, <1>7, Bijections
<1> HIDE DEF R
<1>11. R = S
  BY <1>9, <1>10, FS_Subset
<1>12. \A x \in S : \E i \in 1 .. n : s[i] = x
  BY <1>11 DEF R
<1> QED
  BY <1>1, <1>5, <1>6, <1>12 DEF s

(* Reached(g, n) is closed under g, has the successors of n, and is the least *)
(* such set.                                                                  *)
LEMMA ReachedFacts ==
    ASSUME NEW N, NEW g \in [N -> SUBSET N], NEW n \in N
    PROVE  /\ Reached(g, n) \subseteq N
           /\ g[n] \subseteq Reached(g, n)
           /\ Closed(g, Reached(g, n))
           /\ \A S \in SUBSET N : g[n] \subseteq S /\ Closed(g, S) => Reached(g, n) \subseteq S
<1>0. DOMAIN g = N /\ \A m \in N : g[m] \subseteq N
  OBVIOUS
<1>1. \A S \in SUBSET N : g[n] \subseteq S /\ Closed(g, S) => Reached(g, n) \subseteq S
  BY <1>0 DEF Reached
<1>2. Reached(g, n) \subseteq N /\ g[n] \subseteq Reached(g, n)
  BY <1>0 DEF Reached
<1>3. ASSUME NEW m \in Reached(g, n), NEW k \in g[m] PROVE k \in Reached(g, n)
  <2>1. k \in N
    BY <1>0, <1>2
  <2>2. ASSUME NEW S \in SUBSET N, g[n] \subseteq S, Closed(g, S) PROVE k \in S
    <3>1. m \in S
      BY <1>1, <2>2
    <3> QED
      BY <3>1, <2>2 DEF Closed
  <2> QED
    BY <1>0, <2>1, <2>2 DEF Reached
<1> QED
  BY <1>1, <1>2, <1>3 DEF Closed

(* What a reached node reaches is reached.                                    *)
LEMMA ReachedTrans ==
    ASSUME NEW N, NEW g \in [N -> SUBSET N], NEW n \in N, NEW m \in Reached(g, n)
    PROVE  m \in N /\ Reached(g, m) \subseteq Reached(g, n)
<1>1. m \in N /\ Reached(g, n) \in SUBSET N /\ Closed(g, Reached(g, n))
  BY ReachedFacts
<1>2. g[m] \subseteq Reached(g, n)
  BY <1>1 DEF Closed
<1> QED
  BY <1>1, <1>2, ReachedFacts
=============================================================================
