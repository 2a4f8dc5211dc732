---------------------------- MODULE CallsProofs ----------------------------
(* Calls proved for every program that is Covered, in both modes, with any    *)
(* values, pointers and number of calls in progress:                          *)
(*   Follows      the project goes where the program goes;                    *)
(*   ReadsRight   and reads what the program reads;                           *)
(*   Cleared      nothing that a call saved is left at the end;               *)
(*   TypeCorrect  the types, and which calls Scratch comes back from;          *)
(*   SearchFinds  a jump table leads to the branch of the value looked up.     *)
(* CallsInvariant has the inductive invariant.  The lemmas come in the order   *)
(* of the compiler: what it finds out about a program first, then that it is   *)
(* enough when the program runs, one step of the generated code at a time.     *)
EXTENDS CallsInvariant, InductionLemmas

-----------------------------------------------------------------------------
(* The nested conditions of a jump table.                                    *)

\* A table, and what is known of a value looked up in it.
Table(branches)          == IsFiniteSet(DOMAIN branches) /\ DOMAIN branches \subseteq Nat
Within(value, min, max)  == /\ min = Unlimited \/ min <= value
                            /\ max = Unlimited \/ value <= max

\* The ranges the search goes through.
Ranges(value, keys, first) ==
    CHOOSE f : f = [n \in Nat |-> IF n = 0 THEN first ELSE Narrowed(value, keys, f[n - 1])]

RangeType == [lo : Nat, hi : Nat, min : Int, max : Int]

(* A comparison leaves a range of numbers.                                    *)
LEMMA NarrowedType ==
    ASSUME NEW value \in Int, NEW keys \in Seq(Nat), NEW range \in RangeType
    PROVE  Narrowed(value, keys, range) \in RangeType
<1> DEFINE mid == Middle(range)
<1>1. mid \in Nat
  BY DEF Middle, RangeType
<1> HIDE DEF mid
<1>2. CASE mid >= Len(keys)
  BY <1>2 DEF Narrowed, mid
<1>3. CASE mid < Len(keys)
  <2> DEFINE key == keys[mid + 1]
  <2>1. mid + 1 \in 1 .. Len(keys)
    BY <1>1, <1>3
  <2>2. key \in Nat
    BY <2>1
  <2>3. key + 1 \in Int /\ key \in Int /\ mid + 1 \in Nat
    BY <1>1, <2>2
  <2> DEFINE above == [range EXCEPT !.lo = mid + 1, !.min = key + 1]
             below == [range EXCEPT !.hi = mid, !.max = key]
  <2>4. above \in RangeType
    <3> HIDE DEF key
    <3> QED
      BY <2>3 DEF RangeType
  <2>5. below \in RangeType
    <3> HIDE DEF key
    <3> QED
      BY <1>1, <2>3 DEF RangeType
  <2>6. Narrowed(value, keys, range) \in {range, above, below}
    BY DEF Narrowed, mid
  <2> HIDE DEF above, below
  <2> QED
    BY <2>4, <2>5, <2>6
<1> QED
  BY <1>1, <1>2, <1>3

(* The ranges are those their recursion says.                                 *)
LEMMA RangesStep ==
    ASSUME NEW value \in Int, NEW keys \in Seq(Nat), NEW first \in RangeType
    PROVE  /\ Ranges(value, keys, first) \in [Nat -> RangeType]
           /\ Ranges(value, keys, first)[0] = first
           /\ \A n \in Nat : Ranges(value, keys, first)[n + 1]
                                = Narrowed(value, keys, Ranges(value, keys, first)[n])
<1> DEFINE step == [n \in Nat |-> [r \in RangeType |-> Narrowed(value, keys, r)]]
<1>1. step \in [Nat -> [RangeType -> RangeType]]
  BY NarrowedType
<1>2. \A n \in Nat, r \in RangeType : step[n][r] = Narrowed(value, keys, r)
  OBVIOUS
<1> HIDE DEF step
<1>3. PICK f \in [Nat -> RangeType] : f[0] = first /\ \A n \in Nat : f[n + 1] = step[n][f[n]]
  <2>1. Recursive(RangeType, first, step)
    BY <1>1, RecursionExists
  <2> QED
    BY <2>1 DEF Recursive
<1>4. \A n \in Nat : f[n + 1] = Narrowed(value, keys, f[n])
  BY <1>2, <1>3
<1>5. f = [n \in Nat |-> IF n = 0 THEN first ELSE Narrowed(value, keys, f[n - 1])]
  <2>1. ASSUME NEW n \in Nat, n # 0 PROVE f[n] = Narrowed(value, keys, f[n - 1])
    <3>1. n - 1 \in Nat /\ (n - 1) + 1 = n
      BY <2>1
    <3> QED
      BY <1>4, <3>1
  <2> QED
    BY <2>1, <1>3
<1> DEFINE R == Ranges(value, keys, first)
<1>6. R = [n \in Nat |-> IF n = 0 THEN first ELSE Narrowed(value, keys, R[n - 1])]
  BY <1>5 DEF Ranges
<1> HIDE DEF R
<1>7. R[0] = first /\ \A n \in Nat : R[n + 1] = Narrowed(value, keys, R[n])
  BY <1>6
<1> DEFINE T == {n \in Nat : R[n] \in RangeType}
<1>8. 0 \in T
  BY <1>7
<1>9. ASSUME NEW n \in Nat, n \in T PROVE n + 1 \in T
  <2>1. n + 1 \in Nat /\ R[n + 1] = Narrowed(value, keys, R[n]) /\ R[n] \in RangeType
    BY <1>7, <1>9
  <2> QED
    BY <2>1, NarrowedType
<1> HIDE DEF T
<1>10. \A n \in Nat : n \in T
  BY <1>8, <1>9, Induction
<1>11. R \in [Nat -> RangeType]
  BY <1>6, <1>10 DEF T
<1> QED
  BY <1>7, <1>11 DEF R

\* What is true of a range the search of n keys can reach, and where it ends.
Holds(value, keys, range) ==
    /\ range \in RangeType
    /\ range.lo <= range.hi /\ range.hi <= Len(keys) + 1
    /\ range.hi <= Len(keys) \/ keys = << >>
    /\ Within(value, range.min, range.max)
    /\ \A i \in 1 .. Len(keys) : keys[i] = value => range.lo < i /\ i <= range.hi + 1

Ended(keys, range) == Middle(range) >= Len(keys) \/ range.lo = range.hi

\* s lists numbers in increasing order.
Ordered(s) == s \in Seq(Nat) /\ \A i, j \in 1 .. Len(s) : i < j => s[i] < s[j]

(* A comparison keeps the range of a number that is in the table, keeps the   *)
(* limits true, and makes the range smaller.                                  *)
LEMMA NarrowedHolds ==
    ASSUME NEW value \in Int, NEW keys, Ordered(keys), NEW range,
           Holds(value, keys, range), ~Ended(keys, range)
    PROVE  /\ Holds(value, keys, Narrowed(value, keys, range))
           /\ Narrowed(value, keys, range).hi - Narrowed(value, keys, range).lo < range.hi - range.lo
<1> DEFINE mid == Middle(range)
           key == keys[mid + 1]
           next == Narrowed(value, keys, range)
<1>1. /\ range \in RangeType /\ range.lo \in Nat /\ range.hi \in Nat
      /\ range.min \in Int /\ range.max \in Int /\ keys \in Seq(Nat) /\ Len(keys) \in Nat
  BY DEF Holds, RangeType, Ordered
<1>2. mid \in Nat /\ range.lo <= mid /\ mid < range.hi /\ mid < Len(keys)
  <2>1. range.lo <= range.hi /\ range.lo # range.hi /\ ~(mid >= Len(keys))
    BY DEF Holds, Ended
  <2>2. \A l, h \in Nat : l <= h /\ l # h =>
            (l + h) \div 2 \in Nat /\ l <= (l + h) \div 2 /\ (l + h) \div 2 < h
    OBVIOUS
  <2>3. mid \in Nat /\ range.lo <= mid /\ mid < range.hi
    <3> HIDE DEF key, next
    <3> QED
      BY <1>1, <2>1, <2>2 DEF Middle
  <2> QED
    BY <1>1, <2>1, <2>3
<1> HIDE DEF mid
<1>3. mid + 1 \in 1 .. Len(keys) /\ key \in Nat
  BY <1>1, <1>2
<1>4. keys # << >>
  BY <1>1, <1>2
<1>5. next \in RangeType
  BY <1>1, NarrowedType
<1>6. ASSUME value > key
      PROVE  /\ next.lo = mid + 1 /\ next.hi = range.hi
             /\ next.min = key + 1 /\ next.max = range.max
  BY <1>1, <1>2, <1>6 DEF Narrowed, Ended, mid, RangeType
<1>7. ASSUME ~(value > key)
      PROVE  /\ next.lo = range.lo /\ next.hi = mid
             /\ next.min = range.min /\ next.max = key
  BY <1>1, <1>2, <1>7 DEF Narrowed, Ended, mid, RangeType
<1>8. /\ range.hi <= Len(keys) /\ Within(value, range.min, range.max)
      /\ \A i \in 1 .. Len(keys) : keys[i] = value => range.lo < i /\ i <= range.hi + 1
  BY <1>4 DEF Holds
<1>9. \A i \in 1 .. Len(keys) : /\ keys[i] \in Nat
                                /\ i < mid + 1 => keys[i] < key
                                /\ mid + 1 < i => key < keys[i]
  <2>1. /\ \A i \in 1 .. Len(keys) : keys[i] \in Nat
        /\ \A i, j \in 1 .. Len(keys) : i < j => keys[i] < keys[j]
    BY <1>1 DEF Ordered
  <2> QED
    BY <1>3, <2>1
<1> HIDE DEF key, next
<1>10. CASE value > key
  <2>1. next.lo <= next.hi /\ next.hi <= Len(keys) /\ next.hi - next.lo < range.hi - range.lo
    <3>1. next.lo = mid + 1 /\ next.hi = range.hi
      BY <1>6, <1>10
    <3>2. /\ mid + 1 <= range.hi /\ range.hi <= Len(keys)
          /\ range.hi - (mid + 1) < range.hi - range.lo
      <4>1. \A l, h, m, n \in Int : l <= m /\ m < h /\ h <= n => m + 1 <= h /\ h - (m + 1) < h - l
        OBVIOUS
      <4>2. /\ range.lo \in Int /\ range.hi \in Int /\ mid \in Int /\ Len(keys) \in Int
            /\ range.lo <= mid /\ mid < range.hi /\ range.hi <= Len(keys)
        BY <1>1, <1>2, <1>8
      <4> QED
        BY <4>1, <4>2
    <3> QED
      BY <3>1, <3>2
  <2>2. Within(value, next.min, next.max)
    BY <1>3, <1>6, <1>8, <1>10 DEF Within
  <2>3. \A i \in 1 .. Len(keys) : keys[i] = value => next.lo < i /\ i <= next.hi + 1
    <3> SUFFICES ASSUME NEW i \in 1 .. Len(keys), keys[i] = value PROVE mid + 1 < i /\ i <= range.hi + 1
      BY <1>6, <1>10
    <3>0. keys[i] = value /\ i \in 1 .. Len(keys)
      OBVIOUS
    <3>1. ~(i < mid + 1) /\ i # mid + 1
      <4>1. keys[i] \in Nat /\ (i < mid + 1 => keys[i] < key) /\ (i = mid + 1 => keys[i] = key)
        BY <1>9 DEF key
      <4> QED
        BY <3>0, <4>1, <1>3, <1>10
    <3> QED
      BY <1>2, <1>8, <3>1
  <2> QED
    BY <1>1, <1>5, <2>1, <2>2, <2>3 DEF Holds, next, RangeType
<1>11. CASE ~(value > key)
  <2>1. next.lo <= next.hi /\ next.hi <= Len(keys) /\ next.hi - next.lo < range.hi - range.lo
    <3>1. next.lo = range.lo /\ next.hi = mid
      BY <1>7, <1>11
    <3>2. /\ range.lo <= mid /\ mid <= Len(keys)
          /\ mid - range.lo < range.hi - range.lo
      BY <1>1, <1>2
    <3> QED
      BY <3>1, <3>2
  <2>2. Within(value, next.min, next.max)
    BY <1>3, <1>7, <1>8, <1>11 DEF Within
  <2>3. \A i \in 1 .. Len(keys) : keys[i] = value => next.lo < i /\ i <= next.hi + 1
    <3> SUFFICES ASSUME NEW i \in 1 .. Len(keys), keys[i] = value PROVE range.lo < i /\ i <= mid + 1
      BY <1>7, <1>11
    <3>0. keys[i] = value /\ i \in 1 .. Len(keys)
      OBVIOUS
    <3>1. ~(mid + 1 < i)
      <4>1. keys[i] \in Nat /\ (mid + 1 < i => key < keys[i])
        BY <1>9
      <4> QED
        BY <3>0, <4>1, <1>3, <1>11
    <3> QED
      BY <1>2, <1>8, <3>1
  <2> QED
    BY <1>1, <1>5, <2>1, <2>2, <2>3 DEF Holds, next, RangeType
<1> QED
  BY <1>10, <1>11

(* hi - lo comparisons are enough.                                           *)
LEMMA SearchEnds ==
    ASSUME NEW value \in Int, NEW keys, Ordered(keys), NEW first, Holds(value, keys, first)
    PROVE  /\ Holds(value, keys, Ranges(value, keys, first)[first.hi - first.lo])
           /\ Ended(keys, Ranges(value, keys, first)[first.hi - first.lo])
<1> DEFINE R == Ranges(value, keys, first)
           size == first.hi - first.lo
           T == {n \in Nat : /\ Holds(value, keys, R[n])
                             /\ Ended(keys, R[n]) \/ R[n].hi - R[n].lo <= size - n}
<1>1. /\ first \in RangeType /\ first.lo \in Nat /\ first.hi \in Nat /\ first.lo <= first.hi
      /\ keys \in Seq(Nat)
  BY DEF Holds, RangeType, Ordered
<1>2. size \in Nat
  BY <1>1
<1>3. R[0] = first /\ \A n \in Nat : R[n] \in RangeType /\ R[n + 1] = Narrowed(value, keys, R[n])
  <2>1. keys \in Seq(Nat) /\ first \in RangeType
    BY <1>1
  <2>2. R \in [Nat -> RangeType] /\ R[0] = first /\ \A n \in Nat : R[n + 1] = Narrowed(value, keys, R[n])
    BY <2>1, RangesStep
  <2> HIDE DEF R
  <2> QED
    BY <2>2
<1> HIDE DEF R
<1>4. 0 \in T
  <2>1. Holds(value, keys, R[0]) /\ R[0].hi - R[0].lo = size
    BY <1>3
  <2> HIDE DEF size
  <2> QED
    BY <1>2, <2>1
<1> HIDE DEF size
<1>5. ASSUME NEW n \in Nat, n \in T PROVE n + 1 \in T
  <2>1. /\ Holds(value, keys, R[n]) /\ n + 1 \in Nat /\ R[n + 1] = Narrowed(value, keys, R[n])
        /\ Ended(keys, R[n]) \/ R[n].hi - R[n].lo <= size - n
    BY <1>3, <1>5
  <2>2. CASE Ended(keys, R[n])
    <3>1. R[n + 1] = R[n]
      BY <2>1, <2>2 DEF Narrowed, Ended
    <3> QED
      BY <2>1, <2>2, <3>1
  <2>3. CASE ~Ended(keys, R[n])
    <3>1. Holds(value, keys, R[n + 1]) /\ R[n + 1].hi - R[n + 1].lo < R[n].hi - R[n].lo
      BY <2>1, <2>3, NarrowedHolds
    <3>2. /\ R[n].hi \in Nat /\ R[n].lo \in Nat /\ R[n].hi - R[n].lo <= size - n
          /\ R[n + 1].hi \in Nat /\ R[n + 1].lo \in Nat
      BY <2>1, <2>3, <1>3 DEF RangeType
    <3>3. R[n + 1].hi - R[n + 1].lo <= size - (n + 1)
      BY <1>2, <3>1, <3>2
    <3> QED
      BY <2>1, <3>1, <3>3
  <2> QED
    BY <2>2, <2>3
<1> HIDE DEF T
<1>6. \A n \in Nat : n \in T
  BY <1>4, <1>5, Induction
<1>7. Holds(value, keys, R[size]) /\ (Ended(keys, R[size]) \/ R[size].hi - R[size].lo <= size - size)
  BY <1>2, <1>6 DEF T
<1>8. R[size].lo \in Nat /\ R[size].hi \in Nat /\ R[size].lo <= R[size].hi
  BY <1>7 DEF Holds, RangeType
<1>9. Ended(keys, R[size])
  BY <1>2, <1>7, <1>8 DEF Ended
<1> QED
  BY <1>7, <1>9 DEF R, size

\* The callers' ends of the search, of a table that is not empty if it is Highest.
End(branches, hi) == \/ hi = HighestOr1(branches)
                     \/ hi = Highest(branches) /\ DOMAIN branches # {}

(* The numbers of a table in order, and where a search of them may end.       *)
LEMMA TableFacts ==
    ASSUME NEW branches, Table(branches), NEW hi, End(branches, hi)
    PROVE  /\ Ordered(Keys(branches)) /\ Len(Keys(branches)) = Cardinality(DOMAIN branches)
           /\ \A k \in DOMAIN branches : \E i \in 1 .. Len(Keys(branches)) : Keys(branches)[i] = k
           /\ \A i \in 1 .. Len(Keys(branches)) : Keys(branches)[i] \in DOMAIN branches
           /\ hi \in Nat /\ Len(Keys(branches)) - 1 <= hi /\ hi <= Len(Keys(branches)) + 1
           /\ hi <= Len(Keys(branches)) \/ Keys(branches) = << >>
<1> DEFINE D == DOMAIN branches
           n == Cardinality(D)
           s == Sorted(D)
<1>0. D \in SUBSET Nat /\ IsFiniteSet(D)
  BY DEF Table
<1>1. n \in Nat /\ SortedBy(D, s, n) /\ s \in Seq(D) /\ Len(s) = n
  <2> HIDE DEF D
  <2> QED
    BY <1>0, SortedFacts
<1>2. Keys(branches) = s
  BY DEF Keys
<1>3. n = 0 <=> D = {}
  <2> HIDE DEF D
  <2> QED
    BY <1>0, FS_EmptySet
<1>4. Max({n - 1, 1}) \in {n - 1, 1} /\ Max({n - 1, 1}) >= n - 1 /\ Max({n - 1, 1}) >= 1
  <2> HIDE DEF n
  <2>1. \E x \in {n - 1, 1} : \A y \in {n - 1, 1} : x >= y
    BY <1>1
  <2>2. Max({n - 1, 1}) \in {n - 1, 1} /\ \A y \in {n - 1, 1} : Max({n - 1, 1}) >= y
    BY <2>1 DEF Max
  <2> QED
    BY <2>2
<1>5. hi = Max({n - 1, 1}) \/ (hi = n - 1 /\ D # {})
  BY DEF End, HighestOr1, Highest
<1> HIDE DEF n, s
<1>6. hi \in Nat /\ n - 1 <= hi /\ hi <= n + 1 /\ (hi <= n \/ n = 0)
  <2> HIDE DEF D
  <2> QED
    BY <1>1, <1>3, <1>4, <1>5
<1>7. Ordered(s)
  <2>1. s \in Seq(Nat)
    BY <1>0, <1>1
  <2> QED
    BY <1>1, <2>1 DEF Ordered, SortedBy
<1>8. \A k \in D : \E i \in 1 .. Len(s) : s[i] = k
  BY <1>1 DEF SortedBy
<1>9. \A i \in 1 .. Len(s) : s[i] \in D
  BY <1>1
<1>10. n = 0 => s = << >>
  BY <1>1
<1> QED
  BY <1>1, <1>2, <1>6, <1>7, <1>8, <1>9, <1>10 DEF n

(* What the conditions choose at the end of the search.                       *)
LEMMA ChosenFacts ==
    ASSUME NEW value \in Int, NEW branches, Table(branches), NEW hi, End(branches, hi), NEW default,
           NEW range, Holds(value, Keys(branches), range), Ended(Keys(branches), range)
    PROVE  /\ value \in DOMAIN branches => Chosen(value, branches, default, range) = branches[value]
           /\ value \notin DOMAIN branches /\ default # Nothing =>
                  Chosen(value, branches, default, range) = default
<1> DEFINE keys == Keys(branches)
           mid == Middle(range)
           key == keys[mid + 1]
<1>1. /\ keys \in Seq(Nat) /\ Len(keys) = Cardinality(DOMAIN branches) /\ Len(keys) \in Nat
      /\ \A k \in DOMAIN branches : \E i \in 1 .. Len(keys) : keys[i] = k
      /\ \A i \in 1 .. Len(keys) : keys[i] \in DOMAIN branches
  BY TableFacts DEF Ordered
<1> HIDE DEF keys
<1>2. /\ range.lo \in Nat /\ range.hi \in Nat /\ range.lo <= range.hi
      /\ range.min \in Int /\ range.max \in Int
      /\ range.hi <= Len(keys) \/ keys = << >>
      /\ Within(value, range.min, range.max)
      /\ \A i \in 1 .. Len(keys) : keys[i] = value => range.lo < i /\ i <= range.hi + 1
  BY DEF Holds, RangeType, keys
<1>3. mid \in Nat /\ (range.lo = range.hi => mid = range.lo)
  BY <1>2 DEF Middle
<1>4. mid >= Len(keys) \/ range.lo = range.hi
  BY DEF Ended, keys
<1>5. mid < Len(keys) => key \in DOMAIN branches /\ key \in Nat
  <2> SUFFICES ASSUME mid < Len(keys) PROVE key \in DOMAIN branches /\ key \in Nat
    OBVIOUS
  <2> HIDE DEF mid
  <2>1. mid + 1 \in 1 .. Len(keys)
    BY <1>1, <1>3
  <2> QED
    BY <1>1, <2>1
<1>6. Chosen(value, branches, default, range) =
          IF mid >= Len(keys) THEN default
          ELSE IF default = Nothing \/ <<range.min, range.max>> = <<key, key>> \/ value = key
          THEN branches[key] ELSE default
  BY <1>1 DEF Chosen, keys
<1>7. ASSUME value \in DOMAIN branches
      PROVE  Chosen(value, branches, default, range) = branches[value]
  <2>1. PICK i \in 1 .. Len(keys) : keys[i] = value
    BY <1>1, <1>7
  <2>2. range.lo < i /\ i <= range.hi + 1 /\ i \in Nat /\ i <= Len(keys) /\ Len(keys) # 0
    BY <1>1, <1>2, <2>1
  <2>3. range.hi <= Len(keys)
    BY <1>2, <2>2
  <2>4. mid < Len(keys)
    <3>1. \A l, h, n, j \in Int : l < j /\ h <= n /\ j <= n => (l + h) \div 2 < n
      OBVIOUS
    <3>2. /\ range.lo \in Int /\ range.hi \in Int /\ Len(keys) \in Int /\ i \in Int
          /\ range.lo < i /\ range.hi <= Len(keys) /\ i <= Len(keys)
      BY <1>1, <1>2, <2>2, <2>3
    <3> HIDE DEF key
    <3> QED
      BY <3>1, <3>2 DEF Middle
  <2>5. i = mid + 1
    <3> HIDE DEF mid
    <3> QED
      BY <1>1, <1>2, <1>3, <1>4, <2>2, <2>4
  <2>6. key = value
    BY <2>1, <2>5
  <2>7. ~(mid >= Len(keys))
    <3> HIDE DEF mid
    <3> QED
      BY <1>1, <1>3, <2>4
  <2> HIDE DEF mid, key
  <2> QED
    BY <1>6, <2>6, <2>7
<1>8. ASSUME value \notin DOMAIN branches, default # Nothing
      PROVE  Chosen(value, branches, default, range) = default
  <2>1. CASE mid >= Len(keys)
    BY <1>6, <2>1
  <2>2. CASE ~(mid >= Len(keys))
    <3>1. mid < Len(keys)
      <4> HIDE DEF mid
      <4> QED
        BY <1>1, <1>3, <2>2
    <3>2. key # value /\ key \in Nat
      BY <1>5, <1>8, <3>1
    <3>3. ~(range.min = key /\ range.max = key)
      <4> HIDE DEF key
      <4> QED
        BY <1>2, <3>2 DEF Within, Unlimited
    <3> HIDE DEF mid, key
    <3> QED
      BY <1>6, <1>8, <2>2, <3>2, <3>3
  <2> QED
    BY <2>1, <2>2
<1> QED
  BY <1>7, <1>8

(* A value that has a branch leads to it, and another to the default if there *)
(* is one, whatever limits the search was given that the value is in: the    *)
(* conditions made for a switch, a return address, a function pointer or the  *)
(* blocks of a function run what they should, and the comparisons they leave  *)
(* out are not missed (binary_search_jump_table).                             *)
THEOREM SearchFinds ==
    ASSUME NEW branches, Table(branches), NEW value \in Int, NEW default,
           NEW min \in Int, NEW max \in Int, Within(value, min, max),
           NEW hi, End(branches, hi)
    PROVE  /\ value \in DOMAIN branches =>
                  Search(value, branches, default, min, max, 0, hi) = branches[value]
           /\ value \notin DOMAIN branches /\ default # Nothing =>
                  Search(value, branches, default, min, max, 0, hi) = default
<1> DEFINE keys == Keys(branches)
           first == Between(0, hi, min, max)
           last == Ranges(value, keys, first)[hi - 0]
<1>1. /\ Ordered(keys) /\ Len(keys) \in Nat /\ hi \in Nat /\ Len(keys) - 1 <= hi /\ hi <= Len(keys) + 1
      /\ hi <= Len(keys) \/ keys = << >>
  BY TableFacts DEF Ordered
<1>2. Search(value, branches, default, min, max, 0, hi) = Chosen(value, branches, default, last)
  BY DEF Search, Ranges
<1> HIDE DEF keys
<1>3. Holds(value, keys, first)
  <2>1. first \in RangeType
    BY <1>1 DEF RangeType, Between
  <2>2. \A i \in 1 .. Len(keys) : 0 < i /\ i <= hi + 1
    BY <1>1
  <2> QED
    BY <1>1, <2>1, <2>2 DEF Holds, Between
<1>4. first.hi = hi /\ first.lo = 0
  BY DEF Between
<1> HIDE DEF first
<1>5. Holds(value, keys, last) /\ Ended(keys, last)
  BY <1>1, <1>3, <1>4, SearchEnds
<1> HIDE DEF last
<1>6. Holds(value, Keys(branches), last) /\ Ended(Keys(branches), last)
  BY <1>5 DEF keys
<1> QED
  BY <1>2, <1>6, ChosenFacts

(* Without limits and default, as return addresses and function pointers are  *)
(* looked up.                                                                *)
THEOREM BinarySearchFinds ==
    ASSUME NEW branches, Table(branches), NEW value \in DOMAIN branches, NEW hi, End(branches, hi)
    PROVE  BinarySearch(value, branches, hi) = branches[value]
<1>1. value \in Int /\ Unlimited \in Int /\ Within(value, Unlimited, Unlimited)
  BY DEF Table, Within, Unlimited
<1> QED
  BY <1>1, SearchFinds DEF BinarySearch

-----------------------------------------------------------------------------
(* What a program is made of, and where its instructions are.                *)

(* The parts of a function.                                                   *)
LEMMA FunctionFacts ==
    ASSUME NEW p, IsProgram(p), NEW f \in DOMAIN p
    PROVE  /\ IsFiniteSet(Label(p[f])) /\ p[f].first \in Label(p[f]) /\ Nothing \notin Label(p[f])
           /\ p[f].params \in Seq(ToSet(p[f].params)) /\ f # ""
           /\ {return_address, branch_id} \cap ToSet(p[f].params) = {}
           /\ ReadsAfterSets(p[f])
           /\ \A b \in Label(p[f]) :
                 /\ Size(p[f], b) \in Nat /\ DOMAIN p[f].body[b] = 1 .. Size(p[f], b)
                 /\ p[f].term[b].to \subseteq Label(p[f]) \ {p[f].first}
                 /\ IsTerminator(p[f], p[f].term[b])
<1>1. IsFunction(p, p[f]) /\ f # ""
  BY DEF IsProgram
<1>2. ASSUME NEW b \in Label(p[f])
      PROVE  /\ Size(p[f], b) \in Nat /\ DOMAIN p[f].body[b] = 1 .. Size(p[f], b)
             /\ p[f].term[b].to \subseteq Label(p[f]) \ {p[f].first}
             /\ IsTerminator(p[f], p[f].term[b])
  <2>1. p[f].body[b] \in Seq(ToSet(p[f].body[b])) /\ IsTerminator(p[f], p[f].term[b])
    BY <1>1 DEF IsFunction
  <2>2. Size(p[f], b) \in Nat /\ DOMAIN p[f].body[b] = 1 .. Size(p[f], b)
    BY <2>1 DEF Size
  <2> QED
    BY <2>1, <2>2 DEF IsTerminator
<1> QED
  BY <1>1, <1>2 DEF IsFunction

(* An instruction of a program.                                               *)
LEMMA InstrFacts ==
    ASSUME NEW p, IsProgram(p), NEW f \in DOMAIN p, NEW b \in Label(p[f]), NEW k \in 1 .. Size(p[f], b),
           NEW i, i = p[f].body[b][k]
    PROVE  /\ i \in Instrs(p[f]) /\ i \in AllInstrs(p) /\ i.refs \subseteq Refs(p)
           /\ IsInstruction(p, i)
           /\ i.dst \notin {return_address, branch_id} \cup ToSet(p[f].params)
<1>1. DOMAIN p[f].body[b] = 1 .. Size(p[f], b)
  BY FunctionFacts
<1>2. i \in ToSet(p[f].body[b])
  BY <1>1 DEF ToSet
<1>3. i \in Instrs(p[f]) /\ i \in AllInstrs(p)
  BY <1>2 DEF Instrs, AllInstrs
<1>4. IsFunction(p, p[f])
  BY DEF IsProgram
<1>5. IsInstruction(p, i) /\ i.dst \notin {return_address, branch_id} \cup ToSet(p[f].params)
  BY <1>2, <1>4 DEF IsFunction
<1> QED
  BY <1>3, <1>5 DEF Refs

(* A member of Instrs is at some place.                                       *)
LEMMA InstrPlace ==
    ASSUME NEW p, IsProgram(p), NEW f \in DOMAIN p, NEW i \in Instrs(p[f])
    PROVE  \E b \in Label(p[f]) : \E k \in 1 .. Size(p[f], b) : i = p[f].body[b][k]
<1>1. PICK b \in Label(p[f]) : i \in ToSet(p[f].body[b])
  BY DEF Instrs
<1>2. DOMAIN p[f].body[b] = 1 .. Size(p[f], b)
  BY FunctionFacts
<1> QED
  BY <1>1, <1>2 DEF ToSet

(* The instructions of all functions.                                         *)
LEMMA AllInstrFacts ==
    ASSUME NEW p, IsProgram(p), NEW i \in AllInstrs(p)
    PROVE  /\ IsInstruction(p, i) /\ i.refs \subseteq Refs(p)
           /\ \E f \in DOMAIN p : i \in Instrs(p[f])
<1>1. PICK f \in DOMAIN p : i \in Instrs(p[f])
  BY DEF AllInstrs
<1>2. PICK b \in Label(p[f]) : \E k \in 1 .. Size(p[f], b) : i = p[f].body[b][k]
  BY <1>1, InstrPlace
<1>3. PICK k \in 1 .. Size(p[f], b) : i = p[f].body[b][k]
  BY <1>2
<1> QED
  BY <1>1, <1>3, InstrFacts

(* A program has finitely many instructions.                                  *)
LEMMA FiniteProgram ==
    ASSUME NEW p, IsProgram(p)
    PROVE  /\ IsFiniteSet(DOMAIN p) /\ Refs(p) \subseteq DOMAIN p \cap DOMAIN Pointer
           /\ \A f \in DOMAIN p : IsFiniteSet(Instrs(p[f]))
           /\ IsFiniteSet(AllInstrs(p))
<1>0. IsFiniteSet(DOMAIN p)
  BY DEF IsProgram
<1>1. ASSUME NEW f \in DOMAIN p PROVE IsFiniteSet(Instrs(p[f]))
  <2> DEFINE T == {ToSet(p[f].body[b]) : b \in Label(p[f])}
             g == [b \in Label(p[f]) |-> ToSet(p[f].body[b])]
  <2>1. T = {g[b] : b \in Label(p[f])}
    OBVIOUS
  <2>2. IsFiniteSet(Label(p[f]))
    BY FunctionFacts
  <2> HIDE DEF g
  <2>3. IsFiniteSet(T)
    <3> HIDE DEF T
    <3> QED
      BY <2>1, <2>2, Images
  <2>4. ASSUME NEW b \in Label(p[f]) PROVE IsFiniteSet(ToSet(p[f].body[b]))
    <3> DEFINE s == p[f].body[b]
               D == 1 .. Size(p[f], b)
               U == ToSet(s)
    <3>1. Size(p[f], b) \in Nat /\ DOMAIN s = D
      BY FunctionFacts
    <3>2. IsFiniteSet(D)
      BY <3>1, FS_Interval
    <3>3. U = {s[k] : k \in D}
      BY <3>1 DEF ToSet
    <3> HIDE DEF U, D, s
    <3>4. IsFiniteSet(U)
      BY <3>2, <3>3, Images
    <3> QED
      BY <3>4 DEF U, s
  <2>5. IsFiniteSet(UNION T)
    BY <2>3, <2>4, FS_UNION
  <2> QED
    BY <2>5 DEF Instrs
<1>2. IsFiniteSet(AllInstrs(p))
  <2> DEFINE T == {Instrs(p[f]) : f \in DOMAIN p}
             g == [f \in DOMAIN p |-> Instrs(p[f])]
  <2>1. T = {g[f] : f \in DOMAIN p}
    OBVIOUS
  <2> HIDE DEF g
  <2>3. IsFiniteSet(T)
    <3> HIDE DEF T
    <3> QED
      BY <2>1, <1>0, Images
  <2>5. IsFiniteSet(UNION T)
    BY <2>3, <1>1, FS_UNION
  <2> QED
    BY <2>5 DEF AllInstrs
<1>3. \A i \in AllInstrs(p) : i.refs \subseteq DOMAIN p \cap DOMAIN Pointer
  BY AllInstrFacts DEF IsInstruction
<1> QED
  BY <1>0, <1>1, <1>2, <1>3 DEF Refs

\* The signatures of a program, as they are listed.
SigsOK(p, sigs) ==
    /\ Len(sigs) \in Nat /\ DOMAIN sigs = 1 .. Len(sigs)
    /\ \A s \in DOMAIN sigs :
          /\ sigs[s].targets \in Seq(DOMAIN p) /\ Len(sigs[s].targets) \in Nat
          /\ \A n \in 1 .. Len(sigs[s].targets) : sigs[s].targets[n] \in Sharing(p, sigs[s].params)
          /\ \A f \in Sharing(p, sigs[s].params) : \E n \in 1 .. Len(sigs[s].targets) : sigs[s].targets[n] = f
          /\ \A n, m \in 1 .. Len(sigs[s].targets) : sigs[s].targets[n] = sigs[s].targets[m] => n = m
    /\ \A s, t \in DOMAIN sigs : sigs[s].params = sigs[t].params => s = t
    /\ \A f \in Refs(p) : \E s \in DOMAIN sigs : sigs[s].params = Len(p[f].params)
    /\ \A i \in PointerCalls(p) : \E s \in DOMAIN sigs : sigs[s].params = Len(i.args)

(* collect_fn_ptr_sigs finds every signature once, with its functions.        *)
LEMMA SigFacts ==
    ASSUME NEW p, IsProgram(p)
    PROVE  SigsOK(p, FnPtrSigs(p))
<1> DEFINE A == {Len(p[f].params) : f \in Refs(p)}
           B == {Len(i.args) : i \in PointerCalls(p)}
           S == A \cup B
           ss == SetToSeq(S)
           sigs == FnPtrSigs(p)
<1>1. IsFiniteSet(S)
  <2>1. IsFiniteSet(A)
    <3> DEFINE g == [f \in Refs(p) |-> Len(p[f].params)]
    <3>1. IsFiniteSet(Refs(p))
      <4>1. Refs(p) \in SUBSET DOMAIN p /\ IsFiniteSet(DOMAIN p)
        BY FiniteProgram
      <4> QED
        BY <4>1, FS_Subset
    <3>2. A = {g[f] : f \in Refs(p)}
      OBVIOUS
    <3> HIDE DEF g, A
    <3> QED
      BY <3>1, <3>2, Images
  <2>2. IsFiniteSet(B)
    <3> DEFINE g == [i \in PointerCalls(p) |-> Len(i.args)]
    <3>1. IsFiniteSet(PointerCalls(p))
      <4>1. PointerCalls(p) \in SUBSET AllInstrs(p) /\ IsFiniteSet(AllInstrs(p))
        BY FiniteProgram DEF PointerCalls
      <4> QED
        BY <4>1, FS_Subset
    <3>2. B = {g[i] : i \in PointerCalls(p)}
      OBVIOUS
    <3> HIDE DEF g, B
    <3> QED
      BY <3>1, <3>2, Images
  <2> HIDE DEF A, B
  <2> QED
    BY <2>1, <2>2, FS_Union
<1> HIDE DEF S
<1>2. /\ ss \in Seq(S) /\ Len(ss) \in Nat
      /\ \A x \in S : \E i \in 1 .. Len(ss) : ss[i] = x
      /\ \A i, j \in 1 .. Len(ss) : ss[i] = ss[j] => i = j
  BY <1>1, SetToSeqFacts
<1>3. sigs = [s \in DOMAIN ss |-> [params |-> ss[s], targets |-> SetToSeq(Sharing(p, ss[s]))]]
  BY DEF FnPtrSigs, S
<1> HIDE DEF ss, sigs
<1>4. DOMAIN ss = 1 .. Len(ss)
  BY <1>2
<1>5. Len(sigs) = Len(ss) /\ DOMAIN sigs = 1 .. Len(sigs)
  BY <1>2, <1>3, <1>4
<1>6. \A s \in DOMAIN sigs : sigs[s].params = ss[s] /\ sigs[s].targets = SetToSeq(Sharing(p, sigs[s].params))
  BY <1>3
<1>7. ASSUME NEW s \in DOMAIN sigs
      PROVE  /\ sigs[s].targets \in Seq(DOMAIN p) /\ Len(sigs[s].targets) \in Nat
             /\ \A n \in 1 .. Len(sigs[s].targets) : sigs[s].targets[n] \in Sharing(p, sigs[s].params)
             /\ \A f \in Sharing(p, sigs[s].params) : \E n \in 1 .. Len(sigs[s].targets) : sigs[s].targets[n] = f
             /\ \A n, m \in 1 .. Len(sigs[s].targets) : sigs[s].targets[n] = sigs[s].targets[m] => n = m
  <2> DEFINE T == Sharing(p, sigs[s].params)
             t == SetToSeq(T)
  <2>1. T \in SUBSET DOMAIN p /\ IsFiniteSet(DOMAIN p)
    BY FiniteProgram DEF Sharing
  <2>2. IsFiniteSet(T)
    BY <2>1, FS_Subset
  <2> HIDE DEF T
  <2>3. /\ t \in Seq(T) /\ Len(t) \in Nat
        /\ \A x \in T : \E i \in 1 .. Len(t) : t[i] = x
        /\ \A i, j \in 1 .. Len(t) : t[i] = t[j] => i = j
    BY <2>2, SetToSeqFacts
  <2>4. sigs[s].targets = t
    BY <1>6 DEF T
  <2> HIDE DEF t
  <2>5. t \in Seq(DOMAIN p)
    BY <2>1, <2>3
  <2>6. \A n \in 1 .. Len(t) : t[n] \in T
    BY <2>3
  <2> QED
    BY <2>3, <2>4, <2>5, <2>6 DEF T
<1>8. \A s, t \in DOMAIN sigs : sigs[s].params = sigs[t].params => s = t
  BY <1>2, <1>5, <1>6
<1>9. \A x \in S : \E s \in DOMAIN sigs : sigs[s].params = x
  BY <1>2, <1>5, <1>6
<1>10. /\ \A f \in Refs(p) : Len(p[f].params) \in S
       /\ \A i \in PointerCalls(p) : Len(i.args) \in S
  BY DEF S
<1>11. /\ \A f \in Refs(p) : \E s \in DOMAIN sigs : sigs[s].params = Len(p[f].params)
       /\ \A i \in PointerCalls(p) : \E s \in DOMAIN sigs : sigs[s].params = Len(i.args)
  BY <1>9, <1>10
<1>12. Len(sigs) \in Nat
  BY <1>2, <1>5
<1>13. SigsOK(p, sigs)
  BY <1>5, <1>7, <1>8, <1>11, <1>12 DEF SigsOK
<1> QED
  BY <1>13 DEF sigs

(* What a call can call has as many parameters as the call has arguments; and *)
(* a pointer that means something is among it.                                *)
LEMMA CouldCallFacts ==
    ASSUME NEW p, IsProgram(p), NEW sigs, SigsOK(p, sigs), NEW i \in AllInstrs(p), IsCall(i)
    PROVE  /\ Len(CouldCall(sigs, i)) \in Nat /\ CouldCall(sigs, i) \in Seq(DOMAIN p)
           /\ \A g \in ToSet(CouldCall(sigs, i)) : g \in DOMAIN p /\ Len(p[g].params) = Len(i.args)
           /\ ~Dispatched(sigs, i) => /\ CouldCall(sigs, i) = <<CouldCall(sigs, i)[1]>>
                                      /\ ToSet(CouldCall(sigs, i)) = {CouldCall(sigs, i)[1]}
           /\ ~ByPointer(i) => ~Dispatched(sigs, i) /\ CouldCall(sigs, i) = <<i.to>>
           /\ ByPointer(i) => /\ SignatureOf(sigs, i) \in DOMAIN sigs
                              /\ CouldCall(sigs, i) = sigs[SignatureOf(sigs, i)].targets
                              /\ \A g \in Sharing(p, Len(i.args)) : g \in ToSet(CouldCall(sigs, i))
           /\ i.args \in Seq(i.uses) /\ (ByPointer(i) => i.ptr \in i.uses)
<1>0. IsInstruction(p, i)
  BY AllInstrFacts
<1>1. i.args \in Seq(i.uses) /\ IF ByPointer(i) THEN i.ptr \in i.uses
                                ELSE i.to \in DOMAIN p /\ Len(i.args) = Len(p[i.to].params)
  BY <1>0 DEF IsInstruction, IsCall
<1>2. CASE ~ByPointer(i)
  <2>1. CouldCall(sigs, i) = <<i.to>>
    BY <1>2 DEF CouldCall
  <2>2. i.to \in DOMAIN p /\ Len(i.args) = Len(p[i.to].params)
    BY <1>1, <1>2
  <2>3. ToSet(<<i.to>>) = {i.to}
    BY DEF ToSet
  <2> QED
    BY <1>1, <1>2, <2>1, <2>2, <2>3 DEF Dispatched
<1>3. CASE ByPointer(i)
  <2> DEFINE s == SignatureOf(sigs, i)
             c == sigs[s].targets
             n == Len(i.args)
  <2>0. i \in PointerCalls(p)
    BY <1>3 DEF PointerCalls
  <2>1. s \in DOMAIN sigs /\ sigs[s].params = n
    BY <2>0 DEF SigsOK, SignatureOf
  <2>2. CouldCall(sigs, i) = c
    BY <1>3 DEF CouldCall
  <2>3. /\ c \in Seq(DOMAIN p) /\ Len(c) \in Nat
        /\ \A j \in 1 .. Len(c) : c[j] \in Sharing(p, n)
        /\ \A f \in Sharing(p, n) : \E j \in 1 .. Len(c) : c[j] = f
    BY <2>1 DEF SigsOK
  <2> HIDE DEF c, s, n
  <2>4. DOMAIN c = 1 .. Len(c)
    BY <2>3
  <2>5. \A g \in ToSet(c) : g \in DOMAIN p /\ g \in Sharing(p, n)
    BY <2>3, <2>4 DEF ToSet
  <2>6. \A g \in Sharing(p, n) : g \in ToSet(c)
    BY <2>3, <2>4 DEF ToSet
  <2>7. \A g \in Sharing(p, n) : Len(p[g].params) = n
    BY DEF Sharing
  <2>8. Len(c) = 1 => c = <<c[1]>> /\ ToSet(c) = {c[1]}
    <3> SUFFICES ASSUME Len(c) = 1 PROVE c = <<c[1]>> /\ ToSet(c) = {c[1]}
      OBVIOUS
    <3>1. c = <<c[1]>>
      BY <2>3
    <3>2. ToSet(c) = {c[1]}
      BY <2>4 DEF ToSet
    <3> QED
      BY <3>1, <3>2
  <2>9. Dispatched(sigs, i) <=> Len(c) # 1
    BY <2>2 DEF Dispatched
  <2>10. s = SignatureOf(sigs, i) /\ c = sigs[s].targets /\ n = Len(i.args)
    BY DEF s, c, n
  <2> QED
    BY <1>1, <1>3, <2>1, <2>2, <2>3, <2>5, <2>6, <2>7, <2>8, <2>9, <2>10
<1> QED
  BY <1>2, <1>3

(* The call graph.                                                            *)
LEMMA CallGraphFacts ==
    ASSUME NEW p, IsProgram(p), NEW sigs, SigsOK(p, sigs)
    PROVE  /\ CallGraph(p, sigs) \in [DOMAIN p -> SUBSET DOMAIN p]
           /\ \A f \in DOMAIN p : \A i \in Instrs(p[f]) : \A g \in ToSet(CouldCall(sigs, i)) :
                 IsCall(i) => g \in CallGraph(p, sigs)[f] /\ g \in Reached(CallGraph(p, sigs), f)
<1> DEFINE G == CallGraph(p, sigs)
<1>1. ASSUME NEW f \in DOMAIN p PROVE Callees(sigs, p[f]) \subseteq DOMAIN p
  <2> SUFFICES ASSUME NEW i \in Instrs(p[f]), IsCall(i), NEW g \in ToSet(CouldCall(sigs, i)) PROVE g \in DOMAIN p
    BY DEF Callees
  <2>1. i \in AllInstrs(p)
    BY DEF AllInstrs
  <2> QED
    BY <2>1, CouldCallFacts
<1>2. G \in [DOMAIN p -> SUBSET DOMAIN p]
  BY <1>1 DEF CallGraph
<1>3. \A f \in DOMAIN p : \A i \in Instrs(p[f]) : \A g \in ToSet(CouldCall(sigs, i)) : IsCall(i) => g \in G[f]
  BY DEF CallGraph, Callees
<1> HIDE DEF G
<1>4. \A f \in DOMAIN p : G[f] \subseteq Reached(G, f)
  BY <1>2, ReachedFacts
<1>5. \A f \in DOMAIN p : \A i \in Instrs(p[f]) : \A g \in ToSet(CouldCall(sigs, i)) :
          IsCall(i) => g \in G[f] /\ g \in Reached(G, f)
  BY <1>3, <1>4
<1> QED
  BY <1>2, <1>5 DEF G

(* The places of some instructions are listed, each with its function, block  *)
(* and number.                                                                *)
SitesOK(p, instrs, sites) ==
    /\ Len(sites) \in Nat /\ DOMAIN sites = 1 .. Len(sites)
    /\ \A f \in DOMAIN p : \A b \in Label(p[f]) : \A k \in 1 .. Size(p[f], b) :
          p[f].body[b][k] \in instrs => \E n \in 1 .. Len(sites) : sites[n] = Site(f, b, k)
    /\ \A n \in 1 .. Len(sites) : \E f \in DOMAIN p : \E b \in Label(p[f]) : \E k \in 1 .. Size(p[f], b) :
          p[f].body[b][k] \in instrs /\ sites[n] = Site(f, b, k)

LEMMA SitesFacts ==
    ASSUME NEW p, IsProgram(p), NEW instrs
    PROVE  SitesOK(p, instrs, SitesOf(p, instrs))
<1> DEFINE InBlock(f, b) == {Site(f, b, k) : k \in {k \in DOMAIN p[f].body[b] : p[f].body[b][k] \in instrs}}
           In(f) == UNION {InBlock(f, b) : b \in Label(p[f])}
           S == UNION {In(f) : f \in DOMAIN p}
           sites == SetToSeq(S)
<1>1. ASSUME NEW f \in DOMAIN p, NEW b \in Label(p[f]) PROVE IsFiniteSet(InBlock(f, b))
  <2> DEFINE D == 1 .. Size(p[f], b)
             K == {k \in DOMAIN p[f].body[b] : p[f].body[b][k] \in instrs}
             g == [k \in K |-> Site(f, b, k)]
             T == InBlock(f, b)
  <2>1. Size(p[f], b) \in Nat /\ DOMAIN p[f].body[b] = D
    BY FunctionFacts
  <2>2. IsFiniteSet(D)
    BY <2>1, FS_Interval
  <2>3. K \in SUBSET D
    BY <2>1
  <2>4. T = {g[k] : k \in K}
    OBVIOUS
  <2> HIDE DEF K, g, T, D
  <2>5. IsFiniteSet(K)
    BY <2>2, <2>3, FS_Subset
  <2>6. IsFiniteSet(T)
    BY <2>4, <2>5, Images
  <2> QED
    BY <2>6 DEF T
<1>2. ASSUME NEW f \in DOMAIN p PROVE IsFiniteSet(In(f))
  <2> DEFINE T == {InBlock(f, b) : b \in Label(p[f])}
             g == [b \in Label(p[f]) |-> InBlock(f, b)]
  <2>1. T = {g[b] : b \in Label(p[f])}
    OBVIOUS
  <2>2. IsFiniteSet(Label(p[f]))
    BY FunctionFacts
  <2>3. \A t \in T : IsFiniteSet(t)
    BY <1>1
  <2>4. In(f) = UNION T
    OBVIOUS
  <2> HIDE DEF g, T, In, InBlock
  <2>5. IsFiniteSet(T)
    BY <2>1, <2>2, Images
  <2>6. IsFiniteSet(UNION T)
    BY <2>3, <2>5, FS_UNION
  <2> QED
    BY <2>4, <2>6
<1>3. IsFiniteSet(S)
  <2> DEFINE T == {In(f) : f \in DOMAIN p}
             g == [f \in DOMAIN p |-> In(f)]
  <2>1. T = {g[f] : f \in DOMAIN p}
    OBVIOUS
  <2>2. IsFiniteSet(DOMAIN p)
    BY FiniteProgram
  <2>3. \A t \in T : IsFiniteSet(t)
    BY <1>2
  <2>4. S = UNION T
    OBVIOUS
  <2> HIDE DEF g, T, In, InBlock, S
  <2>5. IsFiniteSet(T)
    BY <2>1, <2>2, Images
  <2>6. IsFiniteSet(UNION T)
    BY <2>3, <2>5, FS_UNION
  <2> QED
    BY <2>4, <2>6
<1>4. sites = SitesOf(p, instrs)
  BY DEF SitesOf
<1>5. ASSUME NEW f \in DOMAIN p, NEW b \in Label(p[f]), NEW k \in 1 .. Size(p[f], b), p[f].body[b][k] \in instrs
      PROVE  Site(f, b, k) \in S
  <2>1. DOMAIN p[f].body[b] = 1 .. Size(p[f], b)
    BY FunctionFacts
  <2>2. Site(f, b, k) \in InBlock(f, b)
    BY <1>5, <2>1
  <2> HIDE DEF InBlock
  <2> QED
    BY <2>2
<1>6. ASSUME NEW x \in S
      PROVE  \E f \in DOMAIN p : \E b \in Label(p[f]) : \E k \in 1 .. Size(p[f], b) :
                 p[f].body[b][k] \in instrs /\ x = Site(f, b, k)
  <2>1. PICK f \in DOMAIN p : x \in In(f)
    OBVIOUS
  <2>2. PICK b \in Label(p[f]) : x \in InBlock(f, b)
    BY <2>1
  <2>3. DOMAIN p[f].body[b] = 1 .. Size(p[f], b)
    BY FunctionFacts
  <2> QED
    BY <2>2, <2>3
<1> HIDE DEF S
<1>7. /\ sites \in Seq(S) /\ Len(sites) \in Nat
      /\ \A x \in S : \E i \in 1 .. Len(sites) : sites[i] = x
  BY <1>3, SetToSeqFacts
<1> HIDE DEF sites
<1>8. DOMAIN sites = 1 .. Len(sites) /\ \A n \in 1 .. Len(sites) : sites[n] \in S
  BY <1>7
<1>9. SitesOK(p, instrs, sites)
  BY <1>5, <1>6, <1>7, <1>8 DEF SitesOK
<1> QED
  BY <1>4, <1>9

-----------------------------------------------------------------------------
(* The variables a block uses: the analysis stops, and it is the liveness of Live. *)

(* Sets that grow until they no longer do have stopped growing when there     *)
(* have been as many of them as there are members.                            *)
LEMMA GrowthStops ==
    ASSUME NEW N, IsFiniteSet(N), NEW D \in [Nat -> SUBSET N],
           \A n \in Nat : D[n] \subseteq D[n + 1],
           \A n \in Nat : D[n] = D[n + 1] => D[n + 1] = D[n + 2]
    PROVE  Cardinality(N) \in Nat /\ D[Cardinality(N)] = D[Cardinality(N) + 1]
<1> DEFINE T == {n \in Nat : D[n] = D[n + 1] \/ n <= Cardinality(D[n])}
<1>1. \A n \in Nat : D[n] \in SUBSET N /\ IsFiniteSet(D[n]) /\ Cardinality(D[n]) \in Nat
  BY FS_Subset, FS_CardinalityType
<1>2. 0 \in T
  BY <1>1
<1>3. ASSUME NEW n \in Nat, n \in T PROVE n + 1 \in T
  <2>1. n + 1 \in Nat /\ (n + 1) + 1 = n + 2
    OBVIOUS
  <2>2. CASE D[n] = D[n + 1]
    BY <2>1, <2>2
  <2>3. CASE D[n] # D[n + 1]
    <3>1. n <= Cardinality(D[n])
      BY <1>3, <2>3
    <3>2. D[n] \in SUBSET D[n + 1] /\ IsFiniteSet(D[n + 1])
      BY <1>1, <2>1
    <3>3. Cardinality(D[n]) <= Cardinality(D[n + 1]) /\ Cardinality(D[n]) # Cardinality(D[n + 1])
      BY <2>3, <3>2, FS_Subset
    <3>4. Cardinality(D[n]) \in Nat /\ Cardinality(D[n + 1]) \in Nat
      BY <1>1, <2>1
    <3>5. n + 1 <= Cardinality(D[n + 1])
      BY <3>1, <3>3, <3>4
    <3> QED
      BY <2>1, <3>5
  <2> QED
    BY <2>2, <2>3
<1> HIDE DEF T
<1>4. \A n \in Nat : n \in T
  BY <1>2, <1>3, Induction
<1> DEFINE m == Cardinality(N)
<1>5. m \in Nat
  BY FS_CardinalityType
<1>6. CASE D[m] = D[m + 1]
  BY <1>5, <1>6
<1>7. CASE m <= Cardinality(D[m])
  <2>1. D[m] \in SUBSET N /\ Cardinality(D[m]) <= Cardinality(N) /\ Cardinality(D[m]) \in Nat
    BY <1>1, <1>5, FS_Subset
  <2>2. Cardinality(D[m]) = Cardinality(N)
    BY <1>5, <1>7, <2>1
  <2>3. D[m] = N
    BY <2>1, <2>2, FS_Subset
  <2>4. D[m + 1] \in SUBSET N /\ D[m] \subseteq D[m + 1]
    BY <1>5
  <2> QED
    BY <1>5, <2>3, <2>4
<1>8. D[m] = D[m + 1] \/ m <= Cardinality(D[m])
  BY <1>4, <1>5 DEF T
<1> QED
  BY <1>6, <1>7, <1>8

\* The analysis after each pass over the blocks.
Passes(code) ==
    CHOOSE d : d = [n \in Nat |-> IF n = 0 THEN [b \in Label(code) |-> DirectDepends(code, b)] ELSE DependsStep(code, d[n - 1])]

\* What a block reads: the variables DirectDepends and so the passes are about.
Reads(code) == UNION {DirectDepends(code, b) : b \in Label(code)}

(* The passes, one after the other.                                           *)
LEMMA PassesFacts ==
    ASSUME NEW code, \A b \in Label(code) : code.term[b].to \subseteq Label(code)
    PROVE  /\ Depends(code) = Passes(code)[Cardinality(Label(code))]
           /\ Passes(code)[0] = [b \in Label(code) |-> DirectDepends(code, b)]
           /\ \A n \in Nat : Passes(code)[n + 1] = DependsStep(code, Passes(code)[n])
           /\ \A n \in Nat : Passes(code)[n] \in [Label(code) -> SUBSET Reads(code)]
<1> DEFINE V == [Label(code) -> SUBSET Reads(code)]
           first == [b \in Label(code) |-> DirectDepends(code, b)]
           step == [n \in Nat |-> [d \in V |-> DependsStep(code, d)]]
           R == Passes(code)
<1>1. first \in V
  BY DEF Reads
<1>2. ASSUME NEW d \in V PROVE DependsStep(code, d) \in V
  <2>1. ASSUME NEW b \in Label(code)
        PROVE  DirectDepends(code, b) \cup (Following(code, d, b) \ Results(code, b, 1, Size(code, b)))
                   \in SUBSET Reads(code)
    <3>1. \A c \in code.term[b].to : d[c] \subseteq Reads(code)
      OBVIOUS
    <3>2. DirectDepends(code, b) \subseteq Reads(code)
      BY DEF Reads
    <3>3. Following(code, d, b) \subseteq Reads(code)
      BY <3>1 DEF Following
    <3> QED
      BY <3>2, <3>3
  <2> QED
    BY <2>1 DEF DependsStep
<1>3. step \in [Nat -> [V -> V]]
  BY <1>2
<1>4. \A n \in Nat, d \in V : step[n][d] = DependsStep(code, d)
  OBVIOUS
<1> HIDE DEF step, first, V
<1>5. PICK f \in [Nat -> V] : f[0] = first /\ \A n \in Nat : f[n + 1] = step[n][f[n]]
  <2>1. Recursive(V, first, step)
    BY <1>1, <1>3, RecursionExists
  <2> QED
    BY <2>1 DEF Recursive
<1>6. \A n \in Nat : f[n + 1] = DependsStep(code, f[n])
  BY <1>4, <1>5
<1>7. f = [n \in Nat |-> IF n = 0 THEN first ELSE DependsStep(code, f[n - 1])]
  <2>1. ASSUME NEW n \in Nat, n # 0 PROVE f[n] = DependsStep(code, f[n - 1])
    <3>1. n - 1 \in Nat /\ (n - 1) + 1 = n
      BY <2>1
    <3> QED
      BY <1>6, <3>1
  <2> QED
    BY <2>1, <1>5
<1>8. R = [n \in Nat |-> IF n = 0 THEN first ELSE DependsStep(code, R[n - 1])]
  BY <1>7 DEF Passes, first
<1>9. Depends(code) = R[Cardinality(Label(code))]
  BY DEF Depends, Passes
<1> HIDE DEF R
<1>10. R[0] = first /\ \A n \in Nat : R[n + 1] = DependsStep(code, R[n])
  BY <1>8
<1> DEFINE T == {n \in Nat : R[n] \in V}
<1>11. 0 \in T
  BY <1>1, <1>10
<1>12. ASSUME NEW n \in Nat, n \in T PROVE n + 1 \in T
  BY <1>2, <1>10, <1>12
<1> HIDE DEF T
<1>13. \A n \in Nat : n \in T
  BY <1>11, <1>12, Induction
<1> QED
  BY <1>9, <1>10, <1>13 DEF T, V, R, first

(* After them a further one changes nothing.                                  *)
LEMMA DependsSettles ==
    ASSUME NEW code, IsFiniteSet(Label(code)), \A b \in Label(code) : code.term[b].to \subseteq Label(code),
           NEW b \in Label(code)
    PROVE  DependsStep(code, Depends(code))[b] \subseteq Depends(code)[b]
<1> DEFINE R == Passes(code)
           N == Label(code)
           m == Cardinality(N)
<1>1. /\ Depends(code) = R[m]
      /\ R[0] = [c \in N |-> DirectDepends(code, c)]
      /\ \A n \in Nat : R[n + 1] = DependsStep(code, R[n])
  BY PassesFacts
<1> HIDE DEF R
<1> SUFFICES ASSUME NEW x \in DependsStep(code, Depends(code))[b] PROVE x \in Depends(code)[b]
  OBVIOUS
<1> DEFINE D == [n \in Nat |-> {c \in N : x \in R[n][c]}]
           Start == {c \in N : x \in DirectDepends(code, c)}
           Pred(S) == {c \in N : x \notin Results(code, c, 1, Size(code, c)) /\ \E e \in code.term[c].to : e \in S}
<1>2. D[0] = Start
  BY <1>1
<1>3. ASSUME NEW n \in Nat PROVE D[n + 1] = Start \cup Pred(D[n])
  <2>1. \A c \in N : R[n + 1][c] = DirectDepends(code, c) \cup (Following(code, R[n], c) \ Results(code, c, 1, Size(code, c)))
    BY <1>1 DEF DependsStep
  <2>2. \A c \in N : x \in R[n + 1][c] <=> (x \in DirectDepends(code, c) \/ (x \notin Results(code, c, 1, Size(code, c))
                                                             /\ \E e \in code.term[c].to : x \in R[n][e]))
    <3>1. \A c \in N : x \in Following(code, R[n], c) <=> \E e \in code.term[c].to : x \in R[n][e]
      BY DEF Following
    <3> QED
      BY <2>1, <3>1
  <2>3. \A c \in N : \A e \in code.term[c].to : e \in N
    OBVIOUS
  <2>4. \A c \in N : c \in D[n + 1] <=> c \in Start \cup Pred(D[n])
    BY <2>2, <2>3
  <2>5. D[n + 1] \subseteq N /\ Start \cup Pred(D[n]) \subseteq N
    OBVIOUS
  <2> HIDE DEF D, Start, Pred
  <2> QED
    BY <2>4, <2>5
<1>4. \A n \in Nat : D[n + 2] = Start \cup Pred(D[n + 1])
  <2>1. \A n \in Nat : n + 1 \in Nat /\ (n + 1) + 1 = n + 2
    OBVIOUS
  <2> HIDE DEF D, Start, Pred
  <2> QED
    BY <1>3, <2>1
<1>5. D \in [Nat -> SUBSET N]
  OBVIOUS
<1>6. \A S, Q : S \subseteq Q => Pred(S) \subseteq Pred(Q)
  OBVIOUS
<1> DEFINE T == {n \in Nat : D[n] \subseteq D[n + 1]}
<1>7. 0 \in T
  <2> HIDE DEF D, Start, Pred
  <2>1. D[0 + 1] = Start \cup Pred(D[0])
    BY <1>3
  <2> QED
    BY <1>2, <2>1
<1>8. ASSUME NEW n \in Nat, n \in T PROVE n + 1 \in T
  <2>1. D[n] \subseteq D[n + 1]
    BY <1>8
  <2> HIDE DEF D, Start
  <2>2. Pred(D[n]) \subseteq Pred(D[n + 1])
    BY <1>6, <2>1
  <2> HIDE DEF Pred
  <2>3. D[n + 1] \subseteq D[n + 2]
    BY <1>3, <1>4, <2>2
  <2> QED
    BY <2>3
<1> HIDE DEF T
<1>9. \A n \in Nat : n \in T
  BY <1>7, <1>8, Induction
<1>10. \A n \in Nat : D[n] \subseteq D[n + 1]
  BY <1>9 DEF T
<1>11. \A n \in Nat : D[n] = D[n + 1] => D[n + 1] = D[n + 2]
  <2> HIDE DEF D, Start, Pred
  <2> QED
    BY <1>3, <1>4
<1>12. m \in Nat /\ D[m] = D[m + 1]
  <2> HIDE DEF D, Start, Pred
  <2> QED
    BY <1>5, <1>10, <1>11, GrowthStops
<1>13. DependsStep(code, Depends(code)) = R[m + 1]
  BY <1>1, <1>12
<1>14. m + 1 \in Nat /\ b \in D[m + 1]
  BY <1>12, <1>13
<1>15. b \in D[m]
  BY <1>12, <1>14
<1> QED
  BY <1>1, <1>12, <1>15

(* What the first block depends on are parameters: by ReadsAfterSets all else *)
(* has been set when it is read.                                              *)
LEMMA FirstDepends ==
    ASSUME NEW p, IsProgram(p), NEW f \in DOMAIN p
    PROVE  Depends(p[f])[p[f].first] \subseteq ToSet(p[f].params)
<1> DEFINE code == p[f]
           R == Passes(code)
           N == Label(code)
<1>0. /\ IsFiniteSet(N) /\ code.first \in N /\ ReadsAfterSets(code)
      /\ \A b \in N : code.term[b].to \subseteq N
  BY FunctionFacts
<1> HIDE DEF code
<1>1. /\ Depends(code) = R[Cardinality(N)]
      /\ R[0] = [c \in N |-> DirectDepends(code, c)]
      /\ \A n \in Nat : R[n + 1] = DependsStep(code, R[n])
  BY <1>0, PassesFacts
<1>2. Cardinality(N) \in Nat
  BY <1>0, FS_CardinalityType
<1> HIDE DEF R
<1> SUFFICES ASSUME NEW x \in Depends(code)[code.first], x \notin ToSet(code.params) PROVE FALSE
  BY DEF code
<1> DEFINE g == Without(code, x)
           In == {code.first} \cup Reached(g, code.first)
<1>3. g \in [N -> SUBSET N]
  BY <1>0 DEF Without
<1>4. \A b \in In : b \in N /\ g[b] \subseteq In
  <2> HIDE DEF g
  <2>1. Reached(g, code.first) \subseteq N /\ g[code.first] \subseteq Reached(g, code.first) /\ Closed(g, Reached(g, code.first))
    BY <1>0, <1>3, ReachedFacts
  <2> QED
    BY <1>0, <2>1 DEF Closed
<1>5. \A b \in In : x \notin DirectDepends(code, b)
  BY <1>0, <1>4 DEF ReadsAfterSets
<1>6. \A b \in In : x \notin Results(code, b, 1, Size(code, b)) => code.term[b].to \subseteq In
  <2>1. \A b \in N : x \notin Results(code, b, 1, Size(code, b)) => g[b] = code.term[b].to
    BY DEF Without
  <2> HIDE DEF In, g
  <2> QED
    BY <1>4, <2>1
<1> HIDE DEF In, g
<1> DEFINE T == {n \in Nat : \A b \in In : x \notin R[n][b]}
<1>7. 0 \in T
  BY <1>1, <1>4, <1>5
<1>8. ASSUME NEW n \in Nat, n \in T PROVE n + 1 \in T
  <2> SUFFICES ASSUME NEW b \in In PROVE x \notin R[n + 1][b]
    OBVIOUS
  <2>1. R[n + 1][b] = DirectDepends(code, b) \cup (Following(code, R[n], b) \ Results(code, b, 1, Size(code, b)))
    BY <1>1, <1>4 DEF DependsStep
  <2>2. \A e \in In : x \notin R[n][e]
    BY <1>8
  <2>3. x \notin DirectDepends(code, b)
    BY <1>5
  <2>4. x \in Results(code, b, 1, Size(code, b)) \/ \A e \in code.term[b].to : x \notin R[n][e]
    BY <1>6, <2>2
  <2>5. (\A e \in code.term[b].to : x \notin R[n][e]) => x \notin Following(code, R[n], b)
    BY DEF Following
  <2> QED
    BY <2>1, <2>3, <2>4, <2>5
<1> HIDE DEF T
<1>9. \A n \in Nat : n \in T
  BY <1>7, <1>8, Induction
<1>10. code.first \in In
  BY DEF In
<1> QED
  BY <1>1, <1>2, <1>9, <1>10 DEF T

(* Liveness at the instructions of a block.                                   *)
LEMMA LiveFacts ==
    ASSUME NEW p, IsProgram(p), NEW f \in DOMAIN p, NEW b \in Label(p[f]), NEW k \in 1 .. Size(p[f], b) + 1
    PROVE  /\ Uses(p[f], b, k) \subseteq Live(p[f], b, k)
           /\ k <= Size(p[f], b) => Live(p[f], b, k + 1) \subseteq Live(p[f], b, k) \cup {p[f].body[b][k].dst}
           /\ k = Size(p[f], b) + 1 => \A c \in p[f].term[b].to : Depends(p[f])[c] \subseteq Live(p[f], b, k)
           /\ Live(p[f], b, 1) \subseteq Depends(p[f])[b]
           /\ Live(p[f], p[f].first, 1) \subseteq ToSet(p[f].params)
<1> DEFINE code == p[f]
           n == Size(code, b)
<1>0. /\ IsFiniteSet(Label(code)) /\ n \in Nat /\ code.first \in Label(code)
      /\ \A c \in Label(code) : code.term[c].to \subseteq Label(code)
      /\ \A c \in Label(code) : Size(code, c) \in Nat
  BY FunctionFacts
<1>1. Uses(code, b, k) \subseteq Live(code, b, k)
  <2>1. k \in k .. n + 1
    BY <1>0
  <2>2. Results(code, b, k, k - 1) = {}
    <3>1. k .. k - 1 = {}
      BY <1>0
    <3> QED
      BY <3>1 DEF Results
  <2> QED
    BY <2>1, <2>2 DEF Live, Needed
<1>2. ASSUME k <= n PROVE Live(code, b, k + 1) \subseteq Live(code, b, k) \cup {code.body[b][k].dst}
  <2> DEFINE d == code.body[b][k].dst
  <2>1. \A j \in Int : Results(code, b, k, j) \subseteq Results(code, b, k + 1, j) \cup {d}
    <3>1. \A j \in Int : \A i \in k .. j : i = k \/ i \in k + 1 .. j
      BY <1>0
    <3> QED
      BY <3>1 DEF Results
  <2>2. \A j \in k + 1 .. n + 1 : j \in k .. n + 1 /\ j - 1 \in Int
    BY <1>0
  <2>3. Needed(code, b, k + 1) \subseteq Needed(code, b, k) \cup {d}
    <3> SUFFICES ASSUME NEW x \in Needed(code, b, k + 1), x # d PROVE x \in Needed(code, b, k)
      OBVIOUS
    <3>1. PICK j \in k + 1 .. n + 1 : x \in Uses(code, b, j) \ Results(code, b, k + 1, j - 1)
      BY DEF Needed
    <3>2. j \in k .. n + 1 /\ x \in Uses(code, b, j) \ Results(code, b, k, j - 1)
      BY <2>1, <2>2, <3>1
    <3> QED
      BY <3>2 DEF Needed
  <2>4. n \in Int
    BY <1>0
  <2>5. Results(code, b, k, n) \subseteq Results(code, b, k + 1, n) \cup {d}
    BY <2>1, <2>4
  <2> DEFINE after == Following(code, Depends(code), b)
  <2>6. /\ Live(code, b, k + 1) = Needed(code, b, k + 1) \cup (after \ Results(code, b, k + 1, n))
        /\ Live(code, b, k) = Needed(code, b, k) \cup (after \ Results(code, b, k, n))
    BY DEF Live
  <2> HIDE DEF n, d, after
  <2>7. Live(code, b, k + 1) \subseteq Live(code, b, k) \cup {d}
    BY <2>3, <2>5, <2>6
  <2> QED
    BY <2>7 DEF d
<1>3. ASSUME k = n + 1, NEW c \in code.term[b].to PROVE Depends(code)[c] \subseteq Live(code, b, k)
  <2>1. k .. n = {}
    BY <1>0, <1>3
  <2>2. Results(code, b, k, n) = {}
    BY <2>1 DEF Results
  <2> QED
    BY <2>2 DEF Live, Following
<1>4. ASSUME NEW c \in Label(code) PROVE Live(code, c, 1) \subseteq Depends(code)[c]
  <2>1. Needed(code, c, 1) = DirectDepends(code, c)
    <3>1. 0 + 1 = 1
      OBVIOUS
    <3> QED
      BY <3>1 DEF Needed, DirectDepends
  <2>2. Live(code, c, 1) = DependsStep(code, Depends(code))[c]
    BY <2>1 DEF Live, DependsStep
  <2> QED
    BY <1>0, <2>2, DependsSettles
<1>5. Live(code, code.first, 1) \subseteq ToSet(code.params)
  BY <1>0, <1>4, FirstDepends
<1> QED
  BY <1>1, <1>2, <1>3, <1>4, <1>5

-----------------------------------------------------------------------------
(* Return addresses and the addresses of functions.                          *)

(* An address given for a call leads back to it.                              *)
LEMMA ReturnFacts ==
    ASSUME NEW r, NEW R, r.returnAddresses = R, Len(R) \in Nat, DOMAIN R = 1 .. Len(R),
           NEW site, \E n \in 1 .. Len(R) : R[n] = site, r.takesReturnAddress <=> Len(R) > 1,
           r.takesReturnAddress \in BOOLEAN
    PROVE  ReturnsTo(r, site)
<1> DEFINE n == Numbered(R, site)
           table == [m \in 0 .. Len(R) - 1 |-> R[m + 1]]
<1>1. n \in 1 .. Len(R) /\ R[n] = site
  BY DEF Numbered
<1> HIDE DEF n
<1>2. n - 1 \in Nat /\ n - 1 \in 0 .. Len(R) - 1 /\ (n - 1) + 1 = n
  BY <1>1
<1>3. table[n - 1] = site
  BY <1>1, <1>2
<1>4. DOMAIN table = 0 .. Len(R) - 1
  OBVIOUS
<1>5. IsFiniteSet(0 .. Len(R) - 1) /\ 0 .. Len(R) - 1 \subseteq Nat
  <2>1. 0 \in Int /\ Len(R) - 1 \in Int
    OBVIOUS
  <2>2. 0 .. Len(R) - 1 \subseteq Nat
    OBVIOUS
  <2>3. IsFiniteSet(0 .. Len(R) - 1)
    BY <2>1, FS_Interval
  <2> QED
    BY <2>2, <2>3
<1>6. ReturnTarget(r, n - 1) = IF r.takesReturnAddress THEN Looked(n - 1, table) ELSE R[1]
  BY DEF ReturnTarget
<1> HIDE DEF table
<1>7. Table(table) /\ End(table, HighestOr1(table)) /\ n - 1 \in DOMAIN table
  BY <1>2, <1>4, <1>5 DEF Table, End
<1>8. Looked(n - 1, table) = site
  BY <1>3, <1>7, BinarySearchFinds DEF Looked
<1>9. ~r.takesReturnAddress => R[1] = site
  <2> SUFFICES ASSUME ~(Len(R) > 1) PROVE R[1] = site
    OBVIOUS
  <2>1. n = 1
    BY <1>1
  <2> QED
    BY <1>1, <2>1
<1>10. R # << >>
  <2>1. Len(R) # 0
    BY <1>1
  <2> QED
    BY <2>1
<1> QED
  BY <1>2, <1>6, <1>8, <1>9, <1>10 DEF ReturnsTo, n

\* The first addresses of the signatures.
Firsts(sigs) ==
    CHOOSE first : first = [n \in DOMAIN sigs |-> IF n = 1 THEN FirstAddress ELSE first[n - 1] + Len(sigs[n - 1].targets)]

(* FirstOf has the value its recursion says, and the addresses of a signature *)
(* end where those of the next begin.                                         *)
LEMMA FirstOfFacts ==
    ASSUME NEW p, NEW sigs, SigsOK(p, sigs), NEW s \in DOMAIN sigs
    PROVE  FirstOf(sigs, s) \in Nat
<1> DEFINE size(n) == IF n \in 1 .. Len(sigs) THEN Len(sigs[n].targets) ELSE 0
           step == [n \in Nat |-> [a \in Nat |-> a + size(n + 1)]]
           R == Firsts(sigs)
<1>0. /\ Len(sigs) \in Nat /\ DOMAIN sigs = 1 .. Len(sigs)
      /\ \A n \in 1 .. Len(sigs) : Len(sigs[n].targets) \in Nat
  BY DEF SigsOK
<1>1. \A n \in Nat : size(n) \in Nat
  BY <1>0
<1> HIDE DEF size
<1>2. step \in [Nat -> [Nat -> Nat]]
  <2>1. \A n, a \in Nat : n + 1 \in Nat /\ a + size(n + 1) \in Nat
    BY <1>1
  <2> QED
    BY <2>1
<1>3. \A n, a \in Nat : step[n][a] = a + size(n + 1)
  OBVIOUS
<1> HIDE DEF step
<1>4. PICK f \in [Nat -> Nat] : f[0] = FirstAddress /\ \A n \in Nat : f[n + 1] = step[n][f[n]]
  <2>1. FirstAddress \in Nat
    BY PointerAssumption
  <2>2. Recursive(Nat, FirstAddress, step)
    BY <1>2, <2>1, RecursionExists
  <2> QED
    BY <2>2 DEF Recursive
<1>5. \A n \in Nat : f[n + 1] = f[n] + size(n + 1)
  BY <1>3, <1>4
<1> DEFINE g == [n \in DOMAIN sigs |-> f[n - 1]]
<1>6. g = [n \in DOMAIN sigs |-> IF n = 1 THEN FirstAddress ELSE g[n - 1] + Len(sigs[n - 1].targets)]
  <2>1. ASSUME NEW n \in DOMAIN sigs
        PROVE  f[n - 1] = IF n = 1 THEN FirstAddress ELSE g[n - 1] + Len(sigs[n - 1].targets)
    <3>1. CASE n = 1
      BY <1>4, <3>1
    <3>2. CASE n # 1
      <4>0. n \in 1 .. Len(sigs) /\ Len(sigs) \in Nat
        BY <1>0
      <4>5. n - 1 \in 1 .. Len(sigs) /\ n - 2 \in Nat /\ (n - 2) + 1 = n - 1
        <5>1. \A m \in Nat : \A x \in 1 .. m : x # 1 => x - 1 \in 1 .. m /\ x - 2 \in Nat /\ (x - 2) + 1 = x - 1
          OBVIOUS
        <5> QED
          BY ONLY <4>0, <3>2, <5>1
      <4>1. n - 1 \in DOMAIN sigs /\ n - 2 \in Nat /\ (n - 2) + 1 = n - 1
        BY <1>0, <4>5
      <4>2. f[n - 1] = f[n - 2] + size(n - 1)
        BY <1>5, <4>1
      <4>3. size(n - 1) = Len(sigs[n - 1].targets)
        BY <1>0, <4>1 DEF size
      <4>4. g[n - 1] = f[(n - 1) - 1] /\ (n - 1) - 1 = n - 2
        BY <1>0, <4>1
      <4> QED
        BY <3>2, <4>2, <4>3, <4>4
    <3> QED
      BY <3>1, <3>2
  <2> QED
    BY <2>1
<1> HIDE DEF g
<1>7. R = [n \in DOMAIN sigs |-> IF n = 1 THEN FirstAddress ELSE R[n - 1] + Len(sigs[n - 1].targets)]
  BY <1>6 DEF Firsts
<1>8. FirstOf(sigs, s) = R[s]
  BY DEF FirstOf, Firsts
<1> HIDE DEF R
<1> DEFINE T == {n \in Nat : n + 1 \in DOMAIN sigs => R[n + 1] \in Nat}
<1>9. 0 \in T
  <2>1. 1 \in DOMAIN sigs => R[1] = FirstAddress
    BY <1>7
  <2> QED
    BY <2>1, PointerAssumption
<1>10. ASSUME NEW n \in Nat, n \in T PROVE n + 1 \in T
  <2> SUFFICES ASSUME (n + 1) + 1 \in DOMAIN sigs PROVE R[(n + 1) + 1] \in Nat
    OBVIOUS
  <2> DEFINE m == n + 1
             l == m + 1
  <2>0. l \in 1 .. Len(sigs) /\ Len(sigs) \in Nat
    BY <1>0
  <2>4. m \in 1 .. Len(sigs) /\ l # 1 /\ l - 1 = m /\ l = m + 1
    BY <2>0
  <2>1. m \in DOMAIN sigs /\ l \in DOMAIN sigs /\ l # 1 /\ l - 1 = m
    BY <1>0, <2>0, <2>4
  <2> HIDE DEF m, l
  <2>2. R[l] = R[m] + Len(sigs[m].targets)
    BY <1>7, <2>1
  <2>5. R[m] \in Nat
    BY <1>10, <2>1 DEF m
  <2>3. R[m] \in Nat /\ Len(sigs[m].targets) \in Nat
    BY <1>0, <2>5, <2>1
  <2> HIDE DEF T
  <2>6. R[l] \in Nat
    <3>1. \A x, y \in Nat : x + y \in Nat
      OBVIOUS
    <3> QED
      BY ONLY <2>2, <2>3, <3>1
  <2> QED
    BY <2>6 DEF l, m
<1> HIDE DEF T
<1>11. \A n \in Nat : n \in T
  BY <1>9, <1>10, Induction
<1>12. s - 1 \in Nat /\ (s - 1) + 1 = s
  <2>1. s \in 1 .. Len(sigs) /\ Len(sigs) \in Nat
    BY <1>0
  <2>2. \A m \in Nat : \A x \in 1 .. m : x - 1 \in Nat /\ (x - 1) + 1 = x
    OBVIOUS
  <2> QED
    BY ONLY <2>1, <2>2
<1>13. s - 1 \in T
  BY <1>11, <1>12
<1> QED
  BY <1>8, <1>12, <1>13 DEF T

(* The address of a function chooses it among those of its signature.         *)
LEMMA DispatchFinds ==
    ASSUME NEW p, NEW sigs, SigsOK(p, sigs), NEW s \in DOMAIN sigs, NEW f \in Sharing(p, sigs[s].params)
    PROVE  /\ FuncPtrAddr(sigs, f) \in Nat
           /\ Looked(FuncPtrAddr(sigs, f), DispatchTable(sigs, s)) = f
<1> DEFINE c == sigs[s].targets
           F == FirstOf(sigs, s)
           n == CHOOSE n \in DOMAIN c : c[n] = f
           t == CHOOSE t \in DOMAIN sigs : f \in ToSet(sigs[t].targets)
           table == [a \in F .. F + Len(c) - 1 |-> c[a - F + 1]]
<1>1. /\ c \in Seq(DOMAIN p) /\ Len(c) \in Nat /\ \E j \in 1 .. Len(c) : c[j] = f
  BY DEF SigsOK
<1>2. F \in Nat
  BY FirstOfFacts
<1>3. DOMAIN c = 1 .. Len(c)
  BY <1>1
<1>4. f \in ToSet(c)
  BY <1>1, <1>3 DEF ToSet
<1>5. t \in DOMAIN sigs /\ f \in ToSet(sigs[t].targets)
  BY <1>4
<1>6. t = s
  <2> HIDE DEF t
  <2> DEFINE e == sigs[t].targets
  <2>1. /\ e \in Seq(DOMAIN p) /\ \A j \in 1 .. Len(e) : e[j] \in Sharing(p, sigs[t].params)
    BY <1>5 DEF SigsOK
  <2> HIDE DEF e
  <2>2. DOMAIN e = 1 .. Len(e)
    BY <2>1
  <2>3. f \in Sharing(p, sigs[t].params)
    BY <1>5, <2>1, <2>2 DEF ToSet, e
  <2>4. sigs[t].params = sigs[s].params
    BY <2>3 DEF Sharing
  <2> QED
    BY <1>5, <2>4 DEF SigsOK
<1>7. FuncPtrAddr(sigs, f) = FirstOf(sigs, t) + (CHOOSE m \in DOMAIN sigs[t].targets : sigs[t].targets[m] = f) - 1
  BY DEF FuncPtrAddr
<1>8. FuncPtrAddr(sigs, f) = F + n - 1
  <2> HIDE DEF t
  <2> QED
    BY <1>6, <1>7
<1>9. n \in 1 .. Len(c) /\ c[n] = f
  BY <1>1, <1>3
<1> DEFINE a == F + n - 1
<1> HIDE DEF F, n, t
<1>10. a \in Nat /\ a \in F .. F + Len(c) - 1 /\ a - F + 1 = n
  BY <1>1, <1>2, <1>9
<1>11. table[a] = f
  BY <1>9, <1>10
<1>12. DispatchTable(sigs, s) = table
  BY DEF DispatchTable, F
<1>13. IsFiniteSet(F .. F + Len(c) - 1) /\ F .. F + Len(c) - 1 \subseteq Nat
  <2>1. F \in Int /\ F + Len(c) - 1 \in Int
    BY <1>1, <1>2
  <2>2. F .. F + Len(c) - 1 \subseteq Nat
    BY <1>2
  <2> QED
    BY <2>1, <2>2, FS_Interval
<1>14. DOMAIN table = F .. F + Len(c) - 1
  OBVIOUS
<1> HIDE DEF table, a
<1>15. Table(table) /\ End(table, HighestOr1(table)) /\ a \in DOMAIN table
  BY <1>10, <1>13, <1>14 DEF Table, End
<1>16. Looked(a, table) = f
  BY <1>11, <1>15, BinarySearchFinds DEF Looked
<1>17. FuncPtrAddr(sigs, f) = a
  BY <1>8 DEF a
<1> QED
  BY <1>10, <1>12, <1>16, <1>17

(* What calls a function that returns to an address returns to one.           *)
LEMMA AddressedUp ==
    ASSUME NEW mode, NEW p, IsProgram(p), NEW sigs, SigsOK(p, sigs), NEW f \in DOMAIN p,
           NEW i \in Instrs(p[f]), IsCall(i), NEW g \in ToSet(CouldCall(sigs, i)),
           g \in ReturnsToAddress(mode, p, sigs)
    PROVE  f \in ReturnsToAddress(mode, p, sigs)
<1> DEFINE G == CallGraph(p, sigs)
<1>1. G \in [DOMAIN p -> SUBSET DOMAIN p] /\ g \in Reached(G, f)
  BY CallGraphFacts
<1>2. ReturnsToAddress(mode, p, sigs) = {h \in DOMAIN p : ~mode /\ \E e \in {h} \cup Reached(G, h) : HasLoop(p[e])}
  BY DEF ReturnsToAddress
<1> HIDE DEF G
<1>3. PICK e \in {g} \cup Reached(G, g) : HasLoop(p[e])
  BY <1>2
<1>4. e \in Reached(G, f)
  BY <1>1, <1>3, ReachedTrans
<1> QED
  BY <1>2, <1>3, <1>4

(* Where a call continues is among the return addresses of what it calls.     *)
LEMMA AmongReturnAddresses ==
    ASSUME NEW p, IsProgram(p), NEW sigs, SigsOK(p, sigs), NEW f \in DOMAIN p, NEW b \in Label(p[f]),
           NEW k \in 1 .. Size(p[f], b), NEW i, i = p[f].body[b][k], IsCall(i),
           NEW g \in ToSet(CouldCall(sigs, i))
    PROVE  LET R == ReturnAddresses(p, sigs, g)
           IN  /\ Len(R) \in Nat /\ DOMAIN R = 1 .. Len(R)
               /\ \E n \in 1 .. Len(R) : R[n] = Expected(sigs, i, Site(f, b, k))
<1> DEFINE X == {j \in AllInstrs(p) : IsCall(j) /\ CouldCall(sigs, j) = <<g>>}
           C == {s \in DOMAIN sigs : /\ Len(sigs[s].targets) # 1 /\ g \in ToSet(sigs[s].targets)}
           B == {Callback(s) : s \in C}
           u == SitesOf(p, X)
           v == SetToSeq(B)
           R == ReturnAddresses(p, sigs, g)
           x == Expected(sigs, i, Site(f, b, k))
<1>1. R = u \o v
  BY DEF ReturnAddresses
<1>2. i \in AllInstrs(p) /\ i \in Instrs(p[f])
  BY InstrFacts
<1>3. SitesOK(p, X, u)
  BY SitesFacts
<1>4. IsFiniteSet(B)
  <2> DEFINE h == [s \in C |-> Callback(s)]
             N == 1 .. Len(sigs)
  <2>1. Len(sigs) \in Nat /\ DOMAIN sigs = N
    BY DEF SigsOK
  <2>2. IsFiniteSet(N)
    <3>1. 1 \in Int /\ Len(sigs) \in Int
      BY <2>1
    <3> QED
      BY <3>1, FS_Interval
  <2>3. C \in SUBSET N
    BY <2>1
  <2>4. B = {h[s] : s \in C}
    OBVIOUS
  <2> HIDE DEF h, B, C, N
  <2>5. IsFiniteSet(C)
    BY <2>2, <2>3, FS_Subset
  <2> QED
    BY <2>4, <2>5, Images
<1> HIDE DEF B
<1>5. /\ v \in Seq(B) /\ Len(v) \in Nat
      /\ \A y \in B : \E n \in 1 .. Len(v) : v[n] = y
  BY <1>4, SetToSeqFacts
<1>6. Len(u) \in Nat /\ DOMAIN u = 1 .. Len(u)
  BY <1>3 DEF SitesOK
<1>7. DOMAIN v = 1 .. Len(v)
  BY <1>5
<1>8. ASSUME ~Dispatched(sigs, i) PROVE \E n \in 1 .. Len(u) : u[n] = x
  <2>1. CouldCall(sigs, i) = <<CouldCall(sigs, i)[1]>> /\ ToSet(CouldCall(sigs, i)) = {CouldCall(sigs, i)[1]}
    BY <1>2, <1>8, CouldCallFacts
  <2>2. CouldCall(sigs, i) = <<g>>
    BY <2>1
  <2>3. p[f].body[b][k] \in X
    BY <1>2, <2>2
  <2>4. \E n \in 1 .. Len(u) : u[n] = Site(f, b, k)
    BY <1>3, <2>3 DEF SitesOK
  <2>5. x = Site(f, b, k)
    BY <1>8 DEF Expected
  <2> QED
    BY <2>4, <2>5
<1>9. ASSUME Dispatched(sigs, i) PROVE \E n \in 1 .. Len(v) : v[n] = x
  <2> DEFINE s == SignatureOf(sigs, i)
  <2>1. /\ s \in DOMAIN sigs /\ CouldCall(sigs, i) = sigs[s].targets
    BY <1>2, <1>9, CouldCallFacts
  <2>2. Len(sigs[s].targets) # 1
    BY <1>9, <2>1 DEF Dispatched
  <2>3. s \in C
    BY <2>1, <2>2
  <2>4. Callback(s) \in B
    BY <2>3 DEF B
  <2>5. x = Callback(s)
    BY <1>9 DEF Expected
  <2>6. \E n \in 1 .. Len(v) : v[n] = x
    BY <1>5, <2>4, <2>5
  <2> HIDE DEF x, v
  <2> QED
    BY <2>6
<1> HIDE DEF u, v, x
<1>10. (\E n \in 1 .. Len(u) : u[n] = x) \/ (\E n \in 1 .. Len(v) : v[n] = x)
  BY <1>8, <1>9
<1>11. DOMAIN (u \o v) = 1 .. Len(u) + Len(v)
  OBVIOUS
<1>12. Len(u \o v) = Len(u) + Len(v)
  BY <1>6, <1>7
<1>13. \A n \in 1 .. Len(u) : (u \o v)[n] = u[n] /\ n \in 1 .. Len(u) + Len(v)
  BY <1>5, <1>6
<1>14. \A n \in 1 .. Len(v) : (u \o v)[Len(u) + n] = v[n] /\ Len(u) + n \in 1 .. Len(u) + Len(v)
  BY <1>5, <1>6
<1>15. \E n \in 1 .. Len(u) + Len(v) : (u \o v)[n] = x
  BY <1>10, <1>13, <1>14
<1>16. Len(u) + Len(v) \in Nat
  BY <1>5, <1>6
<1> QED
  BY <1>1, <1>11, <1>12, <1>15, <1>16 DEF x

(* A call through a pointer is among those of its signature, all of which can *)
(* call the same functions.                                                   *)
LEMMA AmongSignature ==
    ASSUME NEW p, IsProgram(p), NEW sigs, SigsOK(p, sigs), NEW f \in DOMAIN p, NEW b \in Label(p[f]),
           NEW k \in 1 .. Size(p[f], b), NEW i, i = p[f].body[b][k], IsCall(i), Dispatched(sigs, i)
    PROVE  LET s == SignatureOf(sigs, i)
               R == SigReturnAddresses(p, sigs, s)
           IN  /\ s \in DOMAIN sigs /\ ToSet(CouldCall(sigs, i)) = ToSet(sigs[s].targets)
               /\ Len(R) \in Nat /\ DOMAIN R = 1 .. Len(R)
               /\ \E n \in 1 .. Len(R) : R[n] = Site(f, b, k)
               /\ \A n \in 1 .. Len(R) : \A g \in ToSet(sigs[s].targets) :
                     R[n].fn \in DOMAIN p /\ g \in Reached(CallGraph(p, sigs), R[n].fn)
<1> DEFINE s == SignatureOf(sigs, i)
           R == SigReturnAddresses(p, sigs, s)
           X == {j \in PointerCalls(p) : Dispatched(sigs, j) /\ SignatureOf(sigs, j) = s}
<1>1. i \in AllInstrs(p) /\ i \in Instrs(p[f])
  BY InstrFacts
<1>2. ByPointer(i) /\ s \in DOMAIN sigs /\ CouldCall(sigs, i) = sigs[s].targets
  BY <1>1, CouldCallFacts
<1>3. SitesOK(p, X, R)
  BY SitesFacts DEF SigReturnAddresses
<1>4. i \in X
  BY <1>1, <1>2 DEF PointerCalls
<1>5. \E n \in 1 .. Len(R) : R[n] = Site(f, b, k)
  BY <1>3, <1>4 DEF SitesOK
<1>6. ASSUME NEW n \in 1 .. Len(R), NEW g \in ToSet(sigs[s].targets)
      PROVE  R[n].fn \in DOMAIN p /\ g \in Reached(CallGraph(p, sigs), R[n].fn)
  <2>1. PICK h \in DOMAIN p : \E c \in Label(p[h]) : \E l \in 1 .. Size(p[h], c) :
            p[h].body[c][l] \in X /\ R[n] = Site(h, c, l)
    BY <1>3 DEF SitesOK
  <2>2. PICK c \in Label(p[h]) : \E l \in 1 .. Size(p[h], c) : p[h].body[c][l] \in X /\ R[n] = Site(h, c, l)
    BY <2>1
  <2>3. PICK l \in 1 .. Size(p[h], c) : p[h].body[c][l] \in X /\ R[n] = Site(h, c, l)
    BY <2>2
  <2> DEFINE j == p[h].body[c][l]
  <2>4. j \in Instrs(p[h]) /\ j \in AllInstrs(p)
    BY InstrFacts
  <2>5. IsCall(j) /\ ByPointer(j) /\ SignatureOf(sigs, j) = s
    BY <2>3 DEF PointerCalls
  <2>6. CouldCall(sigs, j) = sigs[s].targets
    BY <2>5 DEF CouldCall
  <2>7. g \in ToSet(CouldCall(sigs, j))
    BY <2>6
  <2>8. g \in Reached(CallGraph(p, sigs), h)
    BY <2>4, <2>5, <2>7, CallGraphFacts
  <2>9. R[n].fn = h
    BY <2>3 DEF Site
  <2> QED
    BY <2>8, <2>9
<1> QED
  BY <1>2, <1>3, <1>5, <1>6 DEF SitesOK

(* What get_fn_info, compute_must_store and the signatures come to in a       *)
(* program the theorems are about.                                            *)
LEMMA InitSettled ==
    ASSUME Init, Covered(jumpTable, prog)
    PROVE  StaticInv
<1> DEFINE rta == ReturnsToAddress(jumpTable, prog, pointers)
           RA(f) == ReturnAddresses(prog, pointers, f)
           SRA(s) == SigReturnAddresses(prog, pointers, s)
           G == CallGraph(prog, pointers)
<1>1. IsProgram(prog) /\ jumpTable \in BOOLEAN
  BY ProgramsAssumption DEF Init
<1>2. pointers = FnPtrSigs(prog) /\ info = FnInfo /\ sigInfo = SigInfo
  BY DEF Init
<1>3. SigsOK(prog, pointers)
  BY <1>1, <1>2, SigFacts
<1>4. NoRecursion(prog, pointers) /\ KeepsParams(jumpTable, prog, pointers)
  BY <1>2 DEF Covered
<1>5. G \in [DOMAIN prog -> SUBSET DOMAIN prog] /\ \A f \in DOMAIN prog : f \notin Reached(G, f)
  BY <1>1, <1>3, <1>4, CallGraphFacts DEF NoRecursion
<1>6. \A f \in DOMAIN prog :
          /\ info[f].returnsToAddress \in BOOLEAN /\ (info[f].returnsToAddress <=> f \in rta)
          /\ info[f].takesReturnAddress \in BOOLEAN /\ (info[f].takesReturnAddress <=> f \in rta /\ Len(RA(f)) > 1)
          /\ info[f].returnAddresses = RA(f)
          /\ info[f].depends = Depends(prog[f])
  <2> SUFFICES ASSUME NEW f \in DOMAIN prog
               PROVE  /\ info[f].returnsToAddress \in BOOLEAN /\ (info[f].returnsToAddress <=> f \in rta)
                      /\ info[f].takesReturnAddress \in BOOLEAN
                      /\ (info[f].takesReturnAddress <=> f \in rta /\ Len(RA(f)) > 1)
                      /\ info[f].returnAddresses = RA(f)
                      /\ info[f].depends = Depends(prog[f])
    OBVIOUS
  <2> DEFINE returns == f \in rta
             sites == RA(f)
             takes == returns /\ Len(sites) > 1
  <2>1. /\ info[f].returnsToAddress = returns /\ info[f].takesReturnAddress = takes
        /\ info[f].returnAddresses = sites /\ info[f].depends = Depends(prog[f])
    BY <1>2 DEF FnInfo
  <2>2. returns \in BOOLEAN /\ takes \in BOOLEAN
    OBVIOUS
  <2> QED
    BY <2>1, <2>2, Zenon DEF returns, sites, takes
<1>7. \A s \in DOMAIN pointers :
          /\ sigInfo[s].returnsToAddress <=> ToSet(pointers[s].targets) \cap rta # {}
          /\ sigInfo[s].takesReturnAddress \in BOOLEAN
          /\ sigInfo[s].takesReturnAddress <=> ToSet(pointers[s].targets) \cap rta # {} /\ Len(SRA(s)) > 1
          /\ sigInfo[s].returnAddresses = SRA(s)
          /\ sigInfo[s].couldRecurse <=> \E n \in DOMAIN SRA(s) : \E f \in ToSet(pointers[s].targets) :
                                          SRA(s)[n].fn \in {f} \cup Reached(G, f)
  <2> SUFFICES ASSUME NEW s \in DOMAIN pointers
               PROVE  /\ sigInfo[s].returnsToAddress <=> ToSet(pointers[s].targets) \cap rta # {}
                      /\ sigInfo[s].takesReturnAddress \in BOOLEAN
                      /\ sigInfo[s].takesReturnAddress <=> ToSet(pointers[s].targets) \cap rta # {} /\ Len(SRA(s)) > 1
                      /\ sigInfo[s].returnAddresses = SRA(s)
                      /\ sigInfo[s].couldRecurse <=> \E n \in DOMAIN SRA(s) : \E f \in ToSet(pointers[s].targets) :
                                                      SRA(s)[n].fn \in {f} \cup Reached(G, f)
    OBVIOUS
  <2> DEFINE returns == ToSet(pointers[s].targets) \cap rta # {}
             could == \E n \in DOMAIN SRA(s) : \E f \in ToSet(pointers[s].targets) : SRA(s)[n].fn \in {f} \cup Reached(G, f)
             sites == SRA(s)
  <2>1. sigInfo[s] = [returnsToAddress |-> returns, takesReturnAddress |-> returns /\ Len(sites) > 1,
                      returnAddresses |-> sites, couldRecurse |-> could]
    BY <1>2, Zenon DEF SigInfo
  <2> HIDE DEF returns, could, sites
  <2>2. /\ sigInfo[s].returnsToAddress = returns /\ sigInfo[s].takesReturnAddress = (returns /\ Len(sites) > 1)
        /\ sigInfo[s].returnAddresses = sites /\ sigInfo[s].couldRecurse = could
    BY <2>1
  <2>3. (returns /\ Len(sites) > 1) \in BOOLEAN
    OBVIOUS
  <2> QED
    BY <2>2, <2>3, Zenon DEF returns, could, sites
<1>8. \A f \in DOMAIN prog : f \in rta => ~jumpTable
  BY DEF ReturnsToAddress
<1>9. \A f \in DOMAIN prog : Takes(jumpTable, prog, pointers, f) <=> info[f].takesReturnAddress
  BY <1>6 DEF Takes
<1>10. ASSUME NEW f \in DOMAIN prog, NEW b \in Label(prog[f]), NEW k \in 1 .. Size(prog[f], b)
       PROVE  info[f].mustStore[b][k] = {}
  <2> DEFINE i == prog[f].body[b][k]
             takes == f \in rta /\ Len(RA(f)) > 1
  <2>1. DOMAIN prog[f].body[b] = 1 .. Size(prog[f], b)
    BY <1>1, FunctionFacts
  <2>2. info[f].mustStore = [c \in Label(prog[f]) |-> [l \in DOMAIN prog[f].body[c] |-> MustStore(f, c, l, takes)]]
    BY <1>2 DEF FnInfo
  <2> HIDE DEF takes
  <2>3. info[f].mustStore[b][k] = MustStore(f, b, k, takes)
    <3>1. info[f].mustStore[b] = [l \in DOMAIN prog[f].body[b] |-> MustStore(f, b, l, takes)]
      BY <2>2
    <3>2. k \in DOMAIN prog[f].body[b]
      BY <2>1
    <3> QED
      BY <3>1, <3>2
  <2>4. ~(IsCall(i) /\ CouldCall(pointers, i) = <<f>>)
    <3> SUFFICES ASSUME IsCall(i), CouldCall(pointers, i) = <<f>> PROVE FALSE
      OBVIOUS
    <3>1. f \in ToSet(<<f>>)
      BY DEF ToSet
    <3>2. i \in Instrs(prog[f])
      BY <1>1, InstrFacts
    <3>3. f \in ToSet(CouldCall(pointers, i))
      BY <3>1
    <3>4. f \in Reached(G, f)
      BY <1>1, <1>3, <3>2, <3>3, CallGraphFacts
    <3> QED
      BY <1>5, <3>4
  <2> QED
    BY <2>3, <2>4 DEF MustStore
<1>11. ASSUME NEW f \in DOMAIN prog PROVE FunctionOK(jumpTable, prog, info, f)
  <2>1. info[f].takesReturnAddress => prog[f].term[prog[f].first].to # {}
    BY <1>4, <1>9 DEF KeepsParams
  <2> HIDE DEF rta, RA
  <2>2. /\ info[f].returnsToAddress \in BOOLEAN /\ info[f].takesReturnAddress \in BOOLEAN
        /\ info[f].takesReturnAddress => info[f].returnsToAddress
        /\ jumpTable => ~info[f].returnsToAddress
        /\ info[f].depends = Depends(prog[f])
    BY <1>6, <1>8
  <2> QED
    BY <1>10, <2>1, <2>2 DEF FunctionOK
<1>12. ASSUME NEW f \in DOMAIN prog, NEW b \in Label(prog[f]), NEW k \in 1 .. Size(prog[f], b), IsCall(prog[f].body[b][k])
       PROVE  CallOK(prog, pointers, info, sigInfo, f, b, k)
  <2> DEFINE i == prog[f].body[b][k]
             s == SignatureOf(pointers, i)
             c == ToSet(CouldCall(pointers, i))
             site == Site(f, b, k)
             addressed == Addressed(pointers, info, i)
  <2>1. i \in Instrs(prog[f]) /\ i \in AllInstrs(prog)
    BY <1>1, InstrFacts
  <2>2. \A g \in c : g \in DOMAIN prog /\ g \in Reached(G, f)
    BY <1>1, <1>3, <1>12, <2>1, CallGraphFacts, CouldCallFacts
  <2>3. addressed <=> c \cap rta # {}
    BY <1>6, <2>2 DEF Addressed
  <2>4. (IF Dispatched(pointers, i) THEN sigInfo[s] ELSE info[CouldCall(pointers, i)[1]]).returnsToAddress <=> addressed
    <3>1. CASE Dispatched(pointers, i)
      <4>1. s \in DOMAIN pointers /\ c = ToSet(pointers[s].targets)
        BY <1>1, <1>3, <1>12, <3>1, AmongSignature
      <4>2. sigInfo[s].returnsToAddress <=> ToSet(pointers[s].targets) \cap rta # {}
        BY <1>7, <4>1
      <4> HIDE DEF c, rta, addressed, s
      <4> QED
        BY <2>3, <3>1, <4>1, <4>2
    <3>2. CASE ~Dispatched(pointers, i)
      <4>1. c = {CouldCall(pointers, i)[1]}
        BY <1>1, <1>3, <1>12, <2>1, <3>2, CouldCallFacts
      <4>2. addressed <=> info[CouldCall(pointers, i)[1]].returnsToAddress
        BY <4>1 DEF Addressed
      <4> HIDE DEF addressed
      <4> QED
        BY <3>2, <4>2
    <3> QED
      BY <3>1, <3>2
  <2>5. ASSUME NEW g \in c, info[g].returnsToAddress PROVE ReturnsTo(info[g], Expected(pointers, i, site))
    <3> DEFINE R == RA(g)
               r == info[g]
               x == Expected(pointers, i, site)
    <3>1. Len(R) \in Nat /\ DOMAIN R = 1 .. Len(R) /\ \E n \in 1 .. Len(R) : R[n] = x
      BY <1>1, <1>3, <1>12, AmongReturnAddresses
    <3>2. g \in DOMAIN prog
      BY <2>2
    <3>3. g \in rta
      BY <1>6, <2>5, <3>2
    <3>4. r.returnAddresses = R /\ (r.takesReturnAddress <=> Len(R) > 1) /\ r.takesReturnAddress \in BOOLEAN
      BY <1>6, <3>2, <3>3
    <3>5. (r.takesReturnAddress <=> Len(R) > 1) /\ r.takesReturnAddress \in BOOLEAN
      BY <3>4
    <3> HIDE DEF R, r, x
    <3>6. ReturnsTo(r, x)
      BY <3>1, <3>4, <3>5, ReturnFacts
    <3> QED
      BY <3>6 DEF r, x
  <2>6. ASSUME addressed PROVE f \in rta /\ info[f].returnsToAddress
    <3>1. PICK g \in c : g \in rta
      BY <2>3, <2>6
    <3>2. f \in rta
      BY <1>1, <1>3, <1>12, <2>1, <3>1, AddressedUp
    <3> QED
      BY <1>6, <3>2
  <2>7. ASSUME addressed, Dispatched(pointers, i) PROVE ReturnsTo(sigInfo[s], site) /\ ~sigInfo[s].couldRecurse
    <3> DEFINE R == SRA(s)
               r == sigInfo[s]
    <3>1. /\ s \in DOMAIN pointers /\ c = ToSet(pointers[s].targets)
          /\ Len(R) \in Nat /\ DOMAIN R = 1 .. Len(R)
          /\ \E n \in 1 .. Len(R) : R[n] = site
          /\ \A n \in 1 .. Len(R) : \A g \in ToSet(pointers[s].targets) :
                R[n].fn \in DOMAIN prog /\ g \in Reached(G, R[n].fn)
      BY <1>1, <1>3, <1>12, <2>7, AmongSignature
    <3>2. ToSet(pointers[s].targets) \cap rta # {}
      BY <2>3, <2>7, <3>1
    <3>3. r.returnAddresses = R /\ (r.takesReturnAddress <=> Len(R) > 1) /\ r.takesReturnAddress \in BOOLEAN
      BY <1>7, <3>1, <3>2
    <3>4. (r.takesReturnAddress <=> Len(R) > 1) /\ r.takesReturnAddress \in BOOLEAN
      BY <3>3
    <3>5. ReturnsTo(r, site)
      <4> HIDE DEF R, r, site
      <4> QED
        BY <3>1, <3>3, <3>4, ReturnFacts
    <3>6. ASSUME NEW n \in 1 .. Len(R), NEW h \in ToSet(pointers[s].targets), R[n].fn \in {h} \cup Reached(G, h) PROVE FALSE
      <4>1. h \in DOMAIN prog /\ R[n].fn \in DOMAIN prog /\ h \in Reached(G, R[n].fn)
        BY <2>2, <3>1
      <4>2. h \in Reached(G, h)
        <5>1. CASE R[n].fn = h
          BY <4>1, <5>1
        <5>2. CASE R[n].fn \in Reached(G, h)
          <6> HIDE DEF R, G
          <6> QED
            BY <1>5, <4>1, <5>2, ReachedTrans
        <5> QED
          BY <3>6, <5>1, <5>2
      <4> QED
        BY <1>5, <4>1, <4>2
    <3>7. ~sigInfo[s].couldRecurse
      BY <1>7, <3>1, <3>6
    <3> QED
      BY <3>5, <3>7
  <2>8. ASSUME addressed, b = prog[f].first
        PROVE  ~info[f].takesReturnAddress /\ Live(prog[f], b, k + 1) \cap ToSet(prog[f].params) = {}
    <3>1. ToAddress(jumpTable, prog, pointers, i)
      BY <1>12, <2>3, <2>8 DEF ToAddress
    <3> QED
      BY <1>4, <1>9, <2>8, <3>1 DEF KeepsParams
  <2> HIDE DEF rta, G
  <2>9. \A g \in c : g \in Reached(CallGraph(prog, pointers), f)
    BY <2>2 DEF G
  <2> QED
    BY <2>4, <2>5, <2>6, <2>7, <2>8, <2>9 DEF CallOK
<1>13. info[Entry].returnAddresses = << >>
  <2>1. Entry \in DOMAIN prog
    BY <1>1 DEF IsProgram
  <2> QED
    BY <1>4, <1>6, <2>1 DEF NoRecursion
<1> HIDE DEF rta, RA, SRA
<1> QED
  BY <1>1, <1>2, <1>5, <1>11, <1>12, <1>13 DEF StaticInv, Settled

-----------------------------------------------------------------------------
(* What an instruction finds of all this when the program runs.              *)

(* What the compiler knows of the program that runs.                          *)
LEMMA StaticUse ==
    ASSUME StaticInv
    PROVE  /\ IsProgram(prog) /\ SigsOK(prog, pointers) /\ Entry \in DOMAIN prog /\ prog[Entry].params = << >>
           /\ info[Entry].returnAddresses = << >>
           /\ CallGraph(prog, pointers) \in [DOMAIN prog -> SUBSET DOMAIN prog]
           /\ \A f \in DOMAIN prog : f \notin Reached(CallGraph(prog, pointers), f)
           /\ \A f \in DOMAIN prog : FunctionOK(jumpTable, prog, info, f)
           /\ \A f \in DOMAIN prog : \A b \in Label(prog[f]) : \A k \in 1 .. Size(prog[f], b) :
                 IsCall(prog[f].body[b][k]) => CallOK(prog, pointers, info, sigInfo, f, b, k)
<1>1. IsProgram(prog) /\ pointers = FnPtrSigs(prog)
  BY DEF StaticInv, Settled
<1>2. SigsOK(prog, pointers)
  BY <1>1, SigFacts
<1>3. CallGraph(prog, pointers) \in [DOMAIN prog -> SUBSET DOMAIN prog]
  BY <1>1, <1>2, CallGraphFacts
<1>4. Entry \in DOMAIN prog /\ prog[Entry].params = << >>
  BY <1>1 DEF IsProgram
<1> QED
  BY <1>1, <1>2, <1>3, <1>4 DEF StaticInv, Settled

(* What is asked of a program does not change while it runs.                  *)
LEMMA StaticUnchanged ==
    ASSUME UNCHANGED static
    PROVE  /\ prog' = prog /\ jumpTable' = jumpTable /\ pointers' = pointers /\ info' = info /\ sigInfo' = sigInfo
           /\ StaticInv' <=> StaticInv
           /\ Names' = Names
           /\ \A i : CallsAddress(i)' <=> CallsAddress(i)
           /\ \A s : Available(s)' = Available(s)
<1>1. prog' = prog /\ jumpTable' = jumpTable /\ pointers' = pointers /\ info' = info /\ sigInfo' = sigInfo
  BY DEF static
<1>2. StaticInv' <=> StaticInv
  BY <1>1 DEF StaticInv
<1>3. Names' = Names
  BY <1>1 DEF Names
<1>4. \A i : CallsAddress(i)' <=> CallsAddress(i)
  BY <1>1 DEF CallsAddress, CallInfo
<1>5. ASSUME NEW s PROVE Available(s)' = Available(s)
  <2>1. (\A j \in 1 .. s.k - 1 : ~CallsAddress(prog[s.fn].body[s.block][j]))' <=> (\A j \in 1 .. s.k - 1 : ~CallsAddress(prog[s.fn].body[s.block][j]))
    BY <1>1, <1>4
  <2> QED
    BY <1>1, <2>1 DEF Available
<1> QED
  BY <1>1, <1>2, <1>3, <1>4, <1>5

(* Every variable of the program has a Scratch variable in its function.      *)
LEMMA NamesFacts ==
    ASSUME StaticInv, NEW f \in DOMAIN prog
    PROVE  /\ \A n \in Names : n = <<n[1], n[2]>>
           /\ <<f, return_address>> \in Names /\ <<f, branch_id>> \in Names
           /\ \A x \in ToSet(prog[f].params) : <<f, x>> \in Names
           /\ \A b \in Label(prog[f]) : \A k \in 1 .. Size(prog[f], b) : <<f, prog[f].body[b][k].dst>> \in Names
<1> DEFINE X == {return_address, branch_id} \cup UNION {
                    ToSet(prog[g].params) \cup UNION {Results(prog[g], b, 1, Size(prog[g], b)) :
                                                      b \in Label(prog[g])} : g \in DOMAIN prog}
<1>1. Names = {<<g, x>> : g \in DOMAIN prog, x \in X}
  BY DEF Names
<1>2. return_address \in X /\ branch_id \in X /\ \A x \in ToSet(prog[f].params) : x \in X
  OBVIOUS
<1>3. ASSUME NEW b \in Label(prog[f]), NEW k \in 1 .. Size(prog[f], b) PROVE prog[f].body[b][k].dst \in X
  <2>1. prog[f].body[b][k].dst \in Results(prog[f], b, 1, Size(prog[f], b))
    BY DEF Results
  <2> QED
    BY <2>1
<1> HIDE DEF X
<1>4. \A x \in X : <<f, x>> \in Names
  BY <1>1
<1>5. \A n \in Names : n = <<n[1], n[2]>>
  BY <1>1
<1> QED
  BY <1>2, <1>3, <1>4, <1>5

(* A call returns to an address if a function it can call does.               *)
LEMMA AddressedFacts ==
    ASSUME StaticInv, NEW f \in DOMAIN prog, NEW b \in Label(prog[f]), NEW k \in 1 .. Size(prog[f], b),
           NEW i, i = prog[f].body[b][k]
    PROVE  /\ CallsAddress(i) => IsCall(i)
           /\ IsCall(i) => (CallsAddress(i) <=> Addressed(pointers, info, i))
           /\ CallsAddress(i) => ~jumpTable
<1>1. CallsAddress(i) => IsCall(i)
  BY DEF CallsAddress
<1>2. ASSUME IsCall(i) PROVE CallsAddress(i) <=> Addressed(pointers, info, i)
  <2>1. CallOK(prog, pointers, info, sigInfo, f, b, k)
    BY <1>2, StaticUse
  <2> QED
    BY <1>2, <2>1 DEF CallOK, CallsAddress, CallInfo
<1>3. ASSUME CallsAddress(i) PROVE ~jumpTable
  <2>1. CallOK(prog, pointers, info, sigInfo, f, b, k)
    BY <1>1, <1>3, StaticUse
  <2>2. info[f].returnsToAddress
    BY <1>1, <1>2, <1>3, <2>1 DEF CallOK
  <2> QED
    BY <2>2, StaticUse DEF FunctionOK
<1> QED
  BY <1>1, <1>2, <1>3

(* The parameters the code reads at an instruction.                           *)
LEMMA AvailableFacts ==
    ASSUME StaticInv, NEW f \in DOMAIN prog, NEW b \in Label(prog[f]), NEW k \in 1 .. Size(prog[f], b) + 1
    PROVE  LET i == prog[f].body[b][k]
               A(c, l) == Available(Site(f, c, l))
               all == ToSet(prog[f].params) \cup (IF info[f].takesReturnAddress THEN {return_address} ELSE {})
           IN  /\ A(prog[f].first, 1) = all
               /\ A(b, k) \subseteq all /\ branch_id \notin A(b, k)
               /\ b # prog[f].first /\ ~jumpTable => A(b, k) = {}
               /\ jumpTable => A(b, k) = all
               /\ k <= Size(prog[f], b) =>
                     /\ i.dst \notin A(b, k) /\ i.dst \notin A(b, k + 1)
                     /\ ~CallsAddress(i) => A(b, k + 1) = A(b, k)
                     /\ CallsAddress(i) => /\ A(b, k + 1) = {}
                                           /\ \A x \in Live(prog[f], b, k + 1) : x \in A(b, k) => x \notin ToSet(prog[f].params)
                                           /\ info[f].takesReturnAddress => A(b, k) = {}
<1> DEFINE i == prog[f].body[b][k]
           A(c, l) == Available(Site(f, c, l))
           first == prog[f].first
           all == ToSet(prog[f].params) \cup (IF info[f].takesReturnAddress THEN {return_address} ELSE {})
           Early(c, l) == c = first /\ \A j \in 1 .. l - 1 : ~CallsAddress(prog[f].body[c][j])
<1>0. Size(prog[f], b) \in Nat /\ k \in Nat
  <2>1. Size(prog[f], b) \in Nat
    BY StaticUse, FunctionFacts
  <2> QED
    BY <2>1
<1>1. \A c, l : A(c, l) = IF jumpTable \/ Early(c, l) THEN all ELSE {}
  BY DEF Available, Site
<1>2. Early(first, 1)
  <2>1. 1 .. 1 - 1 = {}
    OBVIOUS
  <2> QED
    BY <2>1
<1>3. branch_id \notin all
  <2>1. branch_id # return_address
    BY DEF branch_id, return_address
  <2> QED
    BY <2>1, StaticUse, FunctionFacts
<1>4. ASSUME k <= Size(prog[f], b) PROVE i.dst \notin all
  <2>1. k \in 1 .. Size(prog[f], b)
    BY <1>0, <1>4
  <2>2. i.dst \notin {return_address, branch_id} \cup ToSet(prog[f].params)
    BY <2>1, StaticUse, InstrFacts
  <2> QED
    BY <2>2
<1>5. Early(b, k + 1) <=> Early(b, k) /\ ~CallsAddress(i)
  <2>1. \A j : j \in 1 .. (k + 1) - 1 <=> j \in 1 .. k - 1 \/ j = k
    BY <1>0
  <2> QED
    BY <2>1
<1>6. ASSUME k <= Size(prog[f], b), CallsAddress(i)
      PROVE  /\ A(b, k + 1) = {}
             /\ \A x \in Live(prog[f], b, k + 1) : x \in A(b, k) => x \notin ToSet(prog[f].params)
             /\ info[f].takesReturnAddress => A(b, k) = {}
  <2>1. k \in 1 .. Size(prog[f], b)
    BY <1>0, <1>6
  <2>2. ~jumpTable /\ IsCall(i) /\ Addressed(pointers, info, i)
    BY <1>6, <2>1, AddressedFacts
  <2>3. CallOK(prog, pointers, info, sigInfo, f, b, k)
    BY <2>1, <2>2, StaticUse
  <2>4. b = first => ~info[f].takesReturnAddress /\ Live(prog[f], b, k + 1) \cap ToSet(prog[f].params) = {}
    BY <2>2, <2>3 DEF CallOK
  <2>5. A(b, k + 1) = {}
    BY <1>1, <1>5, <1>6, <2>2
  <2>6. b # first => A(b, k) = {}
    BY <1>1, <2>2
  <2> HIDE DEF A, first
  <2> QED
    BY <2>4, <2>5, <2>6
<1>7. A(first, 1) = all /\ A(b, k) \subseteq all /\ branch_id \notin A(b, k) /\ (jumpTable => A(b, k) = all)
  <2> HIDE DEF Early, all, A
  <2> QED
    BY <1>1, <1>2, <1>3
<1>8. b # first /\ ~jumpTable => A(b, k) = {}
  <2> HIDE DEF all, A
  <2> QED
    BY <1>1
<1>9. k <= Size(prog[f], b) => i.dst \notin A(b, k) /\ i.dst \notin A(b, k + 1)
  <2> HIDE DEF all, A, i, Early
  <2> QED
    BY <1>1, <1>4
<1>10. ASSUME k <= Size(prog[f], b), ~CallsAddress(i) PROVE A(b, k + 1) = A(b, k)
  <2> HIDE DEF all, A, i, Early
  <2> QED
    BY <1>1, <1>5, <1>10
<1> HIDE DEF Early
<1> QED
  BY <1>6, <1>7, <1>8, <1>9, <1>10

(* An instruction's result is no parameter, and an instruction that calls no  *)
(* address leaves the parameters.                                             *)
LEMMA AvailableAfter ==
    ASSUME StaticInv, NEW f \in DOMAIN prog, NEW b \in Label(prog[f]),
           NEW k \in 1 .. Size(prog[f], b) + 1, k <= Size(prog[f], b)
    PROVE  /\ prog[f].body[b][k].dst \notin Available(Site(f, b, k + 1))
           /\ ~CallsAddress(prog[f].body[b][k]) => Available(Site(f, b, k + 1)) = Available(Site(f, b, k))
BY AvailableFacts

-----------------------------------------------------------------------------
(* Values, sequences, and calls that wait.                                   *)

\* A sequence, whatever is in it.
IsSeq(s) == s \in Seq(ToSet(s))

(* The length and the domain of a sequence.                                   *)
LEMMA SeqFacts ==
    ASSUME NEW s
    PROVE  /\ IsSeq(s) => Len(s) \in Nat /\ DOMAIN s = 1 .. Len(s) /\ (s = << >> <=> Len(s) = 0)
           /\ \A S : s \in Seq(S) => IsSeq(s)
<1>1. IsSeq(s) => Len(s) \in Nat /\ DOMAIN s = 1 .. Len(s) /\ (s = << >> <=> Len(s) = 0)
  <2> DEFINE S == ToSet(s)
  <2> SUFFICES ASSUME s \in Seq(S) PROVE Len(s) \in Nat /\ DOMAIN s = 1 .. Len(s) /\ (s = << >> <=> Len(s) = 0)
    BY DEF IsSeq
  <2> HIDE DEF S
  <2> QED
    OBVIOUS
<1>2. ASSUME NEW S, s \in Seq(S) PROVE IsSeq(s)
  <2>1. Len(s) \in Nat /\ s \in [1 .. Len(s) -> S] /\ DOMAIN s = 1 .. Len(s)
    BY <1>2
  <2>2. \A i \in 1 .. Len(s) : s[i] \in ToSet(s)
    BY <2>1 DEF ToSet
  <2> DEFINE T == ToSet(s)
  <2> HIDE DEF T
  <2>3. s \in [1 .. Len(s) -> T]
    BY <2>1, <2>2 DEF T
  <2>4. s \in Seq(T)
    BY <2>1, <2>3
  <2> QED
    BY <2>4 DEF IsSeq, T
<1> QED
  BY <1>1, <1>2

(* A sequence with a member more.                                             *)
LEMMA AppendFacts ==
    ASSUME NEW q, IsSeq(q), NEW x
    PROVE  /\ Len(q) \in Nat /\ IsSeq(Append(q, x)) /\ Len(Append(q, x)) = Len(q) + 1
           /\ Append(q, x)[Len(q) + 1] = x /\ \A i \in 1 .. Len(q) : Append(q, x)[i] = q[i]
<1> DEFINE S == ToSet(q) \cup {x}
<1>1. q \in Seq(S)
  <2> DEFINE T == ToSet(q)
  <2>1. q \in Seq(T) /\ T \subseteq S
    BY DEF IsSeq
  <2> HIDE DEF S, T
  <2> QED
    BY <2>1
<1>2. x \in S
  OBVIOUS
<1> HIDE DEF S
<1>3. Append(q, x) \in Seq(S)
  BY <1>1, <1>2
<1>4. /\ Len(q) \in Nat /\ Len(Append(q, x)) = Len(q) + 1
      /\ Append(q, x)[Len(q) + 1] = x /\ \A i \in 1 .. Len(q) : Append(q, x)[i] = q[i]
  BY <1>1, <1>2
<1> QED
  BY <1>3, <1>4, SeqFacts

(* A sequence without its last member.                                        *)
LEMMA FrontIsSeq ==
    ASSUME NEW s, IsSeq(s), Len(s) >= 1
    PROVE  /\ IsSeq(Front(s)) /\ Len(Front(s)) = Len(s) - 1
           /\ \A i \in 1 .. Len(s) - 1 : Front(s)[i] = s[i]
<1>1. PICK S : S = ToSet(s)
  OBVIOUS
<1>2. s \in Seq(S) /\ Len(s) > 0
  <2>1. s \in Seq(S)
    BY <1>1 DEF IsSeq
  <2> QED
    BY <2>1
<1>3. /\ Front(s) \in Seq(S) /\ Len(Front(s)) = Len(s) - 1
      /\ \A i \in 1 .. Len(s) - 1 : Front(s)[i] = s[i]
  BY <1>2, FrontFacts
<1> QED
  BY <1>3, SeqFacts

(* A call in progress that goes on waiting keeps its values, if its parameters *)
(* and its Scratch variables stay what they are.                              *)
LEMMA Waiting ==
    ASSUME UNCHANGED static, NEW i, acts'[i] = acts[i], i # Depth, i # Depth', Kept(i)' = Kept(i),
           \A x : <<acts[i].fn, x>> \in Names => glob'[<<acts[i].fn, x>>] = glob[<<acts[i].fn, x>>]
    PROVE  /\ Instr(i)' = Instr(i) /\ SiteOf(i)' = SiteOf(i) /\ LiveOf(i)' = LiveOf(i)
           /\ \A x : <<acts[i].fn, x>> \in Names => Where(i, x)' = Where(i, x)
<1>1. prog' = prog /\ \A s : Available(s)' = Available(s)
  BY StaticUnchanged
<1>2. Instr(i)' = Instr(i) /\ SiteOf(i)' = SiteOf(i)
  BY <1>1 DEF Instr, SiteOf
<1>3. LiveOf(i)' = LiveOf(i)
  <2>1. LiveOf(i) = Live(prog[acts[i].fn], acts[i].block, acts[i].k + 1) \ {Instr(i).dst}
    BY DEF LiveOf
  <2>2. LiveOf(i)' = Live(prog'[acts'[i].fn], acts'[i].block, acts'[i].k + 1) \ {Instr(i)'.dst}
    BY DEF LiveOf
  <2> QED
    BY <1>1, <1>2, <2>1, <2>2
<1>4. ASSUME NEW x, <<acts[i].fn, x>> \in Names PROVE Where(i, x)' = Where(i, x)
  <2>1. Available(SiteOf(i))' = Available(SiteOf(i))
    <3>1. PICK c : c = SiteOf(i)
      OBVIOUS
    <3>2. c = SiteOf(i)'
      BY <1>2, <3>1
    <3>3. Available(c)' = Available(c)
      BY <1>1
    <3>4. Available(SiteOf(i)) = Available(c)
      BY <3>1
    <3>5. Available(SiteOf(i))' = Available(c)'
      BY <3>2 DEF Available
    <3> QED
      BY <3>3, <3>4, <3>5
  <2>2. Where(i, x) = IF x \in Available(SiteOf(i)) THEN GetParam(Kept(i), x) ELSE glob[<<acts[i].fn, x>>]
    BY DEF Where, ParamsOf
  <2>3. Where(i, x)' = IF x \in Available(SiteOf(i))' THEN GetParam(Kept(i)', x) ELSE glob'[<<acts'[i].fn, x>>]
    BY DEF Where, ParamsOf, GetParam
  <2>4. glob'[<<acts[i].fn, x>>] = glob[<<acts[i].fn, x>>]
    BY <1>4
  <2> QED
    BY <2>1, <2>2, <2>3, <2>4
<1> QED
  BY <1>2, <1>3, <1>4

-----------------------------------------------------------------------------
(* The start, and the steps inside a function.                               *)

(* The entry point starts.                                                    *)
LEMMA InitInv ==
    ASSUME Init, Covered(jumpTable, prog)
    PROVE  IInv
<1>1. StaticInv
  BY InitSettled
<1> DEFINE e == [x \in {} |-> 0]
           first == prog[Entry].first
<1>2. acts = <<[fn |-> Entry, block |-> first, k |-> 1, env |-> e]>>
  BY DEF Init, Act
<1>3. /\ at = Site(Entry, first, 1) /\ params = NoParams /\ conts = << >> /\ glob = [n \in Names |-> 0]
      /\ sigReturn = [s \in DOMAIN pointers |-> 0] /\ retVar = 0 /\ localStack = << >>
  BY DEF Init
<1>4. /\ IsProgram(prog) /\ Entry \in DOMAIN prog /\ prog[Entry].params = << >>
      /\ first \in Label(prog[Entry]) /\ Size(prog[Entry], first) \in Nat
  BY <1>1, StaticUse, FunctionFacts
<1>5. DOMAIN e = {}
  OBVIOUS
<1> HIDE DEF first, e
<1>6. /\ Depth = 1 /\ acts[1].fn = Entry /\ acts[1].block = first /\ acts[1].k = 1 /\ acts[1].env = e
      /\ acts[1] = [fn |-> Entry, block |-> first, k |-> 1, env |-> e]
  BY <1>2 DEF Depth
<1>7. FrameOK(prog, Names, acts[1])
  BY <1>4, <1>5, <1>6 DEF FrameOK
<1>8. IsSeq(acts)
  <2> DEFINE a == [fn |-> Entry, block |-> first, k |-> 1, env |-> e]
  <2>1. acts \in Seq({a})
    <3> HIDE DEF a
    <3>1. acts = <<a>>
      BY <1>2 DEF a
    <3> QED
      BY <3>1
  <2> QED
    BY <2>1, SeqFacts
<1>9. FramesInv
  BY <1>6, <1>7, <1>8 DEF FramesInv, IsSeq
<1>10. ContsInv
  <2>1. IsSeq(conts) /\ Len(conts) = 0
    <3>1. << >> \in Seq({})
      OBVIOUS
    <3> QED
      BY <1>3, <3>1, SeqFacts
  <2> QED
    BY <1>6, <2>1 DEF ContsInv, IsSeq
<1>11. ValuesInv
  <2>1. LiveOf(1) = Live(prog[Entry], first, 1)
    BY <1>6 DEF LiveOf
  <2>2. Live(prog[Entry], first, 1) \subseteq ToSet(prog[Entry].params)
    <3>1. 1 \in 1 .. Size(prog[Entry], first) + 1
      BY <1>4
    <3> QED
      BY <1>4, <3>1, LiveFacts DEF first
  <2>3. ToSet(prog[Entry].params) = {}
    BY <1>4 DEF ToSet
  <2>4. LiveOf(1) = {}
    BY <2>1, <2>2, <2>3
  <2> QED
    BY <1>6, <2>4 DEF ValuesInv
<1>12. AddressInv
  BY <1>6 DEF AddressInv
<1>13. NumbersInv
  BY <1>3 DEF NumbersInv, NoParams
<1>14. at = Position
  <2>1. acts # << >> /\ act = acts[1]
    BY <1>2, <1>6 DEF Last, Depth, act
  <2> QED
    BY <1>3, <1>6, <2>1 DEF Position
<1> QED
  BY <1>1, <1>3, <1>9, <1>10, <1>11, <1>12, <1>13, <1>14 DEF IInv

(* Where the project is.                                                      *)
LEMMA PositionFacts ==
    ASSUME IInv, InStep
    PROVE  /\ Depth \in Nat /\ Depth >= 1 /\ act = acts[Depth] /\ DOMAIN acts = 1 .. Depth
           /\ at = Site(act.fn, act.block, act.k) /\ at = SiteOf(Depth)
           /\ at.fn = act.fn /\ at.block = act.block /\ at.k = act.k
           /\ FrameOK(prog, Names, act) /\ fn = prog[act.fn] /\ instr = Instr(Depth)
           /\ act.fn \in DOMAIN prog /\ act.block \in Label(fn) /\ act.k \in 1 .. Size(fn, act.block) + 1
           /\ fn = prog[at.fn]
<1>1. at = Position /\ at # Stopped /\ IsSeq(acts)
  BY DEF IInv, InStep, FramesInv, IsSeq
<1>2. acts # << >>
  BY <1>1 DEF Position
<1>3. Depth \in Nat /\ Depth >= 1 /\ DOMAIN acts = 1 .. Depth
  BY <1>1, <1>2, SeqFacts DEF Depth
<1>4. act = acts[Depth]
  BY DEF act, Last, Depth
<1>5. at = Site(act.fn, act.block, act.k)
  BY <1>1, <1>2 DEF Position
<1>6. at.fn = act.fn /\ at.block = act.block /\ at.k = act.k
  BY <1>5 DEF Site
<1>7. FrameOK(prog, Names, act)
  BY <1>3, <1>4 DEF IInv, FramesInv
<1>8. fn = prog[act.fn] /\ instr = Instr(Depth) /\ at = SiteOf(Depth)
  BY <1>4, <1>5, <1>6 DEF fn, instr, Instr, SiteOf
<1> QED
  BY <1>3, <1>4, <1>5, <1>6, <1>7, <1>8 DEF FrameOK, fn

(* A step inside a function: the last call in progress goes on to another     *)
(* place with other values, and no other function's variables change.         *)
LEMMA LocalStep ==
    ASSUME IInv, InStep, UNCHANGED <<static, conts, sigReturn, retVar, localStack>>,
           NEW a, FrameOK(prog, Names, a), a.fn = act.fn, acts' = [acts EXCEPT ![Depth] = a],
           at' = Site(a.fn, a.block, a.k), glob' \in [Names -> Nat],
           \A n \in Names : n[1] # a.fn => glob'[n] = glob[n],
           \A n \in DOMAIN params' : params'[n] \in Nat,
           \A x \in Live(prog[a.fn], a.block, a.k) :
               /\ x \in DOMAIN a.env
               /\ (IF x \in Available(Site(a.fn, a.block, a.k)) THEN GetParam(params', x) ELSE glob'[<<a.fn, x>>])
                      = Translated(pointers, a.env[x]),
           info[a.fn].takesReturnAddress =>
               (IF return_address \in Available(Site(a.fn, a.block, a.k)) THEN GetParam(params', return_address)
                ELSE glob'[<<a.fn, return_address>>]) = Where(Depth, return_address)
    PROVE  IInv'
<1>1. /\ Depth \in Nat /\ Depth >= 1 /\ act = acts[Depth] /\ DOMAIN acts = 1 .. Depth /\ FrameOK(prog, Names, act)
      /\ act.fn \in DOMAIN prog
  BY PositionFacts
<1>2. /\ UNCHANGED static /\ conts' = conts /\ sigReturn' = sigReturn /\ retVar' = retVar /\ localStack' = localStack
  OBVIOUS
<1>3. /\ prog' = prog /\ jumpTable' = jumpTable /\ pointers' = pointers /\ info' = info /\ sigInfo' = sigInfo
      /\ (StaticInv' <=> StaticInv) /\ Names' = Names
      /\ \A i : CallsAddress(i)' <=> CallsAddress(i)
      /\ \A s : Available(s)' = Available(s)
  BY <1>2, StaticUnchanged
<1>4. /\ StaticInv /\ FramesInv /\ ContsInv /\ ValuesInv /\ AddressInv /\ NumbersInv /\ localStack = << >>
  BY DEF IInv
<1>5. IsSeq(acts)
  BY <1>4 DEF FramesInv, IsSeq
<1>6. /\ IsSeq(acts') /\ Depth' = Depth /\ acts'[Depth] = a
      /\ \A i \in 1 .. Depth - 1 : acts'[i] = acts[i] /\ i \in 1 .. Depth /\ i + 1 \in 1 .. Depth
  <2> DEFINE S == ToSet(acts) \cup {a}
             s == acts
             n == Len(s)
             t == [s EXCEPT ![n] = a]
  <2>1. s \in Seq(S)
    <3>1. s \in Seq(ToSet(s))
      BY <1>5 DEF IsSeq
    <3>2. ToSet(s) \subseteq S
      OBVIOUS
    <3> HIDE DEF S, s
    <3> QED
      BY <3>1, <3>2
  <2>2. a \in S /\ n \in Nat /\ n >= 1 /\ Depth = n
    BY <1>1 DEF Depth
  <2> HIDE DEF S, s
  <2>3. t \in Seq(S) /\ Len(t) = n /\ t[n] = a /\ \A i \in 1 .. n - 1 : t[i] = s[i]
    BY <2>1, <2>2
  <2>4. acts' = t
    BY <2>2 DEF s
  <2> HIDE DEF t, n
  <2>5. IsSeq(t)
    BY <2>3, SeqFacts
  <2>6. Depth' = n
    BY <2>3, <2>4 DEF Depth
  <2>7. \A i \in 1 .. n - 1 : i \in 1 .. n /\ i + 1 \in 1 .. n
    BY <2>2
  <2> QED
    BY <2>2, <2>3, <2>4, <2>5, <2>6, <2>7 DEF s
<1>7. ASSUME NEW i \in 1 .. Depth PROVE acts'[i].fn = acts[i].fn
  <2>1. i \in 1 .. Depth - 1 \/ i = Depth
    BY <1>1
  <2> QED
    BY <1>1, <1>6, <2>1
<1>8. Base' = Base
  BY <1>2, <1>6 DEF Base
<1>9. ASSUME NEW i \in 1 .. Depth - 1
      PROVE  /\ Instr(i)' = Instr(i) /\ SiteOf(i)' = SiteOf(i) /\ LiveOf(i)' = LiveOf(i)
             /\ \A x : <<acts[i].fn, x>> \in Names => Where(i, x)' = Where(i, x)
             /\ i # Depth /\ acts'[i] = acts[i] /\ i \in 1 .. Depth /\ acts[i].fn \in DOMAIN prog
  <2>1. acts'[i] = acts[i] /\ i \in 1 .. Depth /\ i # Depth /\ i # Depth' /\ i < Depth
    BY <1>1, <1>6
  <2>2. acts[i].fn # a.fn
    <3>1. acts[Depth].fn \in Reached(CallGraph(prog, pointers), acts[i].fn)
      BY <1>1, <1>4, <2>1 DEF FramesInv
    <3>2. act.fn \notin Reached(CallGraph(prog, pointers), act.fn)
      BY <1>1, <1>4, StaticUse
    <3> QED
      BY <1>1, <3>1, <3>2
  <2>3. Instr(i)' = Instr(i)
    BY <1>3, <2>1 DEF Instr
  <2>4. Kept(i)' = Kept(i)
    BY <1>2, <1>3, <1>8, <2>3 DEF Kept, CallsAddress, CallInfo, NoParams
  <2>5. \A x : <<acts[i].fn, x>> \in Names => glob'[<<acts[i].fn, x>>] = glob[<<acts[i].fn, x>>]
    <3>1. \A x : <<acts[i].fn, x>>[1] = acts[i].fn
      OBVIOUS
    <3> QED
      BY <2>2, <3>1
  <2>6. acts[i].fn \in DOMAIN prog
    BY <1>4, <2>1 DEF FramesInv, FrameOK
  <2> QED
    BY <1>2, <2>1, <2>4, <2>5, <2>6, Waiting
<1>10. FramesInv'
  <2>1. IsSeq(acts')
    BY <1>6
  <2>2. \A i \in 1 .. Depth : FrameOK(prog', Names', acts'[i])
    <3>0. prog' = prog /\ Names' = Names
      BY <1>3
    <3> SUFFICES ASSUME NEW i \in 1 .. Depth PROVE FrameOK(prog, Names, acts'[i])
      BY <3>0
    <3>1. CASE i = Depth
      BY <1>6, <3>1
    <3>2. CASE i # Depth
      <4>1. i \in 1 .. Depth - 1
        BY <1>1, <3>2
      <4> QED
        BY <1>4, <1>9, <4>1 DEF FramesInv
    <3> QED
      BY <3>1, <3>2
  <2>3. acts'[1].fn = Entry
    BY <1>1, <1>4, <1>7 DEF FramesInv
  <2>4. ASSUME NEW i \in 1 .. Depth - 1
        PROVE  /\ acts'[i].k <= Size(prog'[acts'[i].fn], acts'[i].block)
               /\ IsCall(Instr(i)') /\ acts'[i + 1].fn \in ToSet(CouldCall(pointers', Instr(i)'))
    <3>1. /\ acts[i].k <= Size(prog[acts[i].fn], acts[i].block)
          /\ IsCall(Instr(i)) /\ acts[i + 1].fn \in ToSet(CouldCall(pointers, Instr(i)))
      BY <1>4 DEF FramesInv
    <3>2. acts'[i + 1].fn = acts[i + 1].fn
      BY <1>6, <1>7
    <3> QED
      BY <1>3, <1>9, <3>1, <3>2
  <2>5. ASSUME NEW i \in 1 .. Depth, NEW j \in 1 .. Depth, i < j
        PROVE  acts'[j].fn \in Reached(CallGraph(prog', pointers'), acts'[i].fn)
    BY <1>3, <1>4, <1>7, <2>5 DEF FramesInv
  <2> QED
    BY <1>6, <2>1, <2>2, <2>3, <2>4, <2>5 DEF FramesInv, IsSeq
<1>11. ContsInv'
  <2>1. ASSUME NEW i \in 2 .. Depth
        PROVE  /\ info'[acts'[i].fn].returnsToAddress <=> i <= Base'
               /\ i > Base' => IF CallsAddress(Instr(i - 1))'
                               THEN conts'[i - Base'] = [at |-> From(i)', params |-> NoParams]
                               ELSE conts'[i - Base'].at = SiteOf(i - 1)'
    <3>1. i - 1 \in 1 .. Depth - 1 /\ i \in 1 .. Depth
      BY <1>1
    <3>2. Instr(i - 1)' = Instr(i - 1) /\ SiteOf(i - 1)' = SiteOf(i - 1)
      BY <1>9, <3>1
    <3>3. From(i)' = From(i)
      BY <1>3, <3>2 DEF From
    <3>4. CallsAddress(Instr(i - 1))' <=> CallsAddress(Instr(i - 1))
      BY <1>3, <3>2 DEF CallsAddress, CallInfo
    <3>5. /\ info[acts[i].fn].returnsToAddress <=> i <= Base
          /\ i > Base => IF CallsAddress(Instr(i - 1)) THEN conts[i - Base] = [at |-> From(i), params |-> NoParams]
                         ELSE conts[i - Base].at = SiteOf(i - 1)
      BY <1>4 DEF ContsInv
    <3> QED
      BY <1>2, <1>3, <1>7, <1>8, <3>1, <3>2, <3>3, <3>4, <3>5
  <2>2. NoParams' = NoParams
    BY DEF NoParams
  <2>3. /\ conts' \in Seq(ToSet(conts')) /\ (Depth' = 0 => conts' = << >>) /\ (Depth' > 0 => Len(conts') < Depth')
    BY <1>2, <1>4, <1>6 DEF ContsInv
  <2> QED
    BY <1>6, <2>1, <2>2, <2>3 DEF ContsInv
<1> DEFINE here == Site(a.fn, a.block, a.k)
<1>12. ASSUME NEW i, i = Depth, NEW x
       PROVE  Where(i, x)' = IF x \in Available(here) THEN GetParam(params', x) ELSE glob'[<<a.fn, x>>]
  <2>0. i = Depth' /\ acts'[i] = a
    BY <1>6, <1>12
  <2>1. Where(i, x)' = IF x \in Available(SiteOf(i))' THEN GetParam(params', x) ELSE glob'[<<a.fn, x>>]
    BY <2>0 DEF Where, ParamsOf, GetParam
  <2>2. PICK c : c = here
    OBVIOUS
  <2>3. SiteOf(i)' = c
    BY <2>0, <2>2 DEF SiteOf
  <2>4. Available(SiteOf(i))' = Available(c)'
    BY <2>3 DEF Available
  <2>5. Available(c)' = Available(c)
    BY <1>3
  <2> QED
    BY <2>1, <2>2, <2>4, <2>5
<1>13. ValuesInv'
  <2> SUFFICES ASSUME NEW i \in 1 .. Depth, NEW x \in LiveOf(i)'
               PROVE  x \in DOMAIN acts'[i].env /\ Where(i, x)' = Translated(pointers', acts'[i].env[x])
    BY <1>6 DEF ValuesInv
  <2>0. pointers' = pointers
    BY <1>3
  <2>1. CASE i = Depth
    <3>0. i = Depth' /\ acts'[i] = a
      BY <1>6, <2>1
    <3>1. LiveOf(i)' = Live(prog[a.fn], a.block, a.k)
      BY <1>3, <3>0 DEF LiveOf
    <3>2. /\ x \in DOMAIN a.env
          /\ (IF x \in Available(here) THEN GetParam(params', x) ELSE glob'[<<a.fn, x>>]) = Translated(pointers, a.env[x])
      BY <3>1
    <3>3. Where(i, x)' = Translated(pointers, a.env[x])
      BY <1>12, <2>1, <3>2
    <3> QED
      BY <2>0, <3>0, <3>2, <3>3
  <2>2. CASE i # Depth
    <3>0. i \in 1 .. Depth - 1
      BY <1>1, <2>2
    <3>1. x \in LiveOf(i) /\ acts'[i] = acts[i]
      BY <1>9, <3>0
    <3>2. x \in DOMAIN acts[i].env /\ Where(i, x) = Translated(pointers, acts[i].env[x])
      BY <1>4, <3>1 DEF ValuesInv
    <3>3. <<acts[i].fn, x>> \in Names
      BY <1>4, <3>2 DEF FramesInv, FrameOK
    <3>4. Where(i, x)' = Where(i, x)
      BY <1>9, <3>0, <3>3
    <3> QED
      BY <2>0, <3>1, <3>2, <3>4
  <2> QED
    BY <2>1, <2>2
<1>14. AddressInv'
  <2>1. ASSUME NEW i \in 2 .. Depth, info'[acts'[i].fn].takesReturnAddress
        PROVE  Where(i, return_address)' = Numbered(info'[acts'[i].fn].returnAddresses, From(i)') - 1
    <3>1. i - 1 \in 1 .. Depth - 1 /\ i \in 1 .. Depth
      BY <1>1
    <3>2. Instr(i - 1)' = Instr(i - 1) /\ SiteOf(i - 1)' = SiteOf(i - 1)
      BY <1>9, <3>1
    <3>3. From(i)' = From(i)
      BY <1>3, <3>2 DEF From
    <3>4. acts'[i].fn = acts[i].fn
      BY <1>7, <3>1
    <3>5. Where(i, return_address) = Numbered(info[acts[i].fn].returnAddresses, From(i)) - 1
      BY <1>3, <1>4, <2>1, <3>4 DEF AddressInv
    <3>6. Where(i, return_address)' = Where(i, return_address)
      <4>1. CASE i = Depth
        <5>0. info' = info /\ acts'[i] = a
          BY <1>3, <1>6, <4>1
        <5>1. info[a.fn].takesReturnAddress
          BY <2>1, <5>0
        <5>2. (IF return_address \in Available(here) THEN GetParam(params', return_address)
                 ELSE glob'[<<a.fn, return_address>>]) = Where(i, return_address)
          BY <4>1, <5>1
        <5> QED
          BY <1>12, <4>1, <5>2
      <4>2. CASE i # Depth
        <5>1. i \in 1 .. Depth - 1
          BY <1>1, <4>2
        <5>2. <<acts[i].fn, return_address>> \in Names
          BY <1>4, <1>9, <5>1, NamesFacts
        <5> QED
          BY <1>9, <5>1, <5>2
      <4> QED
        BY <4>1, <4>2
    <3> QED
      BY <1>3, <3>3, <3>4, <3>5, <3>6
  <2>2. ASSUME NEW i \in 1 .. Depth - 1, CallsAddress(Instr(i))', Dispatched(pointers', Instr(i)')
        PROVE  LET s == SignatureOf(pointers', Instr(i)')
               IN  sigInfo'[s].takesReturnAddress => sigReturn'[s] = Numbered(sigInfo'[s].returnAddresses, SiteOf(i)') - 1
    <3>1. Instr(i)' = Instr(i) /\ SiteOf(i)' = SiteOf(i)
      BY <1>9
    <3>2. CallsAddress(Instr(i))' <=> CallsAddress(Instr(i))
      BY <1>3, <3>1 DEF CallsAddress, CallInfo
    <3> QED
      BY <1>2, <1>3, <1>4, <2>2, <3>1, <3>2 DEF AddressInv
  <2>3. Depth' = Depth
    BY <1>6
  <2>4. \A i \in 2 .. Depth' : info'[acts'[i].fn].takesReturnAddress =>
            Where(i, return_address)' = Numbered(info'[acts'[i].fn].returnAddresses, From(i)') - 1
    BY <2>1, <2>3
  <2>5. \A i \in 1 .. Depth' - 1 : CallsAddress(Instr(i))' /\ Dispatched(pointers', Instr(i)') =>
            LET s == SignatureOf(pointers', Instr(i)')
            IN  sigInfo'[s].takesReturnAddress => sigReturn'[s] = Numbered(sigInfo'[s].returnAddresses, SiteOf(i)') - 1
    BY <2>2, <2>3
  <2> QED
    BY <2>4, <2>5 DEF AddressInv
<1>15. NumbersInv'
  BY <1>2, <1>3, <1>4 DEF NumbersInv
<1>16. at' = Position'
  <2>1. acts' # << >> /\ Last(acts') = a
    <3>1. Len(acts') = Depth
      BY <1>6 DEF Depth
    <3>2. acts' # << >>
      BY <1>1, <1>6, <3>1, SeqFacts
    <3> QED
      BY <1>6, <3>1, <3>2 DEF Last
  <2>2. Position' = here
    BY <2>1 DEF Position, act
  <2> QED
    BY <2>2
<1> QED
  BY <1>2, <1>3, <1>4, <1>10, <1>11, <1>13, <1>14, <1>15, <1>16 DEF IInv

(* A call in progress at another place.                                       *)
LEMMA ActFacts ==
    ASSUME NEW a, a = [fn |-> a.fn, block |-> a.block, k |-> a.k, env |-> a.env], NEW x, NEW y
    PROVE  /\ [a EXCEPT !.k = x, !.env = y] = [fn |-> a.fn, block |-> a.block, k |-> x, env |-> y]
           /\ [a EXCEPT !.block = x, !.k = y] = [fn |-> a.fn, block |-> x, k |-> y, env |-> a.env]
<1>1. [a EXCEPT !.k = x, !.env = y] \in [fn : {a.fn}, block : {a.block}, k : {x}, env : {y}]
  OBVIOUS
<1>2. [a EXCEPT !.block = x, !.k = y] \in [fn : {a.fn}, block : {x}, k : {y}, env : {a.env}]
  OBVIOUS
<1>3. \A f, b, k, e : \A q \in [fn : {f}, block : {b}, k : {k}, env : {e}] : q = [fn |-> f, block |-> b, k |-> k, env |-> e]
  OBVIOUS
<1> QED
  BY ONLY <1>1, <1>2, <1>3

(* What an instruction reads in the project is what it reads in the program.  *)
LEMMA ReadFacts ==
    ASSUME IInv, InStep
    PROVE  /\ \A x : Read(x) = Where(Depth, x)
           /\ \A x \in Live(fn, at.block, at.k) : x \in DOMAIN act.env /\ Read(x) = Translated(pointers, act.env[x])
           /\ Uses(fn, at.block, at.k) \subseteq Live(fn, at.block, at.k)
<1>1. /\ Depth \in Nat /\ Depth >= 1 /\ act = acts[Depth] /\ at.fn = act.fn /\ at.block = act.block /\ at.k = act.k
      /\ fn = prog[act.fn] /\ at = SiteOf(Depth) /\ act.fn \in DOMAIN prog /\ act.block \in Label(fn)
      /\ act.k \in 1 .. Size(fn, act.block) + 1
  BY PositionFacts
<1>2. \A x : Read(x) = Where(Depth, x)
  BY <1>1 DEF Read, Value, Where, ParamsOf
<1>3. LiveOf(Depth) = Live(fn, at.block, at.k)
  BY <1>1 DEF LiveOf
<1>4. \A x \in LiveOf(Depth) : x \in DOMAIN act.env /\ Where(Depth, x) = Translated(pointers, act.env[x])
  BY <1>1 DEF IInv, ValuesInv
<1>5. IsProgram(prog)
  BY StaticUse DEF IInv
<1> QED
  BY <1>1, <1>2, <1>3, <1>4, <1>5, LiveFacts

(* The address of a function is a number.                                     *)
LEMMA TranslatedFacts ==
    ASSUME StaticInv, NEW f \in DOMAIN prog, NEW b \in Label(prog[f]), NEW k \in 1 .. Size(prog[f], b),
           NEW i, i = prog[f].body[b][k], i.op = "op", NEW v \in i.vals
    PROVE  Translated(pointers, v) \in Nat
<1>1. IsProgram(prog) /\ SigsOK(prog, pointers)
  BY StaticUse
<1>2. IsInstruction(prog, i) /\ i.refs \subseteq Refs(prog)
  BY <1>1, InstrFacts
<1>3. v \in Nat /\ {g \in DOMAIN Pointer : Pointer[g] \in i.vals} \subseteq i.refs
  BY <1>2 DEF IsInstruction
<1>4. CASE v \in Range(Pointer)
  <2> DEFINE g == CHOOSE g \in DOMAIN Pointer : Pointer[g] = v
  <2>1. \E h \in DOMAIN Pointer : Pointer[h] = v
    BY <1>4 DEF Range
  <2>2. g \in DOMAIN Pointer /\ Pointer[g] = v
    BY <2>1
  <2>3. Translated(pointers, v) = FuncPtrAddr(pointers, g)
    BY <1>4 DEF Translated
  <2> HIDE DEF g
  <2>4. g \in Refs(prog)
    BY <1>2, <1>3, <2>2
  <2>5. PICK s \in DOMAIN pointers : pointers[s].params = Len(prog[g].params)
    BY <1>1, <2>4 DEF SigsOK
  <2>6. g \in Sharing(prog, pointers[s].params)
    BY <2>4, <2>5 DEF Sharing
  <2>7. FuncPtrAddr(pointers, g) \in Nat
    BY <1>1, <2>5, <2>6, DispatchFinds
  <2> QED
    BY <2>3, <2>7
<1>5. CASE v \notin Range(Pointer)
  BY <1>3, <1>5 DEF Translated
<1> QED
  BY <1>4, <1>5

(* An instruction that is not a call sets a variable, here and there.         *)
LEMMA DoOpStep ==
    ASSUME IInv, DoOp
    PROVE  IInv'
<1>1. InStep /\ at.k <= Size(fn, at.block) /\ instr.op = "op"
  BY DEF DoOp
<1>2. PICK v \in instr.vals :
          /\ acts' = [acts EXCEPT ![Len(acts)] = [act EXCEPT !.k = @ + 1, !.env = Set(@, instr.dst, v)]]
          /\ glob' = [glob EXCEPT ![<<at.fn, instr.dst>>] = Translated(pointers, v)]
  BY DEF DoOp, SetAct
<1>3. /\ at' = [at EXCEPT !.k = @ + 1] /\ params' = params
      /\ UNCHANGED <<static, conts, sigReturn, retVar, localStack>>
  BY DEF DoOp
<1> DEFINE f == act.fn
           b == act.block
           k == act.k
           e == act.env
           i == instr
           x0 == i.dst
           a == [fn |-> f, block |-> b, k |-> k + 1, env |-> Set(e, x0, v)]
<1>4. /\ Depth \in Nat /\ Depth >= 1 /\ act = acts[Depth] /\ at = Site(f, b, k)
      /\ at.fn = f /\ at.block = b /\ at.k = k /\ FrameOK(prog, Names, act) /\ fn = prog[f] /\ i = Instr(Depth)
      /\ f \in DOMAIN prog /\ b \in Label(prog[f]) /\ k \in 1 .. Size(prog[f], b) + 1
  BY <1>1, PositionFacts
<1>5. act = [fn |-> f, block |-> b, k |-> k, env |-> e] /\ \A x \in DOMAIN e : <<f, x>> \in Names /\ x \notin {return_address, branch_id}
  BY <1>4 DEF FrameOK
<1>6. StaticInv /\ IsProgram(prog) /\ glob \in [Names -> Nat] /\ \A n \in DOMAIN params : params[n] \in Nat
  BY StaticUse DEF IInv, NumbersInv
<1>7. Size(prog[f], b) \in Nat /\ k \in 1 .. Size(prog[f], b) /\ k + 1 \in 1 .. Size(prog[f], b) + 1
  <2>1. Size(prog[f], b) \in Nat
    <3>1. IsProgram(prog) /\ f \in DOMAIN prog /\ b \in Label(prog[f])
      BY <1>4, <1>6
    <3> HIDE DEF f, b
    <3> QED
      BY <3>1, FunctionFacts
  <2>2. k <= Size(prog[f], b)
    BY <1>1, <1>4
  <2>3. k \in 1 .. Size(prog[f], b) + 1
    BY <1>4
  <2> HIDE DEF f, b, k
  <2> QED
    BY <2>1, <2>2, <2>3
<1>8. /\ StaticInv /\ IsProgram(prog) /\ f \in DOMAIN prog /\ b \in Label(prog[f])
      /\ k \in 1 .. Size(prog[f], b) /\ k \in 1 .. Size(prog[f], b) + 1 /\ k <= Size(prog[f], b)
      /\ i = prog[f].body[b][k]
  <2>1. i = prog[f].body[b][k] /\ k <= Size(prog[f], b)
    BY <1>1, <1>4 DEF instr
  <2> QED
    BY <1>4, <1>6, <1>7, <2>1
<1>9. x0 \notin {return_address, branch_id} /\ <<f, x0>> \in Names
  <2>1. x0 \notin {return_address, branch_id} \cup ToSet(prog[f].params)
    <3> HIDE DEF f, b, k, i
    <3> QED
      BY <1>8, InstrFacts
  <2>2. \A c \in Label(prog[f]) : \A n \in 1 .. Size(prog[f], c) : <<f, prog[f].body[c][n].dst>> \in Names
    BY <1>4, <1>6, NamesFacts
  <2>3. <<f, x0>> \in Names
    BY <1>4, <1>7, <1>8, <2>2
  <2> QED
    BY <2>1, <2>3
<1>10. ~CallsAddress(i)
  BY <1>1 DEF CallsAddress, IsCall
<1>11. /\ x0 \notin Available(Site(f, b, k + 1)) /\ Available(Site(f, b, k + 1)) = Available(Site(f, b, k))
  BY <1>8, <1>10, AvailableAfter
<1>12. Translated(pointers, v) \in Nat
  BY <1>1, <1>4, <1>6, <1>7, <1>8, TranslatedFacts
<1>13. DOMAIN a.env = DOMAIN e \cup {x0} /\ a.env[x0] = v /\ \A y \in DOMAIN e : y # x0 => a.env[y] = e[y]
  <2>1. a.env = Set(e, x0, v)
    OBVIOUS
  <2>2. PICK c, y0 : c = e /\ y0 = x0
    OBVIOUS
  <2>3. DOMAIN Set(c, y0, v) = DOMAIN c \cup {y0} /\ Set(c, y0, v)[y0] = v
        /\ \A y \in DOMAIN c : y # y0 => Set(c, y0, v)[y] = c[y]
    BY DEF Set
  <2>4. a.env = Set(c, y0, v)
    BY <2>1, <2>2
  <2> HIDE DEF a
  <2> QED
    BY <2>2, <2>3, <2>4
<1>14. [act EXCEPT !.k = @ + 1, !.env = Set(@, i.dst, v)] = a
  <2>1. [act EXCEPT !.k = k + 1, !.env = Set(e, x0, v)]
            = [fn |-> act.fn, block |-> act.block, k |-> k + 1, env |-> Set(e, x0, v)]
    BY <1>5, ActFacts
  <2> QED
    BY <2>1
<1>15. acts' = [acts EXCEPT ![Depth] = a]
  BY <1>2, <1>14 DEF Depth
<1>16. a.fn = f /\ a.block = b /\ a.k = k + 1 /\ a = [fn |-> a.fn, block |-> a.block, k |-> a.k, env |-> a.env]
  OBVIOUS
<1>17. at' = Site(a.fn, a.block, a.k)
  BY <1>3, <1>4 DEF Site
<1> HIDE DEF a
<1>18. FrameOK(prog, Names, a)
  BY <1>4, <1>5, <1>7, <1>9, <1>13, <1>16 DEF FrameOK
<1>19. /\ glob' \in [Names -> Nat] /\ glob'[<<f, x0>>] = Translated(pointers, v)
       /\ \A n \in Names : n # <<f, x0>> => glob'[n] = glob[n]
  <2> DEFINE g == Translated(pointers, v)
             n0 == <<f, x0>>
  <2>1. glob' = [glob EXCEPT ![n0] = g] /\ n0 \in Names /\ g \in Nat
    BY <1>2, <1>4, <1>9, <1>12
  <2> HIDE DEF g, n0
  <2>2. glob' \in [Names -> Nat] /\ glob'[n0] = g /\ \A n \in Names : n # n0 => glob'[n] = glob[n]
    BY <1>6, <2>1
  <2> QED
    BY <2>2 DEF g, n0
<1>20. \A n \in Names : n[1] # a.fn => glob'[n] = glob[n]
  BY <1>16, <1>19
<1>21. \A n \in DOMAIN params' : params'[n] \in Nat
  BY <1>3, <1>6
<1>22. ASSUME NEW x \in Live(prog[a.fn], a.block, a.k)
       PROVE  /\ x \in DOMAIN a.env
              /\ (IF x \in Available(Site(a.fn, a.block, a.k)) THEN GetParam(params', x) ELSE glob'[<<a.fn, x>>])
                      = Translated(pointers, a.env[x])
  <2>1. x \in Live(prog[f], b, k) \cup {x0}
    <3>1. Live(prog[f], b, k + 1) \subseteq Live(prog[f], b, k) \cup {x0}
      BY <1>8, LiveFacts
    <3> QED
      BY <1>16, <3>1
  <2>2. CASE x = x0
    BY <1>11, <1>13, <1>16, <1>19, <2>2
  <2>3. CASE x # x0
    <3>1. x \in DOMAIN e /\ Read(x) = Translated(pointers, e[x])
      BY <1>1, <1>4, <2>1, <2>3, ReadFacts
    <3>2. Read(x) = IF x \in Available(Site(f, b, k)) THEN GetParam(params, x) ELSE glob[<<f, x>>]
      BY <1>4 DEF Read, Value
    <3>3. glob'[<<f, x>>] = glob[<<f, x>>]
      BY <1>5, <1>19, <2>3, <3>1
    <3>4. x \in DOMAIN a.env /\ a.env[x] = e[x]
      BY <1>13, <2>3, <3>1
    <3> QED
      BY <1>3, <1>11, <1>16, <3>1, <3>2, <3>3, <3>4
  <2> QED
    BY <2>2, <2>3
<1>23. (IF return_address \in Available(Site(a.fn, a.block, a.k)) THEN GetParam(params', return_address)
                ELSE glob'[<<a.fn, return_address>>]) = Where(Depth, return_address)
  <2>1. Read(return_address) = IF return_address \in Available(Site(f, b, k)) THEN GetParam(params, return_address)
                               ELSE glob[<<f, return_address>>]
    BY <1>4 DEF Read, Value
  <2>2. glob'[<<f, return_address>>] = glob[<<f, return_address>>]
    BY <1>4, <1>6, <1>9, <1>19, NamesFacts
  <2> QED
    BY <1>1, <1>3, <1>11, <1>16, <2>1, <2>2, ReadFacts
<1>24. a.fn = act.fn
  BY <1>16
<1> QED
  BY <1>1, <1>3, <1>15, <1>17, <1>18, <1>19, <1>20, <1>21, <1>22, <1>23, <1>24, LocalStep

(* A branch of the project goes where that of the program does: the blocks    *)
(* branched to are compared as trans_terminator_instr has it.                 *)
LEMMA BranchFacts ==
    ASSUME IInv, InStep, at.k > Size(fn, at.block), NEW b \in Targets
    PROVE  /\ Selected(b) = b /\ b \in fn.term[at.block].to /\ b \in Label(fn) /\ b # fn.first
           /\ act.k = Size(fn, act.block) + 1
           /\ \A x \in Live(fn, b, 1) : /\ x \in Depends(fn)[b]
                                        /\ x \in DOMAIN act.env /\ Read(x) = Translated(pointers, act.env[x])
<1> DEFINE t == fn.term[at.block]
<1>1. /\ at.fn = act.fn /\ at.block = act.block /\ at.k = act.k
      /\ fn = prog[act.fn] /\ act.fn \in DOMAIN prog /\ act.block \in Label(fn)
      /\ act.k \in 1 .. Size(fn, act.block) + 1
  BY PositionFacts
<1>2. StaticInv /\ IsProgram(prog)
  BY StaticUse DEF IInv
<1>3. /\ Size(fn, act.block) \in Nat /\ t.to \subseteq Label(fn) \ {fn.first} /\ IsTerminator(fn, t) /\ Nothing \notin Label(fn)
  BY <1>1, <1>2, FunctionFacts
<1>4. act.k = Size(fn, act.block) + 1
  <2>1. act.k > Size(fn, act.block)
    BY <1>1
  <2> QED
    BY <1>1, <1>3, <2>1
<1>5. b \in t.to
  BY DEF Targets
<1>6. Uses(fn, at.block, at.k) = t.uses
  <2>1. ~(at.k <= Size(fn, at.block))
    BY <1>1, <1>3, <1>4
  <2> QED
    BY <2>1 DEF Uses
<1>7. Selected(b) = b
  <2>1. CASE t.on = ""
    BY <2>1 DEF Selected
  <2>2. CASE t.on # ""
    <3> DEFINE v == act.env[t.on]
               cases == t.cases
    <3>1. v \in 0 .. t.max /\ v \notin Range(Pointer) /\ b = IF v \in DOMAIN cases THEN cases[v] ELSE t.default
      BY <2>2 DEF Targets
    <3>2. t.on \in t.uses /\ t.max \in Nat /\ Table(cases) /\ t.default \in t.to
      BY <1>3, <2>2 DEF IsTerminator, Table
    <3>3. Read(t.on) = v
      <4>1. Read(t.on) = Translated(pointers, v)
        BY <1>6, <3>2, ReadFacts
      <4> QED
        BY <3>1, <4>1 DEF Translated
    <3>4. Within(v, 0, t.max) /\ v \in Int /\ t.default # Nothing /\ End(cases, HighestOr1(cases))
      <4>1. t.default # Nothing
        BY <1>3, <3>2
      <4>2. v \in 0 .. t.max
        BY <3>1
      <4>3. t.max \in Nat
        BY <3>2
      <4> HIDE DEF v, cases, t
      <4> QED
        BY <4>1, <4>2, <4>3 DEF Within, End
    <3>5. Selected(b) = Search(Read(t.on), cases, t.default, 0, t.max, 0, HighestOr1(cases))
      BY <2>2 DEF Selected
    <3> HIDE DEF v, cases, t
    <3>6. /\ v \in DOMAIN cases => Search(v, cases, t.default, 0, t.max, 0, HighestOr1(cases)) = cases[v]
          /\ v \notin DOMAIN cases => Search(v, cases, t.default, 0, t.max, 0, HighestOr1(cases)) = t.default
      <4>1. 0 \in Int /\ t.max \in Int
        BY <3>2
      <4> QED
        BY <3>2, <3>4, <4>1, SearchFinds
    <3> QED
      BY <3>1, <3>3, <3>5, <3>6
  <2> QED
    BY <2>1, <2>2
<1>8. ASSUME NEW x \in Live(fn, b, 1)
      PROVE  x \in Depends(fn)[b] /\ x \in DOMAIN act.env /\ Read(x) = Translated(pointers, act.env[x])
  <2>1. b \in Label(fn)
    BY <1>3, <1>5
  <2>2. Size(fn, b) \in Nat
    BY <1>1, <1>2, <2>1, FunctionFacts
  <2>3. 1 \in 1 .. Size(fn, b) + 1
    BY <2>2
  <2>4. x \in Depends(fn)[b]
    BY <1>1, <1>2, <2>1, <2>3, LiveFacts
  <2>5. \A c \in prog[act.fn].term[act.block].to : Depends(prog[act.fn])[c] \subseteq Live(prog[act.fn], act.block, act.k)
    BY <1>1, <1>2, <1>4, LiveFacts
  <2>6. x \in Live(fn, at.block, at.k)
    BY <1>1, <1>5, <2>4, <2>5
  <2> QED
    BY <2>4, <2>6, ReadFacts
<1> QED
  BY <1>3, <1>4, <1>5, <1>7, <1>8

(* A branch to the procedure of a block keeps the invariant: the parameters that *)
(* are needed later become variables.                                         *)
LEMMA BranchStep ==
    ASSUME IInv, Branch
    PROVE  IInv'
<1> DEFINE f == act.fn
           e == act.env
           to == fn.term[at.block].to
           keep == Available(at) \cap PossDepends(to)
<1>1. InStep /\ at.k > Size(fn, at.block) /\ ~jumpTable
  BY DEF Branch
<1>2. PICK b \in Targets : /\ at' = Site(at.fn, Selected(b), 1)
                           /\ acts' = [acts EXCEPT ![Len(acts)] = [act EXCEPT !.block = b, !.k = 1]]
  BY DEF Branch, SetAct
<1>3. /\ glob' = [n \in DOMAIN glob |-> IF n[1] = at.fn /\ n[2] \in keep THEN GetParam(params, n[2]) ELSE glob[n]]
      /\ params' = NoParams /\ UNCHANGED <<static, conts, sigReturn, retVar, localStack>>
  BY DEF Branch, AssignParameters
<1> DEFINE a == [fn |-> f, block |-> b, k |-> 1, env |-> e]
<1>4. /\ Depth \in Nat /\ Depth >= 1 /\ act = acts[Depth] /\ at = Site(f, act.block, act.k)
      /\ at.fn = f /\ FrameOK(prog, Names, act) /\ fn = prog[f] /\ f \in DOMAIN prog
  BY <1>1, PositionFacts
<1>5. act = [fn |-> f, block |-> act.block, k |-> act.k, env |-> e]
      /\ \A x \in DOMAIN e : <<f, x>> \in Names /\ x \notin {return_address, branch_id}
  BY <1>4 DEF FrameOK
<1>6. StaticInv /\ IsProgram(prog) /\ glob \in [Names -> Nat] /\ \A n \in DOMAIN params : params[n] \in Nat
  BY StaticUse DEF IInv, NumbersInv
<1>7. /\ Selected(b) = b /\ b \in to /\ b \in Label(prog[f]) /\ b # prog[f].first
      /\ \A x \in Live(prog[f], b, 1) : /\ x \in Depends(prog[f])[b]
                                        /\ x \in DOMAIN e /\ Read(x) = Translated(pointers, e[x])
  BY <1>1, <1>4, BranchFacts
<1>8. Size(prog[f], b) \in Nat /\ 1 \in 1 .. Size(prog[f], b) + 1
  <2>1. Size(prog[f], b) \in Nat
    BY <1>4, <1>6, <1>7, FunctionFacts
  <2> QED
    BY <2>1
<1>9. Available(Site(f, b, 1)) = {}
  BY <1>1, <1>4, <1>6, <1>7, <1>8, AvailableFacts
<1>10. acts' = [acts EXCEPT ![Depth] = a]
  <2>1. [act EXCEPT !.block = b, !.k = 1] = [fn |-> f, block |-> b, k |-> 1, env |-> e]
    BY <1>5, ActFacts
  <2> QED
    BY <1>2, <2>1 DEF Depth
<1>11. a.fn = f /\ a.block = b /\ a.k = 1 /\ a.env = e /\ a = [fn |-> a.fn, block |-> a.block, k |-> a.k, env |-> a.env]
  OBVIOUS
<1> HIDE DEF a
<1>12. at' = Site(a.fn, a.block, a.k)
  BY <1>2, <1>4, <1>7, <1>11
<1>13. FrameOK(prog, Names, a)
  BY <1>4, <1>5, <1>7, <1>8, <1>11 DEF FrameOK
<1>14. \A x : GetParam(params, x) \in Nat
  BY <1>6 DEF GetParam
<1>15. glob' \in [Names -> Nat]
  <2>1. DOMAIN glob = Names /\ \A n \in Names : glob[n] \in Nat
    BY <1>6
  <2> HIDE DEF keep
  <2> QED
    BY <1>3, <1>14, <2>1
<1>16. ASSUME NEW x, x \in PossDepends(to), <<f, x>> \in Names
       PROVE  glob'[<<f, x>>] = Read(x)
  <2>1. Read(x) = IF x \in Available(at) THEN GetParam(params, x) ELSE glob[<<f, x>>]
    BY <1>4 DEF Read, Value
  <2>2. DOMAIN glob = Names
    BY <1>6
  <2>3. <<f, x>>[1] = f /\ <<f, x>>[2] = x
    OBVIOUS
  <2>4. x \in keep <=> x \in Available(at)
    BY <1>16
  <2>5. glob'[<<f, x>>] = IF x \in keep THEN GetParam(params, x) ELSE glob[<<f, x>>]
    <3> HIDE DEF keep
    <3> QED
      BY <1>3, <1>4, <1>16, <2>2, <2>3
  <2> QED
    BY <2>1, <2>4, <2>5
<1>17. \A n \in Names : n[1] # a.fn => glob'[n] = glob[n]
  <2>1. DOMAIN glob = Names
    BY <1>6
  <2> HIDE DEF keep
  <2> QED
    BY <1>3, <1>4, <1>11, <2>1
<1>18. \A n \in DOMAIN params' : params'[n] \in Nat
  BY <1>3 DEF NoParams
<1>19. ASSUME NEW x \in Live(prog[a.fn], a.block, a.k)
       PROVE  /\ x \in DOMAIN a.env
              /\ (IF x \in Available(Site(a.fn, a.block, a.k)) THEN GetParam(params', x) ELSE glob'[<<a.fn, x>>])
                      = Translated(pointers, a.env[x])
  <2>1. x \in Depends(prog[f])[b] /\ x \in DOMAIN e /\ Read(x) = Translated(pointers, e[x])
    BY <1>7, <1>11
  <2>2. x \in PossDepends(to)
    <3>1. info[f].depends = Depends(prog[f])
      BY <1>4, <1>6, StaticUse DEF FunctionOK
    <3> QED
      BY <1>4, <1>7, <2>1, <3>1 DEF PossDepends
  <2>3. glob'[<<f, x>>] = Read(x)
    BY <1>5, <1>16, <2>1, <2>2
  <2> QED
    BY <1>9, <1>11, <2>1, <2>3
<1>20. (IF return_address \in Available(Site(a.fn, a.block, a.k)) THEN GetParam(params', return_address)
                ELSE glob'[<<a.fn, return_address>>]) = Where(Depth, return_address)
  <2>1. return_address \in PossDepends(to) /\ <<f, return_address>> \in Names
    BY <1>4, <1>6, NamesFacts DEF PossDepends
  <2>2. glob'[<<f, return_address>>] = Read(return_address)
    BY <1>16, <2>1
  <2> QED
    BY <1>1, <1>9, <1>11, <2>2, ReadFacts
<1>21. a.fn = act.fn
  BY <1>11
<1> QED
  BY <1>1, <1>3, <1>10, <1>12, <1>13, <1>15, <1>17, <1>18, <1>19, <1>20, <1>21, LocalStep

(* So does a branch in the loop of branch-jump-table mode, where they last.   *)
LEMMA IterateStep ==
    ASSUME IInv, Iterate
    PROVE  IInv'
<1> DEFINE f == act.fn
           e == act.env
           table == BlockTable(fn)
           id(b) == CHOOSE n \in DOMAIN table : table[n] = Selected(b)
<1>1. InStep /\ at.k > Size(fn, at.block) /\ jumpTable
  BY DEF Iterate
<1>2. PICK b \in Targets : /\ glob' = [glob EXCEPT ![<<at.fn, branch_id>>] = id(b)]
                           /\ at' = Site(at.fn, BinarySearch(id(b), table, Highest(table)), 1)
                           /\ acts' = [acts EXCEPT ![Len(acts)] = [act EXCEPT !.block = b, !.k = 1]]
  BY DEF Iterate, SetAct
<1>3. /\ params' = params /\ UNCHANGED <<static, conts, sigReturn, retVar, localStack>>
  BY DEF Iterate
<1> DEFINE a == [fn |-> f, block |-> b, k |-> 1, env |-> e]
<1>4. /\ Depth \in Nat /\ Depth >= 1 /\ act = acts[Depth] /\ at = Site(f, act.block, act.k)
      /\ at.fn = f /\ FrameOK(prog, Names, act) /\ fn = prog[f] /\ f \in DOMAIN prog
      /\ act.block \in Label(prog[f]) /\ act.k \in 1 .. Size(prog[f], act.block) + 1
  BY <1>1, PositionFacts
<1>5. act = [fn |-> f, block |-> act.block, k |-> act.k, env |-> e]
      /\ \A x \in DOMAIN e : <<f, x>> \in Names /\ x \notin {return_address, branch_id}
  BY <1>4 DEF FrameOK
<1>6. StaticInv /\ IsProgram(prog) /\ glob \in [Names -> Nat] /\ \A n \in DOMAIN params : params[n] \in Nat
  BY StaticUse DEF IInv, NumbersInv
<1>7. /\ Selected(b) = b /\ b \in Label(prog[f]) /\ b # prog[f].first
      /\ \A x \in Live(prog[f], b, 1) : x \in DOMAIN e /\ Read(x) = Translated(pointers, e[x])
  BY <1>1, <1>4, BranchFacts
<1>8. Size(prog[f], b) \in Nat /\ 1 \in 1 .. Size(prog[f], b) + 1
  <2>1. Size(prog[f], b) \in Nat
    BY <1>4, <1>6, <1>7, FunctionFacts
  <2> QED
    BY <2>1
<1>9. id(b) \in Nat /\ BinarySearch(id(b), table, Highest(table)) = b
  <2> DEFINE S == Label(prog[f]) \ {prog[f].first}
             labels == SetToSeq(S)
             D == 0 .. Len(labels) - 1
             branches == [n \in D |-> labels[n + 1]]
             n0 == id(b)
  <2>1. IsFiniteSet(Label(prog[f]))
    BY <1>4, <1>6, FunctionFacts
  <2>2. IsFiniteSet(S) /\ b \in S
    BY <1>7, <2>1, FS_Subset
  <2> HIDE DEF S
  <2>3. Len(labels) \in Nat /\ \E i \in 1 .. Len(labels) : labels[i] = b
    BY <2>2, SetToSeqFacts
  <2>4. table = branches
    BY <1>4 DEF BlockTable, S
  <2> HIDE DEF table, labels
  <2>5. \E n \in D : branches[n] = b
    <3>1. PICK i \in 1 .. Len(labels) : labels[i] = b
      BY <2>3
    <3>2. i - 1 \in D /\ i - 1 + 1 = i
      BY <2>3, <3>1
    <3> QED
      BY <3>1, <3>2
  <2>6. n0 \in D /\ branches[n0] = b
    BY <1>7, <2>4, <2>5
  <2>7. IsFiniteSet(D) /\ D \subseteq Nat
    <3>1. 0 \in Int /\ Len(labels) - 1 \in Int
      BY <2>3
    <3>2. IsFiniteSet(D)
      BY <3>1, FS_Interval
    <3>3. D \subseteq Nat
      BY <2>3
    <3> QED
      BY <3>2, <3>3
  <2>8. DOMAIN branches = D
    OBVIOUS
  <2> HIDE DEF branches, n0
  <2>9. Table(branches) /\ End(branches, Highest(branches))
    BY <2>6, <2>7, <2>8 DEF Table, End
  <2>10. n0 \in DOMAIN branches
    BY <2>6, <2>8
  <2> HIDE DEF D
  <2>11. BinarySearch(n0, branches, Highest(branches)) = branches[n0]
    BY <2>9, <2>10, BinarySearchFinds
  <2>12. n0 \in Nat
    BY <2>6, <2>7
  <2> QED
    BY <2>4, <2>6, <2>11, <2>12 DEF n0
<1> DEFINE c == id(b)
<1> HIDE DEF id, table
<1>10. /\ \A x \in Available(Site(f, b, 1)) : x # branch_id
       /\ Available(Site(f, b, 1)) = Available(Site(f, act.block, act.k))
  <2> DEFINE all == ToSet(prog[f].params) \cup (IF info[f].takesReturnAddress THEN {return_address} ELSE {})
  <2>1. Available(Site(f, b, 1)) = all /\ branch_id \notin Available(Site(f, b, 1))
    BY <1>1, <1>4, <1>6, <1>7, <1>8, AvailableFacts
  <2>2. Available(Site(f, act.block, act.k)) = all
    BY <1>1, <1>4, <1>6, AvailableFacts
  <2> QED
    BY <2>1, <2>2
<1>11. acts' = [acts EXCEPT ![Depth] = a]
  <2>1. [act EXCEPT !.block = b, !.k = 1] = [fn |-> f, block |-> b, k |-> 1, env |-> e]
    BY <1>5, ActFacts
  <2> QED
    BY <1>2, <2>1 DEF Depth
<1>12. a.fn = f /\ a.block = b /\ a.k = 1 /\ a.env = e /\ a = [fn |-> a.fn, block |-> a.block, k |-> a.k, env |-> a.env]
  OBVIOUS
<1> HIDE DEF a
<1>13. at' = Site(a.fn, a.block, a.k)
  BY <1>2, <1>4, <1>9, <1>12
<1>14. FrameOK(prog, Names, a)
  BY <1>4, <1>5, <1>7, <1>8, <1>12 DEF FrameOK
<1>15. glob' \in [Names -> Nat] /\ \A n \in Names : n # <<f, branch_id>> => glob'[n] = glob[n]
  <2> DEFINE n0 == <<f, branch_id>>
  <2>1. glob' = [glob EXCEPT ![n0] = c] /\ c \in Nat
    BY <1>2, <1>4, <1>9
  <2> HIDE DEF n0, c
  <2>2. glob' \in [Names -> Nat] /\ \A n \in Names : n # n0 => glob'[n] = glob[n]
    BY <1>6, <2>1
  <2> QED
    BY <2>2 DEF n0
<1>16. \A n \in Names : n[1] # a.fn => glob'[n] = glob[n]
  BY <1>12, <1>15
<1>17. \A n \in DOMAIN params' : params'[n] \in Nat
  BY <1>3, <1>6
<1>18. ASSUME NEW x, <<f, x>> \in Names, x # branch_id
       PROVE  (IF x \in Available(Site(a.fn, a.block, a.k)) THEN GetParam(params', x) ELSE glob'[<<a.fn, x>>]) = Read(x)
  <2>1. Read(x) = IF x \in Available(Site(f, act.block, act.k)) THEN GetParam(params, x) ELSE glob[<<f, x>>]
    BY <1>4 DEF Read, Value
  <2>2. glob'[<<f, x>>] = glob[<<f, x>>]
    BY <1>15, <1>18
  <2> QED
    BY <1>3, <1>10, <1>12, <2>1, <2>2
<1>19. ASSUME NEW x \in Live(prog[a.fn], a.block, a.k)
       PROVE  /\ x \in DOMAIN a.env
              /\ (IF x \in Available(Site(a.fn, a.block, a.k)) THEN GetParam(params', x) ELSE glob'[<<a.fn, x>>])
                      = Translated(pointers, a.env[x])
  <2>1. x \in DOMAIN e /\ Read(x) = Translated(pointers, e[x])
    BY <1>7, <1>12
  <2>2. <<f, x>> \in Names /\ x # branch_id
    BY <1>5, <2>1
  <2> QED
    BY <1>12, <1>18, <2>1, <2>2
<1>20. (IF return_address \in Available(Site(a.fn, a.block, a.k)) THEN GetParam(params', return_address)
                ELSE glob'[<<a.fn, return_address>>]) = Where(Depth, return_address)
  <2>1. <<f, return_address>> \in Names /\ return_address # branch_id
    BY <1>4, <1>6, NamesFacts DEF return_address, branch_id
  <2> QED
    BY <1>1, <1>18, <2>1, ReadFacts
<1>21. a.fn = act.fn
  BY <1>12
<1> QED
  BY <1>1, <1>3, <1>11, <1>13, <1>14, <1>15, <1>16, <1>17, <1>19, <1>20, <1>21, LocalStep

-----------------------------------------------------------------------------
(* Calls.                                                                    *)

\* The steps that call g, with these variables: what the callee finds, and what
\* Scratch and the procedure for a signature keep for its return.
Starts(g, env) ==
    LET s == SignatureOf(pointers, instr)
        through == CallsAddress(instr) /\ Dispatched(pointers, instr)
    IN  /\ InStep /\ at.k <= Size(fn, at.block) /\ IsCall(instr)
        /\ g \in ToSet(CouldCall(pointers, instr))
        /\ acts' = Append(acts, Act(g, env)) /\ at' = Site(g, prog[g].first, 1)
        /\ DOMAIN env = ToSet(prog[g].params)
        /\ \A x \in DOMAIN env : GetParam(params', x) = Translated(pointers, env[x])
        /\ \A n \in DOMAIN params' : params'[n] \in Nat
        /\ info[g].takesReturnAddress =>
              GetParam(params', return_address) = Numbered(info[g].returnAddresses, Expected(pointers, instr, at)) - 1
        /\ IF info[g].returnsToAddress THEN conts' = conts
           ELSE conts' = Append(conts, IF CallsAddress(instr) THEN [at |-> Expected(pointers, instr, at), params |-> NoParams]
                                       ELSE [at |-> at, params |-> params])
        /\ sigReturn' \in [DOMAIN pointers -> Nat]
        /\ \A t \in DOMAIN pointers : ~through \/ t # s => sigReturn'[t] = sigReturn[t]
        /\ through /\ sigInfo[s].takesReturnAddress => sigReturn'[s] = Numbered(sigInfo[s].returnAddresses, at) - 1
        /\ UNCHANGED <<static, glob, retVar, localStack>>

(* What the call is of.                                                       *)
LEMMA StartsFacts ==
    ASSUME IInv, NEW g, NEW env, Starts(g, env)
    PROVE  /\ g \in DOMAIN prog /\ Size(prog[g], prog[g].first) \in Nat /\ prog[g].first \in Label(prog[g])
           /\ Depth \in Nat /\ Depth >= 1 /\ act = acts[Depth]
           /\ act.fn \in DOMAIN prog /\ act.block \in Label(prog[act.fn]) /\ act.k \in 1 .. Size(prog[act.fn], act.block)
           /\ instr = prog[act.fn].body[act.block][act.k] /\ instr = Instr(Depth)
           /\ at = Site(act.fn, act.block, act.k) /\ at = SiteOf(Depth)
           /\ CallsAddress(instr) <=> Addressed(pointers, info, instr)
           /\ ~CallsAddress(instr) => ~info[g].returnsToAddress
           /\ info[g].returnsToAddress => CallsAddress(instr) /\ info[act.fn].returnsToAddress /\ conts = << >>
           /\ g \in Reached(CallGraph(prog, pointers), act.fn)
           /\ instr \in AllInstrs(prog)
<1>1. /\ InStep /\ at.k <= Size(fn, at.block) /\ IsCall(instr) /\ g \in ToSet(CouldCall(pointers, instr))
  BY DEF Starts
<1>2. /\ Depth \in Nat /\ Depth >= 1 /\ act = acts[Depth] /\ at = Site(act.fn, act.block, act.k) /\ at = SiteOf(Depth)
      /\ at.fn = act.fn /\ at.block = act.block /\ at.k = act.k /\ fn = prog[act.fn] /\ instr = Instr(Depth)
      /\ act.fn \in DOMAIN prog /\ act.block \in Label(prog[act.fn]) /\ act.k \in 1 .. Size(prog[act.fn], act.block) + 1
  BY <1>1, PositionFacts
<1>3. StaticInv /\ IsProgram(prog) /\ SigsOK(prog, pointers)
  BY StaticUse DEF IInv
<1>4. act.k \in 1 .. Size(prog[act.fn], act.block)
  <2>1. Size(prog[act.fn], act.block) \in Nat
    BY <1>2, <1>3, FunctionFacts
  <2>2. act.k <= Size(prog[act.fn], act.block)
    BY <1>1, <1>2
  <2> QED
    BY <1>2, <2>1, <2>2
<1>5. instr = prog[act.fn].body[act.block][act.k]
  BY <1>2 DEF instr
<1>6. instr \in AllInstrs(prog)
  BY <1>2, <1>3, <1>4, <1>5, InstrFacts
<1>7. g \in DOMAIN prog
  BY <1>1, <1>3, <1>6, CouldCallFacts
<1>8. prog[g].first \in Label(prog[g]) /\ Size(prog[g], prog[g].first) \in Nat
  BY <1>3, <1>7, FunctionFacts
<1>9. CallOK(prog, pointers, info, sigInfo, act.fn, act.block, act.k)
  <2>1. IsCall(prog[act.fn].body[act.block][act.k])
    BY <1>1, <1>5
  <2> QED
    BY <1>2, <1>3, <1>4, <2>1, StaticUse
<1>10. CallsAddress(instr) <=> Addressed(pointers, info, instr)
  BY <1>1, <1>2, <1>3, <1>4, <1>5, AddressedFacts
<1>11. info[g].returnsToAddress => Addressed(pointers, info, instr)
  BY <1>1 DEF Addressed
<1>12. /\ g \in Reached(CallGraph(prog, pointers), act.fn)
       /\ Addressed(pointers, info, instr) => info[act.fn].returnsToAddress
  BY <1>1, <1>5, <1>9 DEF CallOK
<1>13. ASSUME info[act.fn].returnsToAddress PROVE conts = << >>
  <2>1. /\ conts \in Seq(ToSet(conts)) /\ Len(conts) < Depth
        /\ \A i \in 2 .. Depth : info[acts[i].fn].returnsToAddress <=> i <= Depth - Len(conts)
    BY <1>2 DEF IInv, ContsInv, Base
  <2>2. IsSeq(conts)
    BY <2>1 DEF IsSeq
  <2>3. Len(conts) \in Nat
    BY <2>2, SeqFacts
  <2>4. Len(conts) = 0
    <3>1. CASE Depth = 1
      BY <2>1, <2>3, <3>1
    <3>2. CASE Depth # 1
      <4>1. Depth \in 2 .. Depth
        BY <1>2, <3>2
      <4>2. Depth <= Depth - Len(conts)
        BY <1>2, <1>13, <2>1, <4>1
      <4> QED
        BY <1>2, <2>3, <4>2
    <3> QED
      BY <3>1, <3>2
  <2> QED
    BY <2>2, <2>4, SeqFacts
<1> QED
  BY <1>2, <1>4, <1>5, <1>6, <1>7, <1>8, <1>10, <1>11, <1>12, <1>13

(* The calls in progress then.                                                *)
LEMMA StartsStack ==
    ASSUME IInv, NEW g, NEW env, Starts(g, env)
    PROVE  /\ IsSeq(acts') /\ Depth' = Depth + 1 /\ acts'[Depth + 1] = Act(g, env)
           /\ \A i \in 1 .. Depth : acts'[i] = acts[i]
           /\ IsSeq(conts') /\ Len(conts) \in Nat /\ Len(conts) < Depth /\ Len(conts') < Depth'
           /\ info[g].returnsToAddress => conts' = << >> /\ Base = Depth /\ Base' = Depth + 1
           /\ ~info[g].returnsToAddress =>
                 /\ Base' = Base /\ Len(conts') = Len(conts) + 1 /\ Base + Len(conts) = Depth
                 /\ \A i \in 1 .. Len(conts) : conts'[i] = conts[i]
                 /\ conts'[Len(conts) + 1] = IF CallsAddress(instr) THEN [at |-> Expected(pointers, instr, at), params |-> NoParams]
                                             ELSE [at |-> at, params |-> params]
           /\ Base \in 1 .. Depth
<1>1. /\ Depth \in Nat /\ Depth >= 1 /\ IsSeq(acts) /\ IsSeq(conts) /\ Len(conts) < Depth
  BY StartsFacts DEF IInv, FramesInv, ContsInv, IsSeq
<1>3. acts' = Append(acts, Act(g, env))
  BY DEF Starts
<1>4. /\ IsSeq(acts') /\ Depth' = Depth + 1 /\ acts'[Depth + 1] = Act(g, env)
      /\ \A i \in 1 .. Depth : acts'[i] = acts[i]
  BY <1>1, <1>3, AppendFacts DEF Depth
<1>5. Len(conts) \in Nat /\ Base \in 1 .. Depth /\ Base + Len(conts) = Depth /\ Base = Depth - Len(conts)
  <2>1. Len(conts) \in Nat
    BY <1>1, SeqFacts
  <2> QED
    BY <1>1, <2>1 DEF Base
<1>6. CASE info[g].returnsToAddress
  <2>1. conts' = << >> /\ conts = << >> /\ conts' = conts
    BY <1>6, StartsFacts DEF Starts
  <2>2. Len(conts) = 0 /\ Len(conts') = 0
    BY <2>1
  <2>3. IsSeq(conts')
    BY <1>1, <2>1
  <2>4. Base' = Depth' - Len(conts')
    BY DEF Base
  <2> QED
    BY <1>1, <1>4, <1>5, <1>6, <2>1, <2>2, <2>3, <2>4
<1>7. CASE ~info[g].returnsToAddress
  <2> DEFINE c == IF CallsAddress(instr) THEN [at |-> Expected(pointers, instr, at), params |-> NoParams]
                  ELSE [at |-> at, params |-> params]
  <2>1. conts' = Append(conts, c)
    BY <1>7 DEF Starts
  <2> HIDE DEF c
  <2>2. /\ IsSeq(conts') /\ Len(conts') = Len(conts) + 1 /\ conts'[Len(conts) + 1] = c
        /\ \A i \in 1 .. Len(conts) : conts'[i] = conts[i]
    BY <1>1, <2>1, AppendFacts
  <2>3. Base' = Depth' - Len(conts')
    BY DEF Base
  <2>4. Base' = Base /\ Len(conts') < Depth'
    BY <1>1, <1>4, <1>5, <2>2, <2>3
  <2> QED
    BY <1>1, <1>4, <1>5, <1>7, <2>2, <2>4 DEF c
<1> QED
  BY <1>6, <1>7

(* One call more is in progress, and the others are as they were.             *)
LEMMA StartsOne ==
    ASSUME IInv, NEW g, NEW env, Starts(g, env)
    PROVE  Depth' = Depth + 1 /\ \A i \in 1 .. Depth : acts'[i] = acts[i]
BY StartsStack

(* The calls that wait find what they need where it was.                      *)
LEMMA StartsWaiting ==
    ASSUME IInv, NEW g, NEW env, Starts(g, env), NEW i \in 1 .. Depth
    PROVE  /\ Instr(i)' = Instr(i) /\ SiteOf(i)' = SiteOf(i) /\ acts'[i] = acts[i]
           /\ LiveOf(i)' \subseteq LiveOf(i)
           /\ \A x \in LiveOf(i)' : <<acts[i].fn, x>> \in Names => Where(i, x)' = Where(i, x)
           /\ info[acts[i].fn].takesReturnAddress /\ <<acts[i].fn, return_address>> \in Names =>
                 Where(i, return_address)' = Where(i, return_address)
<1>1. /\ Depth \in Nat /\ Depth >= 1 /\ act = acts[Depth] /\ instr = Instr(Depth) /\ at = SiteOf(Depth)
      /\ at = Site(act.fn, act.block, act.k)
      /\ act.fn \in DOMAIN prog /\ act.block \in Label(prog[act.fn]) /\ act.k \in 1 .. Size(prog[act.fn], act.block)
      /\ instr = prog[act.fn].body[act.block][act.k]
      /\ ~CallsAddress(instr) => ~info[g].returnsToAddress
  BY StartsFacts
<1>2. UNCHANGED static /\ glob' = glob
  BY DEF Starts
<1>3. /\ prog' = prog /\ jumpTable' = jumpTable /\ pointers' = pointers /\ info' = info /\ sigInfo' = sigInfo
      /\ (StaticInv' <=> StaticInv) /\ Names' = Names
      /\ \A j : CallsAddress(j)' <=> CallsAddress(j)
      /\ \A s : Available(s)' = Available(s)
  BY <1>2, StaticUnchanged
<1>4. /\ Depth' = Depth + 1 /\ acts'[i] = acts[i] /\ i # Depth'
  <2>1. Depth' = Depth + 1 /\ acts'[i] = acts[i]
    BY StartsOne
  <2>2. Depth \in Nat
    BY <1>1
  <2> QED
    BY <2>1, <2>2
<1>5. /\ Len(conts) \in Nat /\ Base \in 1 .. Depth
      /\ info[g].returnsToAddress => Base = Depth /\ Base' = Depth + 1
      /\ ~info[g].returnsToAddress =>
                 /\ Base' = Base /\ Base + Len(conts) = Depth
                 /\ \A j \in 1 .. Len(conts) : conts'[j] = conts[j]
                 /\ conts'[Len(conts) + 1] = IF CallsAddress(instr) THEN [at |-> Expected(pointers, instr, at), params |-> NoParams]
                                             ELSE [at |-> at, params |-> params]
  BY StartsStack
<1>6. Instr(i)' = Instr(i) /\ SiteOf(i)' = SiteOf(i)
  BY <1>3, <1>4 DEF Instr, SiteOf
<1>7. CallsAddress(Instr(i))' <=> CallsAddress(Instr(i))
  BY <1>3, <1>6 DEF CallsAddress, CallInfo
<1>8. Kept(i)' = IF i >= Base' /\ ~CallsAddress(Instr(i)) THEN conts'[i + 1 - Base'].params ELSE NoParams
  BY <1>7 DEF Kept, NoParams
<1>9. CASE i # Depth
  <2>1. i \in 1 .. Depth - 1 /\ i < Depth
    BY <1>1, <1>9
  <2>2. Kept(i)' = Kept(i)
    <3>1. CASE info[g].returnsToAddress
      <4>1. ~(i >= Base) /\ ~(i >= Base')
        BY <1>1, <1>5, <2>1, <3>1
      <4> QED
        BY <1>8, <4>1 DEF Kept
    <3>2. CASE ~info[g].returnsToAddress
      <4>1. Base' = Base /\ Base + Len(conts) = Depth /\ \A j \in 1 .. Len(conts) : conts'[j] = conts[j]
        BY <1>5, <3>2
      <4>2. i >= Base => i + 1 - Base \in 1 .. Len(conts)
        <5>1. Depth \in Nat /\ Len(conts) \in Nat /\ Base \in 1 .. Depth
          BY <1>1, <1>5
        <5>2. Base + Len(conts) = Depth
          BY <4>1
        <5> QED
          BY <2>1, <5>1, <5>2
      <4>3. i >= Base => conts'[i + 1 - Base] = conts[i + 1 - Base]
        BY <4>1, <4>2
      <4> QED
        BY <1>8, <4>1, <4>3 DEF Kept
    <3> QED
      BY <3>1, <3>2
  <2>3. \A x : <<acts[i].fn, x>> \in Names => glob'[<<acts[i].fn, x>>] = glob[<<acts[i].fn, x>>]
    BY <1>2
  <2>4. /\ LiveOf(i)' = LiveOf(i)
        /\ \A x : <<acts[i].fn, x>> \in Names => Where(i, x)' = Where(i, x)
    BY <1>2, <1>4, <1>9, <2>2, <2>3, Waiting
  <2> QED
    BY <1>4, <1>6, <2>4
<1>10. CASE i = Depth
  <2> DEFINE f == act.fn
             A == Available(Site(f, act.block, act.k))
  <2>1. acts[i] = act
    BY <1>1, <1>10
  <2>2. LiveOf(i)' = Live(prog[f], act.block, act.k + 1) \ {instr.dst}
    <3>1. Instr(i)' = instr
      BY <1>1, <1>6, <1>10
    <3> QED
      BY <1>1, <1>3, <1>4, <2>1, <3>1 DEF LiveOf
  <2>3. LiveOf(i) = Live(prog[f], act.block, act.k)
    BY <1>10, <2>1 DEF LiveOf
  <2>4. StaticInv /\ IsProgram(prog)
    BY StaticUse DEF IInv
  <2>5. act.k \in 1 .. Size(prog[f], act.block) + 1 /\ act.k <= Size(prog[f], act.block)
    <3>1. Size(prog[f], act.block) \in Nat
      BY <1>1, <2>4, FunctionFacts
    <3> QED
      BY <1>1, <3>1
  <2>6. Live(prog[f], act.block, act.k + 1) \subseteq Live(prog[f], act.block, act.k) \cup {instr.dst}
    BY <1>1, <2>4, <2>5, LiveFacts
  <2>7. ASSUME NEW x
        PROVE  Where(i, x)' = IF x \in A THEN GetParam(Kept(i)', x) ELSE glob[<<f, x>>]
    <3>1. Where(i, x)' = IF x \in Available(SiteOf(i))' THEN GetParam(Kept(i)', x) ELSE glob[<<f, x>>]
      BY <1>2, <1>4, <2>1 DEF Where, ParamsOf, GetParam
    <3>2. PICK c : c = Site(f, act.block, act.k)
      OBVIOUS
    <3>3. SiteOf(i)' = c
      BY <1>1, <1>6, <1>10, <3>2
    <3>4. Available(SiteOf(i))' = Available(c)'
      BY <3>3 DEF Available
    <3>5. Available(c)' = Available(c)
      BY <1>3
    <3> QED
      BY <3>1, <3>2, <3>4, <3>5
  <2>8. ASSUME NEW x
        PROVE  Where(i, x) = IF x \in A THEN GetParam(params, x) ELSE glob[<<f, x>>]
    BY <1>1, <1>10, <2>1 DEF Where, ParamsOf
  <2>9. CASE ~CallsAddress(instr)
    <3>1. /\ Base' = Base /\ Base + Len(conts) = Depth /\ conts'[Len(conts) + 1] = [at |-> at, params |-> params]
      BY <1>1, <1>5, <2>9
    <3>2. i >= Base' /\ i + 1 - Base' = Len(conts) + 1
      <4>1. Depth \in Nat /\ Len(conts) \in Nat /\ Base \in 1 .. Depth /\ i = Depth
        BY <1>1, <1>5, <1>10
      <4>2. Base' = Base /\ Base + Len(conts) = Depth
        BY <3>1
      <4> QED
        BY <4>1, <4>2
    <3>3. Kept(i)' = params
      <4>1. Kept(i)' = conts'[i + 1 - Base'].params
        BY <1>1, <1>8, <1>10, <2>9, <3>2
      <4>2. conts'[i + 1 - Base'] = [at |-> at, params |-> params]
        BY <3>1, <3>2
      <4>3. [at |-> at, params |-> params].params = params
        OBVIOUS
      <4> QED
        BY <4>1, <4>2, <4>3
    <3>4. \A x : Where(i, x)' = Where(i, x)
      BY <2>7, <2>8, <3>3
    <3> QED
      BY <1>4, <1>6, <2>2, <2>3, <2>6, <3>4
  <2>10. CASE CallsAddress(instr)
    <3>1. /\ \A x \in Live(prog[f], act.block, act.k + 1) : x \in A => x \notin ToSet(prog[f].params)
          /\ info[f].takesReturnAddress => A = {}
          /\ A \subseteq ToSet(prog[f].params) \cup (IF info[f].takesReturnAddress THEN {return_address} ELSE {})
      <4>1. CallsAddress(prog[f].body[act.block][act.k])
        BY <1>1, <2>10
      <4>2. \A x \in Live(prog[f], act.block, act.k + 1) : x \in A => x \notin ToSet(prog[f].params)
        BY <1>1, <2>4, <2>5, <4>1, AvailableFacts
      <4>3. info[f].takesReturnAddress => A = {}
        BY <1>1, <2>4, <2>5, <4>1, AvailableFacts
      <4>4. A \subseteq ToSet(prog[f].params) \cup (IF info[f].takesReturnAddress THEN {return_address} ELSE {})
        BY <1>1, <2>4, <2>5, AvailableFacts
      <4> QED
        BY <4>2, <4>3, <4>4
    <3>2. \A x \in LiveOf(i)' : x \notin A
      BY <2>2, <3>1
    <3>3. \A x : x \notin A => Where(i, x)' = Where(i, x)
      BY <2>7, <2>8
    <3> QED
      BY <1>4, <1>6, <2>1, <2>2, <2>3, <2>6, <3>1, <3>2, <3>3
  <2> QED
    BY <2>9, <2>10
<1> QED
  BY <1>9, <1>10

(* What the callee finds.                                                     *)
LEMMA StartsCallee ==
    ASSUME IInv, NEW g, NEW env, Starts(g, env), NEW n, n = Depth + 1
    PROVE  /\ acts'[n] = [fn |-> g, block |-> prog[g].first, k |-> 1, env |-> env]
           /\ LiveOf(n)' \subseteq DOMAIN env
           /\ \A x \in DOMAIN env : Where(n, x)' = GetParam(params', x) /\ <<g, x>> \in Names
                                    /\ x \notin {return_address, branch_id}
           /\ info[g].takesReturnAddress => Where(n, return_address)' = GetParam(params', return_address)
<1> DEFINE first == prog[g].first
<1>1. g \in DOMAIN prog /\ Size(prog[g], first) \in Nat /\ first \in Label(prog[g])
  BY StartsFacts
<1>2. UNCHANGED static /\ DOMAIN env = ToSet(prog[g].params)
  BY DEF Starts
<1>3. /\ prog' = prog /\ \A s : Available(s)' = Available(s)
  BY <1>2, StaticUnchanged
<1>4. acts'[n] = [fn |-> g, block |-> first, k |-> 1, env |-> env] /\ Depth' = n
  BY StartsStack DEF Act
<1>5. StaticInv /\ IsProgram(prog)
  BY StaticUse DEF IInv
<1>6. LiveOf(n)' = Live(prog[g], first, 1)
  BY <1>3, <1>4 DEF LiveOf
<1>7. 1 \in 1 .. Size(prog[g], first) + 1
  BY <1>1
<1>8. Live(prog[g], first, 1) \subseteq ToSet(prog[g].params)
  BY <1>1, <1>5, <1>7, LiveFacts
<1>9. Available(Site(g, first, 1)) = ToSet(prog[g].params) \cup (IF info[g].takesReturnAddress THEN {return_address} ELSE {})
  BY <1>1, <1>5, <1>7, AvailableFacts
<1>10. ASSUME NEW x, x \in Available(Site(g, first, 1)) PROVE Where(n, x)' = GetParam(params', x)
  <2>1. PICK c : c = Site(g, first, 1)
    OBVIOUS
  <2>2. SiteOf(n)' = c
    BY <1>4, <2>1 DEF SiteOf
  <2>3. Available(SiteOf(n))' = Available(c)'
    BY <2>2 DEF Available
  <2>4. Available(c)' = Available(c)
    BY <1>3
  <2>5. x \in Available(SiteOf(n))'
    BY <1>10, <2>1, <2>3, <2>4
  <2>6. ParamsOf(n)' = params'
    BY <1>4 DEF ParamsOf
  <2> QED
    BY <2>5, <2>6 DEF Where, GetParam
<1>11. \A x \in ToSet(prog[g].params) : <<g, x>> \in Names /\ x \notin {return_address, branch_id}
  BY <1>1, <1>5, NamesFacts, FunctionFacts
<1> QED
  BY <1>2, <1>4, <1>6, <1>8, <1>9, <1>10, <1>11

(* A call through the same signature cannot be waiting: it would be recursive. *)
LEMMA NoneWaiting ==
    ASSUME IInv, NEW g, NEW env, Starts(g, env), NEW i \in 1 .. Depth - 1,
           CallsAddress(Instr(i)), Dispatched(pointers, Instr(i)), Dispatched(pointers, instr)
    PROVE  SignatureOf(pointers, Instr(i)) # SignatureOf(pointers, instr)
<1> SUFFICES ASSUME SignatureOf(pointers, Instr(i)) = SignatureOf(pointers, instr) PROVE FALSE
  OBVIOUS
<1> DEFINE G == CallGraph(prog, pointers)
           h == acts[i + 1].fn
<1>1. /\ Depth \in Nat /\ Depth >= 1 /\ act = acts[Depth] /\ act.fn \in DOMAIN prog /\ act.block \in Label(prog[act.fn])
      /\ act.k \in 1 .. Size(prog[act.fn], act.block) /\ instr = prog[act.fn].body[act.block][act.k]
      /\ instr \in AllInstrs(prog) /\ IsCall(instr)
  BY StartsFacts DEF Starts
<1>2. StaticInv /\ IsProgram(prog) /\ SigsOK(prog, pointers) /\ G \in [DOMAIN prog -> SUBSET DOMAIN prog]
      /\ act.fn \notin Reached(G, act.fn)
  BY <1>1, StaticUse DEF IInv
<1>0. Depth \in Nat /\ Depth >= 1
  BY <1>1
<1>3. i \in 1 .. Depth /\ i + 1 \in 1 .. Depth /\ i + 1 <= Depth /\ Depth \in 1 .. Depth /\ i + 1 \in Nat
  <2> DEFINE d == Depth
  <2>1. d \in Nat /\ d >= 1 /\ i \in 1 .. d - 1
    BY <1>0
  <2> HIDE DEF d
  <2>2. i \in 1 .. d /\ i + 1 \in 1 .. d /\ i + 1 <= d /\ d \in 1 .. d /\ i + 1 \in Nat
    BY ONLY <2>1
  <2> QED
    BY <2>2 DEF d
<1>4. /\ h \in ToSet(CouldCall(pointers, Instr(i))) /\ IsCall(Instr(i))
      /\ acts[i].k <= Size(prog[acts[i].fn], acts[i].block)
  BY DEF IInv, FramesInv
<1>5. FrameOK(prog, Names, acts[i]) /\ FrameOK(prog, Names, acts[i + 1])
  BY <1>3 DEF IInv, FramesInv
<1>6. Instr(i) \in AllInstrs(prog)
  <2>1. acts[i].fn \in DOMAIN prog /\ acts[i].block \in Label(prog[acts[i].fn]) /\ acts[i].k \in 1 .. Size(prog[acts[i].fn], acts[i].block) + 1
    BY <1>5 DEF FrameOK
  <2>2. Size(prog[acts[i].fn], acts[i].block) \in Nat
    BY <1>2, <2>1, FunctionFacts
  <2>3. acts[i].k \in 1 .. Size(prog[acts[i].fn], acts[i].block)
    BY <1>4, <2>1, <2>2
  <2> QED
    BY <1>2, <2>1, <2>3, InstrFacts DEF Instr
<1>7. CouldCall(pointers, Instr(i)) = CouldCall(pointers, instr)
  <2>1. ByPointer(instr) /\ ByPointer(Instr(i))
    BY <1>1, <1>2, <1>4, <1>6, CouldCallFacts
  <2> QED
    BY <2>1 DEF CouldCall
<1>8. h \in Reached(G, act.fn)
  <2>1. h \in ToSet(CouldCall(pointers, instr))
    BY <1>4, <1>7
  <2>2. instr \in Instrs(prog[act.fn])
    BY <1>1, <1>2, InstrFacts
  <2> QED
    BY <1>1, <1>2, <2>1, <2>2, CallGraphFacts
<1>9. h = act.fn \/ act.fn \in Reached(G, h)
  <2>1. CASE i + 1 = Depth
    BY <1>1, <2>1
  <2>2. CASE i + 1 # Depth
    <3>1. i + 1 < Depth
      BY ONLY <1>0, <1>3, <2>2
    <3> QED
      BY <1>1, <1>3, <3>1 DEF IInv, FramesInv
  <2> QED
    BY <2>1, <2>2
<1>10. h \in DOMAIN prog /\ Reached(G, h) \subseteq Reached(G, act.fn)
  <2> HIDE DEF G, h
  <2>1. act.fn \in DOMAIN prog
    BY <1>1
  <2> QED
    BY <1>2, <1>8, <2>1, ReachedTrans
<1> QED
  BY <1>2, <1>8, <1>9, <1>10

(* A call keeps the invariant.                                                *)
LEMMA StartsStep ==
    ASSUME IInv, NEW g, NEW env, Starts(g, env)
    PROVE  IInv'
<1> DEFINE G == CallGraph(prog, pointers)
<1>1. /\ Depth \in Nat /\ Depth >= 1 /\ act = acts[Depth] /\ instr = Instr(Depth) /\ at = SiteOf(Depth)
      /\ act.fn \in DOMAIN prog /\ act.k \in 1 .. Size(prog[act.fn], act.block)
      /\ act.block \in Label(prog[act.fn])
      /\ g \in DOMAIN prog /\ Size(prog[g], prog[g].first) \in Nat /\ prog[g].first \in Label(prog[g])
      /\ info[g].returnsToAddress => CallsAddress(instr)
      /\ g \in Reached(G, act.fn)
  BY StartsFacts
<1> PICK n : n = Depth + 1
  OBVIOUS
<1>2. /\ IsSeq(acts') /\ Depth' = n /\ \A i \in 1 .. Depth : acts'[i] = acts[i]
      /\ IsSeq(conts') /\ Len(conts) \in Nat /\ Len(conts) < Depth /\ Len(conts') < Depth'
      /\ info[g].returnsToAddress => conts' = << >> /\ Base = Depth /\ Base' = n
      /\ ~info[g].returnsToAddress =>
                 /\ Base' = Base /\ Len(conts') = Len(conts) + 1 /\ Base + Len(conts) = Depth
                 /\ \A i \in 1 .. Len(conts) : conts'[i] = conts[i]
                 /\ conts'[Len(conts) + 1] = IF CallsAddress(instr) THEN [at |-> Expected(pointers, instr, at), params |-> NoParams]
                                             ELSE [at |-> at, params |-> params]
      /\ Base \in 1 .. Depth
  BY StartsStack
<1>3. /\ acts'[n] = [fn |-> g, block |-> prog[g].first, k |-> 1, env |-> env]
      /\ LiveOf(n)' \subseteq DOMAIN env
      /\ \A x \in DOMAIN env : Where(n, x)' = GetParam(params', x) /\ <<g, x>> \in Names
                               /\ x \notin {return_address, branch_id}
      /\ info[g].takesReturnAddress => Where(n, return_address)' = GetParam(params', return_address)
  BY StartsCallee
<1>4. UNCHANGED static /\ glob' = glob /\ retVar' = retVar /\ localStack' = localStack
  BY DEF Starts
<1>5. /\ prog' = prog /\ jumpTable' = jumpTable /\ pointers' = pointers /\ info' = info /\ sigInfo' = sigInfo
      /\ (StaticInv' <=> StaticInv) /\ Names' = Names
      /\ \A j : CallsAddress(j)' <=> CallsAddress(j)
  BY <1>4, StaticUnchanged
<1>6. /\ StaticInv /\ FramesInv /\ ContsInv /\ ValuesInv /\ AddressInv /\ NumbersInv /\ localStack = << >>
      /\ G \in [DOMAIN prog -> SUBSET DOMAIN prog]
  BY StaticUse DEF IInv
<1>7. ASSUME NEW i \in 1 .. Depth
      PROVE  /\ Instr(i)' = Instr(i) /\ SiteOf(i)' = SiteOf(i) /\ acts'[i] = acts[i]
             /\ LiveOf(i)' \subseteq LiveOf(i)
             /\ \A x \in LiveOf(i)' : <<acts[i].fn, x>> \in Names => Where(i, x)' = Where(i, x)
             /\ info[acts[i].fn].takesReturnAddress /\ <<acts[i].fn, return_address>> \in Names =>
                    Where(i, return_address)' = Where(i, return_address)
  BY StartsWaiting
<1>8. 1 .. n = (1 .. Depth) \cup {n} /\ n \in Nat /\ n - 1 = Depth /\ n > Depth /\ 1 .. n - 1 = 1 .. Depth
  BY <1>1
<1>9. acts'[n].fn = g /\ acts'[n].block = prog[g].first /\ acts'[n].k = 1 /\ acts'[n].env = env
  BY <1>3
<1>10. FramesInv'
  <2>1. FrameOK(prog, Names, acts'[n])
    <3>1. 1 \in 1 .. Size(prog[g], prog[g].first) + 1
      BY <1>1
    <3>2. acts'[n] = [fn |-> acts'[n].fn, block |-> acts'[n].block, k |-> acts'[n].k, env |-> acts'[n].env]
      BY <1>3
    <3> QED
      BY <1>1, <1>3, <1>9, <3>1, <3>2 DEF FrameOK
  <2>2. \A i \in 1 .. n : FrameOK(prog', Names', acts'[i])
    <3>1. ASSUME NEW i \in 1 .. Depth PROVE FrameOK(prog, Names, acts'[i])
      BY <1>6, <1>7 DEF FramesInv
    <3>2. prog' = prog /\ Names' = Names
      BY <1>5
    <3> QED
      BY <1>8, <2>1, <3>1, <3>2
  <2>3. acts'[1].fn = Entry
    BY <1>1, <1>2, <1>6 DEF FramesInv
  <2>4. ASSUME NEW i \in 1 .. n - 1
        PROVE  /\ acts'[i].k <= Size(prog'[acts'[i].fn], acts'[i].block)
               /\ IsCall(Instr(i)') /\ acts'[i + 1].fn \in ToSet(CouldCall(pointers', Instr(i)'))
    <3>0. i \in 1 .. Depth
      BY <1>8
    <3>1. CASE i = Depth
      <4>1. acts'[i] = act /\ Instr(i)' = instr /\ acts'[i + 1].fn = g
        BY <1>1, <1>7, <1>9, <3>0, <3>1
      <4>2. act.k <= Size(prog[act.fn], act.block)
        BY <1>1
      <4>3. IsCall(instr) /\ g \in ToSet(CouldCall(pointers, instr))
        BY DEF Starts
      <4> QED
        BY <1>5, <4>1, <4>2, <4>3
    <3>2. CASE i # Depth
      <4>1. i \in 1 .. Depth - 1 /\ i + 1 \in 1 .. Depth
        BY <1>1, <3>0, <3>2
      <4>2. /\ acts[i].k <= Size(prog[acts[i].fn], acts[i].block)
            /\ IsCall(Instr(i)) /\ acts[i + 1].fn \in ToSet(CouldCall(pointers, Instr(i)))
        BY <1>6, <4>1 DEF FramesInv
      <4>3. acts'[i] = acts[i] /\ acts'[i + 1] = acts[i + 1] /\ Instr(i)' = Instr(i)
        BY <1>7, <3>0, <4>1
      <4> QED
        BY <1>5, <4>2, <4>3
    <3> QED
      BY <3>1, <3>2
  <2>5. ASSUME NEW i \in 1 .. n, NEW j \in 1 .. n, i < j
        PROVE  acts'[j].fn \in Reached(CallGraph(prog', pointers'), acts'[i].fn)
    <3>0. i \in 1 .. Depth /\ acts'[i] = acts[i]
      <4>1. i \in 1 .. Depth
        BY <1>1, <1>8, <2>5
      <4> QED
        BY <1>7, <4>1
    <3>1. CASE j \in 1 .. Depth
      BY <1>5, <1>6, <1>7, <2>5, <3>0, <3>1 DEF FramesInv
    <3>2. CASE j = n /\ i = Depth
      BY <1>1, <1>5, <1>9, <3>0, <3>2
    <3>3. CASE j = n /\ i # Depth
      <4>1. i < Depth /\ Depth \in 1 .. Depth
        BY <1>1, <3>0, <3>3
      <4>2. act.fn \in Reached(G, acts[i].fn)
        BY <1>1, <1>6, <3>0, <4>1 DEF FramesInv
      <4>3. acts[i].fn \in DOMAIN prog
        BY <1>6, <3>0 DEF FramesInv, FrameOK
      <4>4. g \in Reached(G, acts[i].fn)
        BY <1>1, <1>6, <4>2, <4>3, ReachedTrans
      <4> QED
        BY <1>5, <1>9, <3>0, <3>3, <4>4
    <3> QED
      BY <1>8, <3>1, <3>2, <3>3
  <2> QED
    BY <1>2, <2>2, <2>3, <2>4, <2>5 DEF FramesInv, IsSeq
<1>11. ContsInv'
  <2>1. ASSUME NEW i \in 2 .. n
        PROVE  /\ info'[acts'[i].fn].returnsToAddress <=> i <= Base'
               /\ i > Base' => IF CallsAddress(Instr(i - 1))'
                               THEN conts'[i - Base'] = [at |-> From(i)', params |-> NoParams]
                               ELSE conts'[i - Base'].at = SiteOf(i - 1)'
    <3>1. i - 1 \in 1 .. Depth /\ i \in 1 .. n
      BY <1>1, <1>8
    <3>2. Instr(i - 1)' = Instr(i - 1) /\ SiteOf(i - 1)' = SiteOf(i - 1)
      BY <1>7, <3>1
    <3>3. From(i)' = From(i)
      BY <1>5, <3>2 DEF From
    <3>4. CallsAddress(Instr(i - 1))' <=> CallsAddress(Instr(i - 1))
      BY <1>5, <3>2 DEF CallsAddress, CallInfo
    <3>5. CASE i \in 2 .. Depth
      <4>1. /\ info[acts[i].fn].returnsToAddress <=> i <= Base
            /\ i > Base => IF CallsAddress(Instr(i - 1)) THEN conts[i - Base] = [at |-> From(i), params |-> NoParams]
                           ELSE conts[i - Base].at = SiteOf(i - 1)
        BY <1>6, <3>5 DEF ContsInv
      <4>2. acts'[i] = acts[i] /\ info' = info
        BY <1>2, <1>5, <3>5
      <4>3. CASE info[g].returnsToAddress
        <5>1. i <= Base /\ i <= Base' /\ ~(i > Base')
          BY <1>1, <1>2, <3>5, <4>3
        <5> QED
          BY <4>1, <4>2, <5>1
      <4>4. CASE ~info[g].returnsToAddress
        <5>1. Base' = Base
          BY <1>2, <4>4
        <5>2. i > Base => conts'[i - Base] = conts[i - Base]
          <6>1. i > Base => i - Base \in 1 .. Len(conts)
            BY <1>1, <1>2, <3>5, <4>4
          <6> QED
            BY <1>2, <4>4, <6>1
        <5> QED
          BY <3>2, <3>3, <3>4, <4>1, <4>2, <5>1, <5>2
      <4> QED
        BY <4>3, <4>4
    <3>6. CASE i = n
      <4>1. i - 1 = Depth /\ acts'[i].fn = g /\ info' = info
        BY <1>5, <1>8, <1>9, <3>6
      <4>2. From(i) = Expected(pointers, instr, at) /\ Instr(i - 1) = instr /\ SiteOf(i - 1) = at
        BY <1>1, <4>1 DEF From
      <4>3. CASE info[g].returnsToAddress
        <5>1. Base' = n /\ i <= Base' /\ ~(i > Base')
          BY <1>1, <1>2, <3>6, <4>3
        <5> QED
          BY <4>1, <4>3, <5>1
      <4>4. CASE ~info[g].returnsToAddress
        <5>1. ~(i <= Base') /\ i - Base' = Len(conts) + 1
          <6>1. Depth \in Nat /\ Len(conts) \in Nat
            BY <1>1, <1>2
          <6>2. Base' = Base /\ Base + Len(conts) = Depth /\ Base \in 1 .. Depth
            BY <1>2, <4>4
          <6>3. i = Depth + 1
            BY <1>8, <3>6
          <6> QED
            BY <6>1, <6>2, <6>3
        <5>2. conts'[i - Base'] = IF CallsAddress(instr) THEN [at |-> Expected(pointers, instr, at), params |-> NoParams]
                                  ELSE [at |-> at, params |-> params]
          BY <1>2, <4>4, <5>1
        <5> QED
          BY <3>2, <3>3, <3>4, <4>1, <4>2, <4>4, <5>1, <5>2
      <4> QED
        BY <4>3, <4>4
    <3> QED
      <4>1. i \in 2 .. Depth \/ i = n
        BY <1>1, <1>8
      <4> QED
        BY <3>5, <3>6, <4>1
  <2>2. NoParams' = NoParams
    BY DEF NoParams
  <2>3. Depth' # 0
    BY <1>1, <1>2, <1>8
  <2> QED
    BY <1>2, <2>1, <2>2, <2>3 DEF ContsInv, IsSeq
<1>12. ValuesInv'
  <2> SUFFICES ASSUME NEW i \in 1 .. n, NEW x \in LiveOf(i)'
               PROVE  x \in DOMAIN acts'[i].env /\ Where(i, x)' = Translated(pointers', acts'[i].env[x])
    BY <1>2 DEF ValuesInv
  <2>0. pointers' = pointers
    BY <1>5
  <2>1. CASE i = n
    <3>1. x \in DOMAIN env /\ acts'[i].env = env
      BY <1>3, <1>9, <2>1
    <3>2. Where(i, x)' = GetParam(params', x)
      BY <1>3, <2>1, <3>1
    <3>3. GetParam(params', x) = Translated(pointers, env[x])
      BY <3>1 DEF Starts
    <3> QED
      BY <2>0, <3>1, <3>2, <3>3
  <2>2. CASE i \in 1 .. Depth
    <3>1. x \in LiveOf(i) /\ acts'[i] = acts[i]
      BY <1>7, <2>2
    <3>2. x \in DOMAIN acts[i].env /\ Where(i, x) = Translated(pointers, acts[i].env[x])
      BY <1>6, <2>2, <3>1 DEF ValuesInv
    <3>3. <<acts[i].fn, x>> \in Names
      BY <1>6, <2>2, <3>2 DEF FramesInv, FrameOK
    <3>4. Where(i, x)' = Where(i, x)
      BY <1>7, <2>2, <3>3
    <3> QED
      BY <2>0, <3>1, <3>2, <3>4
  <2> QED
    BY <1>8, <2>1, <2>2
<1>13. AddressInv'
  <2>1. ASSUME NEW i \in 2 .. n, info'[acts'[i].fn].takesReturnAddress
        PROVE  Where(i, return_address)' = Numbered(info'[acts'[i].fn].returnAddresses, From(i)') - 1
    <3>1. i - 1 \in 1 .. Depth /\ i \in 1 .. n
      BY <1>1, <1>8
    <3>2. Instr(i - 1)' = Instr(i - 1) /\ SiteOf(i - 1)' = SiteOf(i - 1)
      BY <1>7, <3>1
    <3>3. From(i)' = From(i)
      BY <1>5, <3>2 DEF From
    <3>4. CASE i = n
      <4>1. acts'[i].fn = g /\ i - 1 = Depth /\ info' = info
        BY <1>5, <1>8, <1>9, <3>4
      <4>2. info[g].takesReturnAddress
        BY <2>1, <4>1
      <4>3. From(i) = Expected(pointers, instr, at)
        BY <1>1, <4>1 DEF From
      <4>4. GetParam(params', return_address) = Numbered(info[g].returnAddresses, Expected(pointers, instr, at)) - 1
        BY <4>2 DEF Starts
      <4>5. Where(i, return_address)' = GetParam(params', return_address)
        BY <1>3, <3>4, <4>2
      <4> QED
        BY <3>3, <4>1, <4>3, <4>4, <4>5
    <3>5. CASE i \in 2 .. Depth
      <4>1. i \in 1 .. Depth /\ acts'[i] = acts[i] /\ info' = info
        BY <1>2, <1>5, <3>5
      <4>2. info[acts[i].fn].takesReturnAddress
        BY <2>1, <4>1
      <4>3. Where(i, return_address) = Numbered(info[acts[i].fn].returnAddresses, From(i)) - 1
        BY <1>6, <3>5, <4>2 DEF AddressInv
      <4>4. acts[i].fn \in DOMAIN prog
        BY <1>6, <4>1 DEF FramesInv, FrameOK
      <4>5. <<acts[i].fn, return_address>> \in Names
        BY <1>6, <4>4, NamesFacts
      <4>6. Where(i, return_address)' = Where(i, return_address)
        BY <1>7, <4>1, <4>2, <4>5
      <4> QED
        BY <3>3, <4>1, <4>3, <4>6
    <3> QED
      <4>1. i \in 2 .. Depth \/ i = n
        BY <1>1, <1>8
      <4> QED
        BY <3>4, <3>5, <4>1
  <2>2. ASSUME NEW i \in 1 .. Depth, CallsAddress(Instr(i))', Dispatched(pointers', Instr(i)')
        PROVE  LET s == SignatureOf(pointers', Instr(i)')
               IN  sigInfo'[s].takesReturnAddress => sigReturn'[s] = Numbered(sigInfo'[s].returnAddresses, SiteOf(i)') - 1
    <3> DEFINE s == SignatureOf(pointers, Instr(i))
    <3>1. Instr(i)' = Instr(i) /\ SiteOf(i)' = SiteOf(i)
      BY <1>7
    <3>2. CallsAddress(Instr(i)) /\ Dispatched(pointers, Instr(i))
      <4>1. CallsAddress(Instr(i))' <=> CallsAddress(Instr(i))
        BY <1>5, <3>1 DEF CallsAddress, CallInfo
      <4> QED
        BY <1>5, <2>2, <3>1, <4>1
    <3>3. sigInfo[s].takesReturnAddress => sigReturn'[s] = Numbered(sigInfo[s].returnAddresses, SiteOf(i)) - 1
      <4>1. CASE i = Depth
        BY <1>1, <3>2, <4>1 DEF Starts
      <4>2. CASE i # Depth
        <5>1. i \in 1 .. Depth - 1
          BY <1>1, <4>2
        <5>2. sigInfo[s].takesReturnAddress => sigReturn[s] = Numbered(sigInfo[s].returnAddresses, SiteOf(i)) - 1
          BY <1>6, <3>2, <5>1 DEF AddressInv
        <5>3. s \in DOMAIN pointers
          <6>1. acts[i].fn \in DOMAIN prog /\ acts[i].block \in Label(prog[acts[i].fn]) /\ acts[i].k \in 1 .. Size(prog[acts[i].fn], acts[i].block) + 1
                /\ acts[i].k <= Size(prog[acts[i].fn], acts[i].block) /\ IsCall(Instr(i))
            BY <1>6, <5>1 DEF FramesInv, FrameOK
          <6>2. IsProgram(prog) /\ SigsOK(prog, pointers)
            BY <1>6, StaticUse
          <6>3. Size(prog[acts[i].fn], acts[i].block) \in Nat
            BY <6>1, <6>2, FunctionFacts
          <6>4. acts[i].k \in 1 .. Size(prog[acts[i].fn], acts[i].block)
            BY <6>1, <6>3
          <6>5. Instr(i) = prog[acts[i].fn].body[acts[i].block][acts[i].k]
            BY DEF Instr
          <6>6. Instr(i) \in AllInstrs(prog)
            BY <6>1, <6>2, <6>4, <6>5, InstrFacts
          <6>7. ByPointer(Instr(i))
            BY <3>2, <6>1, <6>2, <6>6, CouldCallFacts
          <6> QED
            BY <6>1, <6>2, <6>6, <6>7, CouldCallFacts
        <5>4. ~(CallsAddress(instr) /\ Dispatched(pointers, instr)) \/ s # SignatureOf(pointers, instr)
          BY <3>2, <5>1, NoneWaiting
        <5>5. sigReturn'[s] = sigReturn[s]
          BY <5>3, <5>4 DEF Starts
        <5> QED
          BY <5>2, <5>5
      <4> QED
        BY <4>1, <4>2
    <3> QED
      BY <1>5, <3>1, <3>3
  <2>3. Depth' = n /\ 1 .. n - 1 = 1 .. Depth
    BY <1>2, <1>8
  <2>4. \A i \in 2 .. Depth' : info'[acts'[i].fn].takesReturnAddress =>
            Where(i, return_address)' = Numbered(info'[acts'[i].fn].returnAddresses, From(i)') - 1
    BY <2>1, <2>3
  <2>5. \A i \in 1 .. Depth' - 1 : CallsAddress(Instr(i))' /\ Dispatched(pointers', Instr(i)') =>
            LET s == SignatureOf(pointers', Instr(i)')
            IN  sigInfo'[s].takesReturnAddress => sigReturn'[s] = Numbered(sigInfo'[s].returnAddresses, SiteOf(i)') - 1
    BY <2>2, <2>3
  <2> QED
    BY <2>4, <2>5 DEF AddressInv
<1>14. NumbersInv'
  <2>1. glob' \in [Names' -> Nat] /\ retVar' \in Nat
    BY <1>4, <1>5, <1>6 DEF NumbersInv
  <2>2. sigReturn' \in [DOMAIN pointers' -> Nat]
    BY <1>5 DEF Starts
  <2>3. \A m \in DOMAIN params' : params'[m] \in Nat
    BY DEF Starts
  <2>4. \A i \in DOMAIN conts' : \A m \in DOMAIN conts'[i].params : conts'[i].params[m] \in Nat
    <3>1. CASE info[g].returnsToAddress
      BY <1>2, <3>1
    <3>2. CASE ~info[g].returnsToAddress
      <4> SUFFICES ASSUME NEW i \in DOMAIN conts', NEW m \in DOMAIN conts'[i].params PROVE conts'[i].params[m] \in Nat
        OBVIOUS
      <4>1. DOMAIN conts' = 1 .. Len(conts')
        BY <1>2, SeqFacts
      <4>2. i \in 1 .. Len(conts) \/ i = Len(conts) + 1
        <5>1. Len(conts) \in Nat /\ Len(conts') = Len(conts) + 1
          BY <1>2, <3>2
        <5>2. i \in 1 .. Len(conts) + 1
          BY <4>1, <5>1
        <5> QED
          BY ONLY <5>1, <5>2
      <4>3. CASE i \in 1 .. Len(conts)
        <5>1. conts'[i] = conts[i]
          BY <1>2, <3>2, <4>3
        <5>2. i \in DOMAIN conts
          <6>1. IsSeq(conts)
            BY <1>6 DEF ContsInv, IsSeq
          <6> QED
            BY <4>3, <6>1, SeqFacts
        <5> QED
          BY <1>6, <5>1, <5>2 DEF NumbersInv
      <4>4. CASE i = Len(conts) + 1
        <5>1. conts'[i].params = NoParams \/ conts'[i].params = params
          BY <1>2, <3>2, <4>4
        <5> QED
          BY <1>6, <5>1 DEF NumbersInv, NoParams
      <4> QED
        BY <4>2, <4>3, <4>4
    <3> QED
      BY <3>1, <3>2
  <2> QED
    BY <2>1, <2>2, <2>3, <2>4 DEF NumbersInv
<1>15. at' = Position'
  <2>1. Len(acts') = n /\ acts' # << >>
    <3>1. Len(acts') = n
      BY <1>2 DEF Depth
    <3> QED
      BY <1>1, <1>2, <1>8, <3>1, SeqFacts
  <2>2. Position' = Site(g, prog[g].first, 1)
    BY <1>9, <2>1 DEF Position, act, Last
  <2> QED
    BY <2>2 DEF Starts
<1> QED
  BY <1>4, <1>5, <1>6, <1>10, <1>11, <1>12, <1>13, <1>14, <1>15 DEF IInv

(* The call and the place it is at.                                           *)
LEMMA AtCallFacts ==
    ASSUME IInv, AtCall
    PROVE  /\ act.fn \in DOMAIN prog /\ act.block \in Label(prog[act.fn]) /\ act.k \in 1 .. Size(prog[act.fn], act.block)
           /\ instr = prog[act.fn].body[act.block][act.k] /\ at = Site(act.fn, act.block, act.k)
           /\ at.fn = act.fn /\ at.block = act.block /\ at.k = act.k /\ IsCall(instr) /\ instr \in AllInstrs(prog)
           /\ StaticInv /\ IsProgram(prog) /\ SigsOK(prog, pointers)
           /\ CallOK(prog, pointers, info, sigInfo, act.fn, act.block, act.k)
           /\ Saved = {}
           /\ CallsAddress(instr) <=> Addressed(pointers, info, instr)
           /\ Uses(fn, at.block, at.k) = instr.uses
<1>1. InStep /\ at.k <= Size(fn, at.block) /\ IsCall(instr)
  BY DEF AtCall
<1>2. /\ at = Site(act.fn, act.block, act.k) /\ fn = prog[act.fn]
      /\ at.fn = act.fn /\ at.block = act.block /\ at.k = act.k
      /\ act.fn \in DOMAIN prog /\ act.block \in Label(prog[act.fn]) /\ act.k \in 1 .. Size(prog[act.fn], act.block) + 1
  BY <1>1, PositionFacts
<1>3. StaticInv /\ IsProgram(prog) /\ SigsOK(prog, pointers)
  BY StaticUse DEF IInv
<1>4. act.k \in 1 .. Size(prog[act.fn], act.block)
  <2>1. Size(prog[act.fn], act.block) \in Nat
    BY <1>2, <1>3, FunctionFacts
  <2>2. act.k <= Size(prog[act.fn], act.block)
    BY <1>1, <1>2
  <2> QED
    BY <1>2, <2>1, <2>2
<1>5. instr = prog[act.fn].body[act.block][act.k]
  BY <1>2 DEF instr
<1>6. instr \in AllInstrs(prog)
  BY <1>2, <1>3, <1>4, <1>5, InstrFacts
<1>7. CallOK(prog, pointers, info, sigInfo, act.fn, act.block, act.k)
  <2>1. IsCall(prog[act.fn].body[act.block][act.k])
    BY <1>1, <1>5
  <2> QED
    BY <1>2, <1>3, <1>4, <2>1, StaticUse
<1>8. CallsAddress(instr) <=> Addressed(pointers, info, instr)
  BY <1>1, <1>2, <1>3, <1>4, <1>5, AddressedFacts
<1>9. Saved = {}
  <2>1. FunctionOK(jumpTable, prog, info, act.fn)
    BY <1>2, <1>3, StaticUse
  <2> QED
    BY <1>2, <1>4, <2>1 DEF FunctionOK, Saved
<1>10. Uses(fn, at.block, at.k) = instr.uses
  BY <1>1 DEF Uses, instr
<1> QED
  BY <1>1, <1>2, <1>3, <1>4, <1>5, <1>6, <1>7, <1>8, <1>9, <1>10

(* The project calls the function the program calls (trans_func_ptr_sigs).    *)
LEMMA CalleeFacts ==
    ASSUME IInv, AtCall
    PROVE  /\ Callee = Called /\ Called \in ToSet(CouldCall(pointers, instr))
           /\ Called \in DOMAIN prog /\ Len(prog[Called].params) = Len(instr.args)
<1>1. /\ IsCall(instr) /\ instr \in AllInstrs(prog) /\ IsProgram(prog) /\ SigsOK(prog, pointers) /\ InStep /\ Pointed
      /\ Uses(fn, at.block, at.k) = instr.uses
  BY AtCallFacts DEF AtCall
<1> DEFINE c == CouldCall(pointers, instr)
           s == SignatureOf(pointers, instr)
<1>2. /\ ~Dispatched(pointers, instr) => ToSet(c) = {c[1]}
      /\ ~ByPointer(instr) => ~Dispatched(pointers, instr) /\ c = <<instr.to>>
      /\ ByPointer(instr) => /\ s \in DOMAIN pointers
                             /\ \A g \in Sharing(prog, Len(instr.args)) : g \in ToSet(c)
      /\ ByPointer(instr) => instr.ptr \in instr.uses
      /\ \A g \in ToSet(c) : g \in DOMAIN prog /\ Len(prog[g].params) = Len(instr.args)
  BY <1>1, CouldCallFacts
<1>3. CASE ~ByPointer(instr)
  <2>1. Called = instr.to /\ ~Dispatched(pointers, instr) /\ c[1] = instr.to
    BY <1>2, <1>3 DEF Called
  <2>2. Callee = c[1] /\ c[1] \in ToSet(c)
    BY <1>2, <2>1 DEF Callee
  <2> QED
    BY <1>2, <2>1, <2>2
<1>4. CASE ByPointer(instr)
  <2> DEFINE v == act.env[instr.ptr]
  <2>1. PICK f \in Sharing(prog, Len(instr.args)) : Pointer[f] = v
    BY <1>1, <1>4 DEF Pointed
  <2>2. f \in DOMAIN Pointer
    BY <1>1, FiniteProgram DEF Sharing
  <2>3. CalledByAddress(v) = f
    BY <2>1, <2>2, PointerAssumption DEF CalledByAddress
  <2>4. Called = f
    BY <1>4, <2>3 DEF Called
  <2>5. f \in ToSet(c)
    BY <1>2, <1>4
  <2>6. CASE ~Dispatched(pointers, instr)
    <3>1. Callee = c[1]
      BY <2>6 DEF Callee
    <3> QED
      BY <1>2, <2>4, <2>5, <2>6, <3>1
  <2>7. CASE Dispatched(pointers, instr)
    <3>1. Read(instr.ptr) = FuncPtrAddr(pointers, f)
      <4>1. Read(instr.ptr) = Translated(pointers, v)
        BY <1>1, <1>2, <1>4, ReadFacts
      <4>2. v \in Range(Pointer)
        BY <2>1, <2>2 DEF Range
      <4>3. (CHOOSE g \in DOMAIN Pointer : Pointer[g] = v) = f
        BY <2>3 DEF CalledByAddress
      <4> QED
        BY <4>1, <4>2, <4>3 DEF Translated
    <3>2. pointers[s].params = Len(instr.args)
      <4>1. instr \in PointerCalls(prog)
        BY <1>1, <1>4 DEF PointerCalls
      <4>2. \E t \in DOMAIN pointers : pointers[t].params = Len(instr.args)
        BY <1>1, <4>1 DEF SigsOK
      <4> QED
        BY <4>2 DEF SignatureOf
    <3>3. f \in Sharing(prog, pointers[s].params)
      BY <3>2
    <3>4. Looked(FuncPtrAddr(pointers, f), DispatchTable(pointers, s)) = f
      <4> HIDE DEF s
      <4> QED
        BY <1>1, <1>2, <1>4, <3>3, DispatchFinds
    <3>5. Callee = f
      BY <2>7, <3>1, <3>4 DEF Callee
    <3> QED
      BY <1>2, <2>4, <2>5, <3>5
  <2> QED
    BY <2>6, <2>7
<1> QED
  BY <1>3, <1>4

(* The callee finds in its parameters what the arguments are in the program.  *)
LEMMA EnterFacts ==
    ASSUME IInv, AtCall, NEW from, Enter(Arguments(Available(at), params), from),
           info[Called].takesReturnAddress => from = Expected(pointers, instr, at)
    PROVE  \E env : /\ acts' = Append(acts, Act(Called, env)) /\ DOMAIN env = ToSet(prog[Called].params)
                    /\ at' = Site(Called, prog[Called].first, 1)
                    /\ \A x \in DOMAIN env : GetParam(params', x) = Translated(pointers, env[x])
                    /\ \A n \in DOMAIN params' : params'[n] \in Nat
                    /\ info[Called].takesReturnAddress =>
                          GetParam(params', return_address)
                             = Numbered(info[Called].returnAddresses, Expected(pointers, instr, at)) - 1
<1> PICK g : g = Called
  OBVIOUS
<1> PICK P : P = prog[g].params
  OBVIOUS
<1> PICK address : address = Numbered(info[g].returnAddresses, from) - 1
  OBVIOUS
<1> DEFINE values == Arguments(Available(at), params)
           given  == [i \in DOMAIN instr.args |-> act.env[instr.args[i]]]
           index(n) == CHOOSE i \in DOMAIN P : <<P[i]>> = n
           N == {<<P[i]>> : i \in DOMAIN P}
           bound(vs) == [n \in N |-> vs[index(n)]]
           env == [x \in ToSet(P) |-> bound(given)[<<x>>]]
           takes == info[g].takesReturnAddress
<1>1. Callee = g /\ g \in DOMAIN prog /\ Len(P) = Len(instr.args) /\ g \in ToSet(CouldCall(pointers, instr))
  BY CalleeFacts
<1>2. /\ at' = Site(g, prog[g].first, 1)
      /\ params' = IF takes THEN Set(bound(values), <<return_address>>, address) ELSE bound(values)
      /\ acts' = Append(acts, Act(g, env))
  <2> DEFINE B(f, vs) == [n \in {<<prog[f].params[i]>> : i \in DOMAIN prog[f].params} |->
                             vs[CHOOSE i \in DOMAIN prog[f].params : <<prog[f].params[i]>> = n]]
             E(f) == [x \in ToSet(prog[f].params) |-> B(f, given)[<<x>>]]
  <2>1. /\ at' = Site(Callee, prog[Callee].first, 1)
        /\ params' = IF info[Callee].takesReturnAddress
                     THEN Set(B(Callee, values), <<return_address>>, Numbered(info[Callee].returnAddresses, from) - 1)
                     ELSE B(Callee, values)
        /\ acts' = Append(acts, Act(Called, E(Called)))
    BY DEF Enter
  <2>2. \A vs : B(g, vs) = bound(vs)
    OBVIOUS
  <2>3. E(g) = env
    OBVIOUS
  <2> HIDE DEF B, E, bound, env, values
  <2>4. at' = Site(g, prog[g].first, 1) /\ acts' = Append(acts, Act(g, E(g)))
    BY <1>1, <2>1
  <2>5. params' = IF takes THEN Set(B(g, values), <<return_address>>, address) ELSE B(g, values)
    BY <1>1, <2>1
  <2> QED
    BY <2>2, <2>3, <2>4, <2>5
<1>3. IsProgram(prog) /\ InStep /\ Uses(fn, at.block, at.k) = instr.uses /\ instr \in AllInstrs(prog) /\ IsCall(instr)
      /\ SigsOK(prog, pointers) /\ NumbersInv /\ StaticInv
  BY AtCallFacts DEF AtCall, IInv
<1>4. P \in Seq(ToSet(P)) /\ return_address \notin ToSet(P)
  BY <1>1, <1>3, FunctionFacts
<1>5. instr.args \in Seq(instr.uses)
  BY <1>3, CouldCallFacts
<1>6. DOMAIN P = 1 .. Len(P) /\ DOMAIN instr.args = 1 .. Len(P)
  <2>1. IsSeq(P) /\ IsSeq(instr.args)
    BY <1>4, <1>5, SeqFacts DEF IsSeq
  <2> QED
    BY <1>1, <2>1, SeqFacts
<1>7. ASSUME NEW i \in DOMAIN P
      PROVE  /\ values[i] = Read(instr.args[i]) /\ given[i] = act.env[instr.args[i]]
             /\ Read(instr.args[i]) = Translated(pointers, act.env[instr.args[i]])
             /\ values[i] \in Nat
  <2>1. i \in DOMAIN instr.args
    BY <1>6
  <2>2. instr.args[i] \in instr.uses
    BY <1>5, <2>1
  <2>3. values[i] = Read(instr.args[i])
    BY <2>1 DEF Arguments, Read
  <2>4. given[i] = act.env[instr.args[i]]
    BY <2>1
  <2> PICK y : y = instr.args[i]
    OBVIOUS
  <2>5. y \in DOMAIN act.env /\ Read(y) = Translated(pointers, act.env[y])
    BY <1>3, <2>2, ReadFacts
  <2>6. Read(y) \in Nat
    <3>1. FrameOK(prog, Names, act) /\ at.fn = act.fn
      BY <1>3, PositionFacts
    <3>2. <<at.fn, y>> \in Names
      BY <2>5, <3>1 DEF FrameOK
    <3>3. glob[<<at.fn, y>>] \in Nat /\ GetParam(params, y) \in Nat
      BY <1>3, <3>2 DEF NumbersInv, GetParam
    <3> QED
      BY <3>3 DEF Read, Value
  <2> QED
    BY <2>3, <2>4, <2>5, <2>6
<1>8. ASSUME NEW x \in ToSet(P)
      PROVE  /\ <<x>> \in N /\ index(<<x>>) \in DOMAIN P /\ <<x>> # <<return_address>>
  <2>1. \E i \in DOMAIN P : P[i] = x
    BY <1>4, <1>6 DEF ToSet
  <2>2. \E i \in DOMAIN P : <<P[i]>> = <<x>>
    BY <2>1
  <2>3. <<x>> \in N /\ index(<<x>>) \in DOMAIN P
    BY <2>2
  <2>4. x # return_address
    BY <1>4
  <2>5. \A y, z : <<y>> = <<z>> => y = z
    OBVIOUS
  <2> QED
    BY <2>3, <2>4, <2>5
<1>9. \A n \in N : index(n) \in DOMAIN P
  <2> SUFFICES ASSUME NEW n \in N PROVE index(n) \in DOMAIN P
    OBVIOUS
  <2>1. \E i \in DOMAIN P : <<P[i]>> = n
    OBVIOUS
  <2> QED
    BY <2>1
<1>10. takes => address \in Nat
  <2>1. FunctionOK(jumpTable, prog, info, g)
    BY <1>1, <1>3, StaticUse
  <2>2. takes => info[g].returnsToAddress
    BY <2>1 DEF FunctionOK
  <2>3. /\ info[g].returnsToAddress => ReturnsTo(info[g], Expected(pointers, instr, at))
    BY <1>1, AtCallFacts DEF CallOK
  <2>4. takes => from = Expected(pointers, instr, at)
    OBVIOUS
  <2> QED
    BY <2>2, <2>3, <2>4 DEF ReturnsTo
<1> HIDE DEF index
<1> DEFINE q == bound(values)
           r == <<return_address>>
<1>11. DOMAIN q = N /\ \A n \in N : q[n] = values[index(n)]
  OBVIOUS
<1>12. r \notin N
  <2> SUFFICES ASSUME NEW i \in DOMAIN P, <<P[i]>> = <<return_address>> PROVE FALSE
    OBVIOUS
  <2>1. P[i] = return_address
    OBVIOUS
  <2>2. P[i] \in ToSet(P)
    BY DEF ToSet
  <2> QED
    BY <1>4, <2>1, <2>2
<1>13. \A x \in ToSet(P) : env[x] = given[index(<<x>>)]
  BY <1>8
<1>14. DOMAIN env = ToSet(P)
  OBVIOUS
<1> HIDE DEF q, N, values, given, env
<1>15. \A n \in N : n \in DOMAIN params' /\ params'[n] = q[n]
  <2>1. CASE takes
    <3>1. params' = Set(q, r, address)
      BY <1>2, <2>1 DEF q
    <3>2. DOMAIN Set(q, r, address) = DOMAIN q \cup {r} /\ \A y \in DOMAIN q : y # r => Set(q, r, address)[y] = q[y]
      BY DEF Set
    <3> QED
      BY <1>11, <1>12, <3>1, <3>2
  <2>2. CASE ~takes
    BY <1>2, <1>11, <2>2 DEF q
  <2> QED
    BY <2>1, <2>2
<1>16. takes => r \in DOMAIN params' /\ params'[r] = address
  <2> SUFFICES ASSUME takes PROVE r \in DOMAIN params' /\ params'[r] = address
    OBVIOUS
  <2>1. params' = Set(q, r, address)
    BY <1>2 DEF q
  <2>2. DOMAIN Set(q, r, address) = DOMAIN q \cup {r} /\ Set(q, r, address)[r] = address
    BY DEF Set
  <2> QED
    BY <2>1, <2>2
<1>17. \A n \in DOMAIN params' : n \in N \/ (takes /\ n = r)
  <2>1. CASE takes
    <3>1. params' = Set(q, r, address)
      BY <1>2, <2>1 DEF q
    <3>2. DOMAIN Set(q, r, address) = DOMAIN q \cup {r}
      BY DEF Set
    <3> QED
      BY <1>11, <2>1, <3>1, <3>2
  <2>2. CASE ~takes
    BY <1>2, <1>11, <2>2 DEF q
  <2> QED
    BY <2>1, <2>2
<1>18. \A x \in DOMAIN env : GetParam(params', x) = Translated(pointers, env[x])
  <2> SUFFICES ASSUME NEW x \in ToSet(P) PROVE GetParam(params', x) = Translated(pointers, env[x])
    BY <1>14
  <2>1. <<x>> \in N /\ index(<<x>>) \in DOMAIN P
    BY <1>8
  <2>2. GetParam(params', x) = values[index(<<x>>)]
    BY <1>11, <1>15, <2>1 DEF GetParam
  <2>3. env[x] = given[index(<<x>>)]
    BY <1>13
  <2> QED
    BY <1>7, <2>1, <2>2, <2>3
<1>19. \A n \in DOMAIN params' : params'[n] \in Nat
  <2> SUFFICES ASSUME NEW n \in DOMAIN params' PROVE params'[n] \in Nat
    OBVIOUS
  <2>1. CASE n \in N
    BY <1>7, <1>9, <1>11, <1>15, <2>1
  <2>2. CASE takes /\ n = r
    BY <1>10, <1>16, <2>2
  <2> QED
    BY <1>17, <2>1, <2>2
<1>20. takes => GetParam(params', return_address) = Numbered(info[g].returnAddresses, Expected(pointers, instr, at)) - 1
  <2>1. takes => GetParam(params', return_address) = address
    BY <1>16 DEF GetParam
  <2>2. takes => from = Expected(pointers, instr, at)
    OBVIOUS
  <2> QED
    BY <2>1, <2>2
<1>21. /\ acts' = Append(acts, Act(g, env)) /\ DOMAIN env = ToSet(prog[g].params)
       /\ at' = Site(g, prog[g].first, 1)
  BY <1>2, <1>14
<1> QED
  BY <1>18, <1>19, <1>20, <1>21

(* A call that Scratch comes back from.                                       *)
LEMMA CallAndReturnStep ==
    ASSUME IInv, CallAndReturn
    PROVE  IInv'
<1>1. AtCall /\ ~CallsAddress(instr) /\ UNCHANGED <<static, glob, sigReturn, retVar>>
  BY DEF CallAndReturn
<1>2. /\ Saved = {} /\ StaticInv /\ (CallsAddress(instr) <=> Addressed(pointers, info, instr))
      /\ NumbersInv /\ Callee = Called /\ Called \in ToSet(CouldCall(pointers, instr)) /\ Called \in DOMAIN prog
  BY <1>1, AtCallFacts, CalleeFacts DEF IInv
<1>3. /\ Enter(Arguments(Available(at), params), at) /\ conts' = Append(conts, [at |-> at, params |-> params])
      /\ localStack' = localStack
  BY <1>2 DEF CallAndReturn, Pushed
<1>4. ~info[Called].returnsToAddress /\ ~info[Called].takesReturnAddress
  <2>1. ~info[Called].returnsToAddress
    BY <1>1, <1>2 DEF Addressed
  <2>2. FunctionOK(jumpTable, prog, info, Called)
    BY <1>2, StaticUse
  <2> QED
    BY <2>1, <2>2 DEF FunctionOK
<1> PICK g : g = Called
  OBVIOUS
<1>5. PICK env : /\ acts' = Append(acts, Act(g, env)) /\ DOMAIN env = ToSet(prog[g].params)
                 /\ at' = Site(g, prog[g].first, 1)
                 /\ \A x \in DOMAIN env : GetParam(params', x) = Translated(pointers, env[x])
                 /\ \A n \in DOMAIN params' : params'[n] \in Nat
  BY <1>1, <1>3, <1>4, EnterFacts
<1>6. Starts(g, env)
  <2>1. InStep /\ at.k <= Size(fn, at.block) /\ IsCall(instr)
    BY <1>1 DEF AtCall
  <2>2. sigReturn' \in [DOMAIN pointers -> Nat] /\ sigReturn' = sigReturn
    BY <1>1, <1>2 DEF NumbersInv
  <2>3. UNCHANGED <<static, glob, retVar, localStack>>
    BY <1>1, <1>3
  <2> QED
    BY <1>1, <1>2, <1>3, <1>4, <1>5, <2>1, <2>2, <2>3 DEF Starts
<1> QED
  BY <1>6, StartsStep

(* By the name of a function that returns to an address.                      *)
LEMMA CallToAddressStep ==
    ASSUME IInv, CallToAddress
    PROVE  IInv'
<1>1. /\ AtCall /\ CallsAddress(instr) /\ ~Dispatched(pointers, instr)
      /\ Enter(Arguments(Available(at), params), at) /\ localStack' = Pushed
      /\ UNCHANGED <<static, conts, glob, sigReturn, retVar>>
  BY DEF CallToAddress
<1>2. /\ Saved = {} /\ StaticInv /\ (CallsAddress(instr) <=> Addressed(pointers, info, instr))
      /\ NumbersInv /\ Callee = Called /\ Called \in ToSet(CouldCall(pointers, instr)) /\ Called \in DOMAIN prog
      /\ ToSet(CouldCall(pointers, instr)) = {CouldCall(pointers, instr)[1]}
  BY <1>1, AtCallFacts, CalleeFacts, CouldCallFacts DEF IInv
<1>3. info[Called].returnsToAddress
  BY <1>1, <1>2 DEF Addressed
<1>4. at = Expected(pointers, instr, at)
  BY <1>1 DEF Expected
<1> PICK g : g = Called
  OBVIOUS
<1>5. PICK env : /\ acts' = Append(acts, Act(g, env)) /\ DOMAIN env = ToSet(prog[g].params)
                 /\ at' = Site(g, prog[g].first, 1)
                 /\ \A x \in DOMAIN env : GetParam(params', x) = Translated(pointers, env[x])
                 /\ \A n \in DOMAIN params' : params'[n] \in Nat
                 /\ info[g].takesReturnAddress =>
                       GetParam(params', return_address)
                          = Numbered(info[g].returnAddresses, Expected(pointers, instr, at)) - 1
  BY <1>1, <1>4, EnterFacts
<1>6. Starts(g, env)
  <2>1. InStep /\ at.k <= Size(fn, at.block) /\ IsCall(instr)
    BY <1>1 DEF AtCall
  <2>2. sigReturn' \in [DOMAIN pointers -> Nat] /\ sigReturn' = sigReturn /\ conts' = conts
    BY <1>1, <1>2 DEF NumbersInv
  <2>3. UNCHANGED <<static, glob, retVar, localStack>>
    BY <1>1, <1>2 DEF Pushed
  <2> QED
    BY <1>1, <1>2, <1>3, <1>5, <2>1, <2>2, <2>3 DEF Starts
<1> QED
  BY <1>6, StartsStep

(* Through a pointer to one.                                                  *)
LEMMA DispatchToAddressStep ==
    ASSUME IInv, DispatchToAddress
    PROVE  IInv'
<1> DEFINE s == SignatureOf(pointers, instr)
           address == Numbered(sigInfo[s].returnAddresses, at) - 1
<1>1. /\ AtCall /\ CallsAddress(instr) /\ Dispatched(pointers, instr)
      /\ Enter(Arguments(Available(at), params), Callback(s))
      /\ UNCHANGED <<static, glob, retVar>>
  BY DEF DispatchToAddress
<1>2. /\ sigReturn' = IF sigInfo[s].takesReturnAddress /\ ~sigInfo[s].couldRecurse
                      THEN [sigReturn EXCEPT ![s] = address] ELSE sigReturn
      /\ localStack' = IF sigInfo[s].takesReturnAddress /\ sigInfo[s].couldRecurse
                       THEN Append(localStack, return_address :> address) ELSE localStack
      /\ conts' = IF info[Callee].returnsToAddress THEN conts
                  ELSE Append(conts, [at |-> Callback(s), params |-> NoParams])
  BY DEF DispatchToAddress
<1>3. /\ StaticInv /\ (CallsAddress(instr) <=> Addressed(pointers, info, instr))
      /\ NumbersInv /\ Callee = Called /\ Called \in ToSet(CouldCall(pointers, instr)) /\ Called \in DOMAIN prog
      /\ CallOK(prog, pointers, info, sigInfo, act.fn, act.block, act.k)
      /\ instr = prog[act.fn].body[act.block][act.k] /\ at = Site(act.fn, act.block, act.k)
  BY <1>1, AtCallFacts, CalleeFacts DEF IInv
<1>4. ReturnsTo(sigInfo[s], at) /\ ~sigInfo[s].couldRecurse
  BY <1>1, <1>3 DEF CallOK
<1>5. s \in DOMAIN pointers
  <2>1. IsProgram(prog) /\ SigsOK(prog, pointers) /\ instr \in AllInstrs(prog) /\ IsCall(instr)
    BY <1>1, AtCallFacts
  <2> QED
    BY <1>1, <2>1, CouldCallFacts
<1>6. Callback(s) = Expected(pointers, instr, at)
  BY <1>1 DEF Expected
<1> PICK g : g = Called
  OBVIOUS
<1>7. PICK env : /\ acts' = Append(acts, Act(g, env)) /\ DOMAIN env = ToSet(prog[g].params)
                 /\ at' = Site(g, prog[g].first, 1)
                 /\ \A x \in DOMAIN env : GetParam(params', x) = Translated(pointers, env[x])
                 /\ \A n \in DOMAIN params' : params'[n] \in Nat
                 /\ info[g].takesReturnAddress =>
                       GetParam(params', return_address)
                          = Numbered(info[g].returnAddresses, Expected(pointers, instr, at)) - 1
  BY <1>1, <1>6, EnterFacts
<1>8. /\ sigReturn' \in [DOMAIN pointers -> Nat]
      /\ \A t \in DOMAIN pointers : t # s => sigReturn'[t] = sigReturn[t]
      /\ sigInfo[s].takesReturnAddress => sigReturn'[s] = address
  <2>1. sigReturn \in [DOMAIN pointers -> Nat]
    BY <1>3 DEF NumbersInv
  <2>2. CASE sigInfo[s].takesReturnAddress
    <3>1. address \in Nat
      BY <1>4, <2>2 DEF ReturnsTo
    <3>2. sigReturn' = [sigReturn EXCEPT ![s] = address]
      BY <1>2, <1>4, <2>2
    <3> HIDE DEF s, address
    <3> QED
      BY <1>5, <2>1, <3>1, <3>2
  <2>3. CASE ~sigInfo[s].takesReturnAddress
    <3>1. sigReturn' = sigReturn
      BY <1>2, <2>3
    <3> QED
      BY <2>1, <2>3, <3>1
  <2> QED
    BY <2>2, <2>3
<1>9. conts' = IF info[g].returnsToAddress THEN conts
               ELSE Append(conts, [at |-> Expected(pointers, instr, at), params |-> NoParams])
  BY <1>2, <1>3, <1>6
<1>10. Starts(g, env)
  <2>1. InStep /\ at.k <= Size(fn, at.block) /\ IsCall(instr)
    BY <1>1 DEF AtCall
  <2>2. UNCHANGED <<static, glob, retVar, localStack>>
    BY <1>1, <1>2, <1>4
  <2>3. IF info[g].returnsToAddress THEN conts' = conts
           ELSE conts' = Append(conts, IF CallsAddress(instr) THEN [at |-> Expected(pointers, instr, at), params |-> NoParams]
                                       ELSE [at |-> at, params |-> params])
    BY <1>1, <1>9
  <2> QED
    BY <1>1, <1>3, <1>7, <1>8, <2>1, <2>2, <2>3 DEF Starts
<1> QED
  BY <1>10, StartsStep

-----------------------------------------------------------------------------
(* Returns.                                                                  *)

(* The number read for a variable that is set.                                *)
LEMMA ReadNat ==
    ASSUME IInv, InStep, NEW x \in DOMAIN act.env
    PROVE  Read(x) \in Nat
<1>1. FrameOK(prog, Names, act) /\ at.fn = act.fn
  BY PositionFacts
<1>2. <<at.fn, x>> \in Names
  BY <1>1 DEF FrameOK
<1>3. glob[<<at.fn, x>>] \in Nat /\ GetParam(params, x) \in Nat
  BY <1>2 DEF IInv, NumbersInv, GetParam
<1> QED
  BY <1>3 DEF Read, Value

\* What the function that ends returns.
Returned == CHOOSE x \in fn.term[at.block].uses : TRUE

(* It is the value the program returns.                                       *)
LEMMA ReturnedFacts ==
    ASSUME IInv, Ret
    PROVE  /\ Returned \in DOMAIN act.env /\ Read(Returned) = Translated(pointers, act.env[Returned])
           /\ Read(Returned) \in Nat /\ fn.term[at.block].to = {}
           /\ InStep /\ UNCHANGED <<static, sigReturn>> /\ retVar' = Read(Returned)
           /\ act.k = Size(prog[act.fn], act.block) + 1
<1>1. InStep /\ at.k > Size(fn, at.block) /\ fn.term[at.block].to = {} /\ UNCHANGED <<static, sigReturn>>
      /\ retVar' = Read(Returned)
  BY DEF Ret, Returned
<1>2. /\ at.fn = act.fn /\ at.block = act.block /\ at.k = act.k /\ fn = prog[act.fn]
      /\ act.fn \in DOMAIN prog /\ act.block \in Label(fn) /\ act.k \in 1 .. Size(fn, act.block) + 1
  BY <1>1, PositionFacts
<1>3. IsProgram(prog)
  BY StaticUse DEF IInv
<1>4. IsTerminator(fn, fn.term[at.block]) /\ Size(fn, at.block) \in Nat
  BY <1>2, <1>3, FunctionFacts
<1>5. Returned \in fn.term[at.block].uses
  BY <1>1, <1>4 DEF IsTerminator, Returned
<1>6. ~(at.k <= Size(fn, at.block)) /\ act.k = Size(fn, act.block) + 1
  <2>1. at.k > Size(fn, at.block) /\ at.k \in 1 .. Size(fn, at.block) + 1
    BY <1>1, <1>2
  <2>2. ~(at.k <= Size(fn, at.block)) /\ at.k = Size(fn, at.block) + 1
    BY ONLY <1>4, <2>1
  <2> QED
    BY <1>2, <2>2
<1>7. Returned \in Uses(fn, at.block, at.k)
  BY <1>5, <1>6 DEF Uses
<1>8. Returned \in DOMAIN act.env /\ Read(Returned) = Translated(pointers, act.env[Returned])
  BY <1>1, <1>7, ReadFacts
<1> QED
  BY <1>1, <1>2, <1>6, <1>8, ReadNat

(* The program returns from the entry point, and the project stops.           *)
LEMMA StopStep ==
    ASSUME IInv, Ret, Depth = 1
    PROVE  IInv'
<1>1. /\ InStep /\ UNCHANGED <<static, sigReturn>> /\ retVar' = Read(Returned) /\ Read(Returned) \in Nat
  BY ReturnedFacts
<1>2. acts' = << >>
  BY DEF Ret, PopAct, Depth
<1>3. at.fn = Entry /\ info[Entry].returnAddresses = << >>
  <2>1. at.fn = act.fn /\ act = acts[1]
    BY <1>1, PositionFacts
  <2> QED
    BY <2>1, StaticUse DEF IInv, FramesInv
<1>4. conts = << >> /\ IsSeq(conts)
  <2>1. IsSeq(conts) /\ Len(conts) < 1
    BY DEF IInv, ContsInv, IsSeq
  <2>2. Len(conts) \in Nat
    BY <2>1, SeqFacts
  <2>3. Len(conts) = 0
    BY <2>1, <2>2
  <2> QED
    BY <2>1, <2>3, SeqFacts
<1>5. at' = Stopped /\ params' = NoParams /\ conts' = conts /\ glob' = glob /\ localStack' = localStack
  BY <1>3, <1>4 DEF Ret
<1>6. Depth' = 0 /\ IsSeq(acts') /\ DOMAIN acts' = {}
  <2>1. << >> \in Seq({})
    OBVIOUS
  <2>2. acts' \in Seq({})
    BY <1>2, <2>1
  <2>3. IsSeq(acts')
    BY <2>2, SeqFacts
  <2> QED
    BY <1>2, <2>3 DEF Depth
<1>7. /\ prog' = prog /\ pointers' = pointers /\ info' = info /\ (StaticInv' <=> StaticInv) /\ Names' = Names
  BY <1>1, StaticUnchanged
<1>8. StaticInv /\ NumbersInv /\ localStack = << >>
  BY DEF IInv
<1>9. FramesInv' /\ ContsInv' /\ ValuesInv' /\ AddressInv'
  <2>1. FramesInv'
    BY <1>6 DEF FramesInv, IsSeq
  <2>2. ContsInv'
    BY <1>4, <1>5, <1>6 DEF ContsInv, IsSeq
  <2>3. ValuesInv'
    BY <1>6 DEF ValuesInv
  <2>4. AddressInv'
    BY <1>6 DEF AddressInv
  <2> QED
    BY <2>1, <2>2, <2>3, <2>4
<1>10. NumbersInv'
  <2>1. glob' \in [Names' -> Nat] /\ sigReturn' \in [DOMAIN pointers' -> Nat] /\ retVar' \in Nat
    BY <1>1, <1>5, <1>7, <1>8 DEF NumbersInv
  <2>2. \A n \in DOMAIN params' : params'[n] \in Nat
    BY <1>5 DEF NoParams
  <2>3. DOMAIN conts' = {}
    BY <1>4, <1>5
  <2> QED
    BY <2>1, <2>2, <2>3 DEF NumbersInv
<1>11. at' = Position'
  BY <1>2, <1>5 DEF Position, Stopped
<1> QED
  BY <1>5, <1>7, <1>8, <1>9, <1>10, <1>11 DEF IInv

(* A return finds the call it is the end of: at its return address, at that   *)
(* of the procedure for its signature, or where Scratch goes back to.         *)
LEMMA RetArrives ==
    ASSUME IInv, Ret, Depth >= 2, NEW n, n = Depth - 1
    PROVE  /\ at' = [SiteOf(n) EXCEPT !.k = @ + 1]
           /\ params' = Kept(n) /\ localStack' = localStack
           /\ glob' = [glob EXCEPT ![<<acts[n].fn, Instr(n).dst>>] = Read(Returned)]
           /\ IF info[act.fn].returnsToAddress THEN conts' = conts /\ conts = << >>
              ELSE conts' = Front(conts) /\ Len(conts) >= 1
<1> DEFINE f == act.fn
           v == Read(Returned)
           s == SignatureOf(pointers, Instr(n))
           site == SiteOf(n)
<1>1. /\ InStep /\ fn.term[at.block].to = {} /\ act.k = Size(prog[f], act.block) + 1
  BY ReturnedFacts
<1>2. /\ Depth \in Nat /\ act = acts[Depth] /\ at.fn = f /\ at.block = act.block /\ at = Site(f, act.block, act.k)
      /\ fn = prog[f] /\ f \in DOMAIN prog /\ act.block \in Label(prog[f])
      /\ act.k \in 1 .. Size(prog[f], act.block) + 1
  BY <1>1, PositionFacts
<1>3. StaticInv /\ IsProgram(prog) /\ SigsOK(prog, pointers) /\ localStack = << >>
  BY StaticUse DEF IInv
<1>4. n \in 1 .. Depth - 1 /\ n \in 1 .. Depth /\ n + 1 = Depth /\ Depth \in 2 .. Depth /\ n < Depth /\ Depth - 1 = n
  BY <1>2
<1>5. /\ acts[n].fn \in DOMAIN prog /\ acts[n].block \in Label(prog[acts[n].fn])
      /\ acts[n].k \in 1 .. Size(prog[acts[n].fn], acts[n].block)
      /\ IsCall(Instr(n)) /\ f \in ToSet(CouldCall(pointers, Instr(n)))
      /\ Instr(n) = prog[acts[n].fn].body[acts[n].block][acts[n].k]
  <2>1. /\ acts[n].k <= Size(prog[acts[n].fn], acts[n].block)
        /\ IsCall(Instr(n)) /\ acts[n + 1].fn \in ToSet(CouldCall(pointers, Instr(n)))
    BY <1>4 DEF IInv, FramesInv
  <2>2. acts[n].fn \in DOMAIN prog /\ acts[n].block \in Label(prog[acts[n].fn]) /\ acts[n].k \in 1 .. Size(prog[acts[n].fn], acts[n].block) + 1
    BY <1>4 DEF IInv, FramesInv, FrameOK
  <2>3. Size(prog[acts[n].fn], acts[n].block) \in Nat
    BY <1>3, <2>2, FunctionFacts
  <2>4. acts[n].k \in 1 .. Size(prog[acts[n].fn], acts[n].block)
    BY <2>1, <2>2, <2>3
  <2> QED
    BY <1>2, <1>4, <2>1, <2>2, <2>4 DEF Instr
<1>6. /\ CallOK(prog, pointers, info, sigInfo, acts[n].fn, acts[n].block, acts[n].k)
      /\ site = Site(acts[n].fn, acts[n].block, acts[n].k)
      /\ CallsAddress(Instr(n)) <=> Addressed(pointers, info, Instr(n))
  BY <1>3, <1>5, StaticUse, AddressedFacts DEF SiteOf
<1>7. From(Depth) = Expected(pointers, Instr(n), site)
  BY <1>4 DEF From
<1>8. /\ info[f].returnsToAddress => ReturnsTo(info[f], From(Depth)) /\ CallsAddress(Instr(n))
      /\ CallsAddress(Instr(n)) /\ Dispatched(pointers, Instr(n)) =>
            ReturnsTo(sigInfo[s], site) /\ ~sigInfo[s].couldRecurse
  BY <1>5, <1>6, <1>7 DEF CallOK, Addressed
<1>9. site.fn # "" /\ Result(site) = <<acts[n].fn, Instr(n).dst>>
  <2>1. site.fn = acts[n].fn /\ site.block = acts[n].block /\ site.k = acts[n].k
    BY <1>6 DEF Site
  <2> QED
    BY <1>3, <1>5, <2>1, FunctionFacts DEF Result
<1> DEFINE arrived(p) == /\ at' = [site EXCEPT !.k = @ + 1] /\ params' = p /\ localStack' = localStack
                         /\ glob' = [glob EXCEPT ![Result(site)] = v]
<1>10. ASSUME NEW p, AfterCall(site, p, v, localStack) PROVE arrived(p)
  BY <1>3, <1>10 DEF AfterCall
<1>11. ASSUME NEW p, Arrive(site, p, v) PROVE arrived(p)
  <2>1. ~IsCallback(site)
    BY <1>9 DEF IsCallback
  <2>2. AfterCall(site, p, v, localStack)
    BY <1>11, <2>1 DEF Arrive
  <2> HIDE DEF arrived
  <2> QED
    BY <1>10, <2>2
<1>12. ASSUME CallsAddress(Instr(n)), Arrive(From(Depth), NoParams, v) PROVE arrived(NoParams)
  <2>1. CASE ~Dispatched(pointers, Instr(n))
    <3>1. From(Depth) = site
      BY <1>7, <2>1 DEF Expected
    <3>2. Arrive(site, NoParams, v)
      BY <1>12, <3>1
    <3> HIDE DEF arrived
    <3> QED
      BY <1>11, <3>2
  <2>2. CASE Dispatched(pointers, Instr(n))
    <3>1. From(Depth) = Callback(s)
      BY <1>7, <2>2 DEF Expected
    <3>2. IsCallback(Callback(s)) /\ Callback(s).k = s
      BY DEF IsCallback, Callback, Site
    <3>3. ~sigInfo[s].couldRecurse /\ ReturnsTo(sigInfo[s], site)
      BY <1>8, <1>12, <2>2
    <3>4. Arrive(Callback(s), NoParams, v)
      BY <1>12, <3>1
    <3> PICK c : c = Callback(s)
      OBVIOUS
    <3> PICK t : t = s
      OBVIOUS
    <3>5. AfterCall(ReturnTarget(sigInfo[t], sigReturn[t]), NoParams, v, localStack)
      <4>1. IsCallback(c) /\ c.k = t /\ Arrive(c, NoParams, v) /\ ~sigInfo[t].couldRecurse
        BY <3>2, <3>3, <3>4
      <4> HIDE DEF s
      <4> QED
        BY <4>1 DEF Arrive
    <3>6. sigInfo[s].takesReturnAddress => sigReturn[s] = Numbered(sigInfo[s].returnAddresses, site) - 1
      BY <1>4, <1>12, <2>2 DEF IInv, AddressInv
    <3>7. ReturnTarget(sigInfo[t], sigReturn[t]) = site
      <4>1. CASE sigInfo[t].takesReturnAddress
        BY <3>3, <3>6, <4>1 DEF ReturnsTo
      <4>2. CASE ~sigInfo[t].takesReturnAddress
        <5>1. ReturnTarget(sigInfo[t], sigReturn[t]) = sigInfo[t].returnAddresses[1]
          BY <4>2 DEF ReturnTarget
        <5>2. sigInfo[t].returnAddresses[1] = site
          BY <3>3, <4>2 DEF ReturnsTo
        <5> QED
          BY <5>1, <5>2
      <4> QED
        BY <4>1, <4>2
    <3> HIDE DEF arrived
    <3> QED
      BY <1>10, <3>5, <3>7
  <2> QED
    BY <2>1, <2>2
<1>13. /\ IsSeq(conts) /\ Len(conts) \in Nat /\ Len(conts) < Depth /\ Base = Depth - Len(conts)
       /\ (conts = << >> <=> Len(conts) = 0)
       /\ info[f].returnsToAddress <=> Len(conts) = 0
  <2>1. /\ IsSeq(conts) /\ Len(conts) < Depth
        /\ info[acts[Depth].fn].returnsToAddress <=> Depth <= Base
    BY <1>2, <1>4 DEF IInv, ContsInv, IsSeq
  <2>2. Len(conts) \in Nat /\ (conts = << >> <=> Len(conts) = 0)
    BY <2>1, SeqFacts
  <2>3. Base = Depth - Len(conts)
    BY DEF Base
  <2>4. Depth <= Base <=> Len(conts) = 0
    BY <1>2, <2>2, <2>3
  <2> QED
    BY <1>2, <2>1, <2>2, <2>3, <2>4
<1>14. CASE info[f].returnsToAddress
  <2>1. conts = << >> /\ ReturnsTo(info[f], From(Depth)) /\ CallsAddress(Instr(n))
    BY <1>8, <1>13, <1>14
  <2>2. info[f].returnAddresses # << >>
    BY <2>1 DEF ReturnsTo
  <2>3. Arrive(ReturnTarget(info[f], glob[<<f, return_address>>]), NoParams, v) /\ conts' = conts
    BY <1>2, <1>14, <2>2 DEF Ret, Returned
  <2>4. ReturnTarget(info[f], glob[<<f, return_address>>]) = From(Depth)
    <3>1. CASE info[f].takesReturnAddress
      <4>1. Where(Depth, return_address) = Numbered(info[f].returnAddresses, From(Depth)) - 1
        BY <1>2, <1>4, <3>1 DEF IInv, AddressInv
      <4>2. act.block # prog[f].first /\ ~jumpTable
        <5>1. FunctionOK(jumpTable, prog, info, f)
          BY <1>2, <1>3, StaticUse
        <5>2. prog[f].term[act.block].to = {}
          BY <1>1, <1>2
        <5> QED
          BY <1>14, <3>1, <5>1, <5>2 DEF FunctionOK
      <4>3. Available(Site(f, act.block, act.k)) = {}
        BY <1>2, <1>3, <4>2, AvailableFacts
      <4>4. Where(Depth, return_address) = glob[<<f, return_address>>]
        BY <1>2, <4>3 DEF Where, SiteOf
      <4>5. ReturnTarget(info[f], Numbered(info[f].returnAddresses, From(Depth)) - 1) = From(Depth)
        BY <2>1, <3>1 DEF ReturnsTo
      <4> QED
        BY <4>1, <4>4, <4>5
    <3>2. CASE ~info[f].takesReturnAddress
      <4>1. ReturnTarget(info[f], glob[<<f, return_address>>]) = info[f].returnAddresses[1]
        BY <3>2 DEF ReturnTarget
      <4>2. info[f].returnAddresses[1] = From(Depth)
        BY <2>1, <3>2 DEF ReturnsTo
      <4> QED
        BY <4>1, <4>2
    <3> QED
      BY <3>1, <3>2
  <2>5. arrived(NoParams)
    <3>1. Arrive(From(Depth), NoParams, v)
      BY <2>3, <2>4
    <3> HIDE DEF arrived
    <3> QED
      BY <1>12, <2>1, <3>1
  <2>6. Kept(n) = NoParams
    BY <2>1 DEF Kept
  <2> QED
    BY <1>9, <1>14, <2>1, <2>3, <2>5, <2>6
<1>15. CASE ~info[f].returnsToAddress
  <2> PICK last : last = Last(conts)
    OBVIOUS
  <2>1. Len(conts) >= 1 /\ conts # << >> /\ Depth > Base /\ Depth - Base = Len(conts) /\ n >= Base /\ n + 1 - Base = Len(conts)
    BY <1>2, <1>4, <1>13, <1>15
  <2>2. Arrive(last.at, last.params, v) /\ conts' = Front(conts)
    BY <1>2, <1>15, <2>1 DEF Ret, Returned
  <2>3. last = conts[Depth - Base]
    BY <2>1 DEF Last
  <2>4. IF CallsAddress(Instr(n)) THEN last = [at |-> From(Depth), params |-> NoParams] ELSE last.at = site
    BY <1>4, <2>1, <2>3 DEF IInv, ContsInv
  <2>5. CASE CallsAddress(Instr(n))
    <3>1. last.at = From(Depth) /\ last.params = NoParams
      BY <2>4, <2>5
    <3>2. Arrive(From(Depth), NoParams, v)
      BY <2>2, <3>1
    <3>3. arrived(NoParams)
      <4> HIDE DEF arrived
      <4> QED
        BY <1>12, <2>5, <3>2
    <3>4. Kept(n) = NoParams
      BY <2>5 DEF Kept
    <3> QED
      BY <1>9, <1>15, <2>1, <2>2, <3>3, <3>4
  <2>6. CASE ~CallsAddress(Instr(n))
    <3>1. last.at = site
      BY <2>4, <2>6
    <3> PICK p : p = last.params
      OBVIOUS
    <3>2. Arrive(site, p, v)
      BY <2>2, <3>1
    <3>3. arrived(p)
      <4> HIDE DEF arrived
      <4> QED
        BY <1>11, <3>2
    <3>4. Kept(n) = p
      BY <2>1, <2>3, <2>6 DEF Kept
    <3> QED
      BY <1>9, <1>15, <2>1, <2>2, <3>3, <3>4
  <2> QED
    BY <2>5, <2>6
<1> QED
  BY <1>14, <1>15

(* A return keeps the invariant: the caller goes on after the call, with the  *)
(* parameters it had, and the others still wait.                              *)
LEMMA RetStep ==
    ASSUME IInv, Ret, Depth >= 2
    PROVE  IInv'
<1> PICK n : n = Depth - 1
  OBVIOUS
<1> PICK c : c = acts[n]
  OBVIOUS
<1> PICK v : v = act.env[Returned]
  OBVIOUS
<1> PICK i0 : i0 = Instr(n)
  OBVIOUS
<1> DEFINE a == [fn |-> c.fn, block |-> c.block, k |-> c.k + 1, env |-> Set(c.env, i0.dst, v)]
           here == Site(c.fn, c.block, c.k + 1)
           G == CallGraph(prog, pointers)
           A(k) == Available(Site(c.fn, c.block, k))
           n0 == <<c.fn, i0.dst>>
           rta == info[act.fn].returnsToAddress
<1>1. /\ InStep /\ UNCHANGED <<static, sigReturn>> /\ retVar' = Read(Returned)
      /\ Read(Returned) = Translated(pointers, v) /\ Read(Returned) \in Nat
  BY ReturnedFacts
<1>2. /\ StaticInv /\ FramesInv /\ ContsInv /\ ValuesInv /\ AddressInv /\ NumbersInv /\ localStack = << >>
      /\ IsProgram(prog)
  BY StaticUse DEF IInv
<1>3. /\ prog' = prog /\ jumpTable' = jumpTable /\ pointers' = pointers /\ info' = info /\ sigInfo' = sigInfo
      /\ (StaticInv' <=> StaticInv) /\ Names' = Names
      /\ \A j : CallsAddress(j)' <=> CallsAddress(j)
      /\ \A s : Available(s)' = Available(s)
  BY <1>1, StaticUnchanged
<1>4. Depth \in Nat /\ act = acts[Depth]
  BY <1>1, PositionFacts
<1>5. /\ n \in Nat /\ n >= 1 /\ n \in 1 .. Depth - 1 /\ n \in 1 .. Depth /\ n + 1 = Depth /\ n < Depth
      /\ n # Depth /\ Depth \in 1 .. Depth
  BY <1>4
<1>6. FrameOK(prog, Names, c)
  BY <1>2, <1>5 DEF FramesInv
<1>7. /\ c = [fn |-> c.fn, block |-> c.block, k |-> c.k, env |-> c.env] /\ c.fn \in DOMAIN prog
      /\ c.block \in Label(prog[c.fn]) /\ c.k \in 1 .. Size(prog[c.fn], c.block) + 1
      /\ \A x \in DOMAIN c.env : <<c.fn, x>> \in Names /\ x \notin {return_address, branch_id}
  BY <1>6 DEF FrameOK
<1>8. /\ Size(prog[c.fn], c.block) \in Nat /\ c.k \in 1 .. Size(prog[c.fn], c.block) /\ c.k <= Size(prog[c.fn], c.block)
      /\ c.k + 1 \in 1 .. Size(prog[c.fn], c.block) + 1
      /\ IsCall(i0) /\ i0 = prog[c.fn].body[c.block][c.k]
  <2>1. Size(prog[c.fn], c.block) \in Nat
    BY <1>2, <1>7, FunctionFacts
  <2>2. c.k <= Size(prog[c.fn], c.block) /\ IsCall(i0)
    BY <1>2, <1>5 DEF FramesInv
  <2>3. c.k \in 1 .. Size(prog[c.fn], c.block) + 1
    BY <1>7
  <2>4. /\ c.k \in 1 .. Size(prog[c.fn], c.block) /\ c.k + 1 \in 1 .. Size(prog[c.fn], c.block) + 1
    BY <2>1, <2>2, <2>3
  <2>5. i0 = prog[c.fn].body[c.block][c.k]
    BY DEF Instr
  <2> QED
    BY <2>1, <2>2, <2>4, <2>5
<1>9. SiteOf(n) = Site(c.fn, c.block, c.k)
  BY DEF SiteOf
<1>10. /\ at' = here /\ params' = Kept(n) /\ localStack' = localStack
       /\ glob' = [glob EXCEPT ![n0] = Translated(pointers, v)]
       /\ IF rta THEN conts' = conts /\ conts = << >> ELSE conts' = Front(conts) /\ Len(conts) >= 1
  <2>1. /\ at' = [SiteOf(n) EXCEPT !.k = @ + 1]
        /\ params' = Kept(n) /\ localStack' = localStack
        /\ glob' = [glob EXCEPT ![<<acts[n].fn, Instr(n).dst>>] = Read(Returned)]
        /\ IF rta THEN conts' = conts /\ conts = << >> ELSE conts' = Front(conts) /\ Len(conts) >= 1
    BY RetArrives
  <2>2. at' = here
    BY <1>9, <2>1 DEF Site
  <2> QED
    BY <1>1, <2>1, <2>2
<1>11. /\ i0.dst \notin {return_address, branch_id} /\ n0 \in Names
  <2>1. i0.dst \notin {return_address, branch_id} \cup ToSet(prog[c.fn].params)
    BY <1>2, <1>7, <1>8, InstrFacts
  <2>2. \A b \in Label(prog[c.fn]) : \A k \in 1 .. Size(prog[c.fn], b) : <<c.fn, prog[c.fn].body[b][k].dst>> \in Names
    BY <1>2, <1>7, NamesFacts
  <2>3. n0 \in Names
    BY <1>7, <1>8, <2>2
  <2> QED
    BY <2>1, <2>3
<1>12. /\ glob' \in [Names -> Nat] /\ glob'[n0] = Translated(pointers, v)
       /\ \A m \in Names : m # n0 => glob'[m] = glob[m]
  <2> DEFINE w == Translated(pointers, v)
  <2>1. glob' = [glob EXCEPT ![n0] = w] /\ w \in Nat /\ glob \in [Names -> Nat]
    BY <1>1, <1>2, <1>10 DEF NumbersInv
  <2> HIDE DEF w, n0
  <2>2. glob' \in [Names -> Nat] /\ glob'[n0] = w /\ \A m \in Names : m # n0 => glob'[m] = glob[m]
    BY <1>11, <2>1
  <2> QED
    BY <2>2 DEF w
<1>13. /\ i0.dst \notin A(c.k + 1)
       /\ ~CallsAddress(i0) => A(c.k + 1) = A(c.k)
       /\ CallsAddress(i0) => /\ A(c.k + 1) = {}
                              /\ \A x \in Live(prog[c.fn], c.block, c.k + 1) : x \notin A(c.k)
                              /\ info[c.fn].takesReturnAddress => A(c.k) = {}
  <2> DEFINE all == ToSet(prog[c.fn].params) \cup (IF info[c.fn].takesReturnAddress THEN {return_address} ELSE {})
  <2>0. /\ StaticInv /\ c.fn \in DOMAIN prog /\ c.block \in Label(prog[c.fn])
        /\ c.k \in 1 .. Size(prog[c.fn], c.block) + 1 /\ c.k <= Size(prog[c.fn], c.block)
    BY <1>2, <1>7, <1>8
  <2>1. /\ prog[c.fn].body[c.block][c.k].dst \notin A(c.k + 1)
        /\ ~CallsAddress(prog[c.fn].body[c.block][c.k]) => A(c.k + 1) = A(c.k)
    BY <2>0, AvailableAfter
  <2>2. A(c.k) \subseteq all
    BY <2>0, AvailableFacts
  <2>3. ASSUME CallsAddress(prog[c.fn].body[c.block][c.k])
        PROVE  /\ A(c.k + 1) = {}
               /\ \A x \in Live(prog[c.fn], c.block, c.k + 1) : x \in A(c.k) => x \notin ToSet(prog[c.fn].params)
               /\ info[c.fn].takesReturnAddress => A(c.k) = {}
    <3>0. /\ StaticInv /\ c.fn \in DOMAIN prog /\ c.block \in Label(prog[c.fn])
          /\ c.k \in 1 .. Size(prog[c.fn], c.block) + 1 /\ c.k <= Size(prog[c.fn], c.block)
          /\ CallsAddress(prog[c.fn].body[c.block][c.k])
      BY <1>2, <1>7, <1>8, <2>3
    <3>1. A(c.k + 1) = {}
      BY ONLY <3>0, AvailableFacts
    <3>2. \A x \in Live(prog[c.fn], c.block, c.k + 1) : x \in A(c.k) => x \notin ToSet(prog[c.fn].params)
      BY ONLY <3>0, AvailableFacts
    <3>3. info[c.fn].takesReturnAddress => A(c.k) = {}
      BY ONLY <3>0, AvailableFacts
    <3> QED
      BY <3>1, <3>2, <3>3
  <2>4. \A x : x \in A(c.k) => x \in ToSet(prog[c.fn].params) \/ info[c.fn].takesReturnAddress
    BY <2>2
  <2> QED
    BY <1>8, <2>1, <2>3, <2>4
<1>14. DOMAIN a.env = DOMAIN c.env \cup {i0.dst} /\ a.env[i0.dst] = v /\ \A y \in DOMAIN c.env : y # i0.dst => a.env[y] = c.env[y]
  <2>1. a.env = Set(c.env, i0.dst, v)
    OBVIOUS
  <2> DEFINE S == Set(c.env, i0.dst, v)
  <2>2. DOMAIN S = DOMAIN c.env \cup {i0.dst} /\ S[i0.dst] = v /\ \A y \in DOMAIN c.env : y # i0.dst => S[y] = c.env[y]
    BY DEF Set
  <2> HIDE DEF S, a
  <2> QED
    BY <2>1, <2>2 DEF S
<1>15. a.fn = c.fn /\ a.block = c.block /\ a.k = c.k + 1 /\ a = [fn |-> a.fn, block |-> a.block, k |-> a.k, env |-> a.env]
  OBVIOUS
<1>16. acts' = Append(Front(Front(acts)), a)
  <2>1. [c EXCEPT !.k = c.k + 1, !.env = Set(c.env, i0.dst, v)] = a
    <3>1. c = [fn |-> c.fn, block |-> c.block, k |-> c.k, env |-> c.env]
      BY <1>7
    <3> PICK e : e = Set(c.env, i0.dst, v)
      OBVIOUS
    <3>2. [c EXCEPT !.k = c.k + 1, !.env = e] = [fn |-> c.fn, block |-> c.block, k |-> c.k + 1, env |-> e]
      BY ONLY <3>1, ActFacts
    <3> QED
      BY <3>2
  <2>2. Len(acts) # 1 /\ Len(acts) - 1 = n
    BY <1>4 DEF Depth
  <2>3. PopAct(v)
    BY DEF Ret, Returned
  <2>4. acts' = Append(Front(Front(acts)), [c EXCEPT !.k = @ + 1, !.env = Set(@, prog[c.fn].body[c.block][c.k].dst, v)])
    BY <2>2, <2>3 DEF PopAct
  <2> QED
    BY <1>8, <2>1, <2>4
<1> HIDE DEF a
<1>17. /\ IsSeq(acts') /\ Depth' = n /\ acts'[n] = a /\ acts' # << >> /\ Len(acts') = n
       /\ \A i \in 1 .. n - 1 : acts'[i] = acts[i]
  <2>1. IsSeq(acts) /\ Len(acts) = n + 1
    BY <1>2, <1>4, <1>5 DEF FramesInv, IsSeq, Depth
  <2>2. IsSeq(Front(acts)) /\ Len(Front(acts)) = n /\ \A i \in 1 .. n : Front(acts)[i] = acts[i]
    <3>1. Len(acts) >= 1 /\ Len(acts) - 1 = n
      BY ONLY <1>5, <2>1
    <3>2. /\ IsSeq(Front(acts)) /\ Len(Front(acts)) = Len(acts) - 1
          /\ \A i \in 1 .. Len(acts) - 1 : Front(acts)[i] = acts[i]
      BY <2>1, <3>1, FrontIsSeq
    <3> QED
      BY <3>1, <3>2
  <2> DEFINE q == Front(Front(acts))
  <2>3. IsSeq(q) /\ Len(q) = n - 1 /\ \A i \in 1 .. n - 1 : q[i] = Front(acts)[i]
    BY <1>5, <2>2, FrontIsSeq
  <2> HIDE DEF q
  <2>4. /\ IsSeq(Append(q, a)) /\ Len(Append(q, a)) = n
        /\ Append(q, a)[n] = a /\ \A i \in 1 .. n - 1 : Append(q, a)[i] = q[i]
    BY <1>5, <2>3, AppendFacts
  <2>5. acts' = Append(q, a)
    BY <1>16 DEF q
  <2>6. IsSeq(acts') /\ Len(acts') = n /\ acts'[n] = a /\ \A i \in 1 .. n - 1 : acts'[i] = acts[i]
    BY <1>5, <2>2, <2>3, <2>4, <2>5
  <2> QED
    BY <1>5, <2>6, SeqFacts DEF Depth
<1>18. /\ IsSeq(conts') /\ Len(conts') \in Nat /\ Len(conts') < n /\ Base \in 1 .. Depth
       /\ rta => conts' = << >> /\ Base = Depth /\ Base' = n
       /\ ~rta => /\ Base' = Base /\ Base + Len(conts') = n
                  /\ \A i \in 1 .. Len(conts') : conts'[i] = conts[i]
  <2>1. IsSeq(conts) /\ Len(conts) < Depth /\ Base = Depth - Len(conts)
    BY <1>2, <1>4, <1>5 DEF ContsInv, IsSeq, Base
  <2>2. Len(conts) \in Nat
    BY <2>1, SeqFacts
  <2>3. Base' = n - Len(conts') /\ Base \in 1 .. Depth
    BY <1>4, <1>17, <2>1, <2>2 DEF Base
  <2>4. CASE rta
    <3>1. conts' = << >> /\ conts = << >>
      BY <1>10, <2>4
    <3>2. IsSeq(conts') /\ Len(conts') = 0 /\ Len(conts) = 0
      BY <2>1, <3>1
    <3> QED
      BY <1>4, <1>5, <2>1, <2>3, <2>4, <3>1, <3>2
  <2>5. CASE ~rta
    <3>1. conts' = Front(conts) /\ Len(conts) >= 1
      BY <1>10, <2>5
    <3>2. IsSeq(conts') /\ Len(conts') = Len(conts) - 1 /\ \A i \in 1 .. Len(conts) - 1 : conts'[i] = conts[i]
      BY <2>1, <3>1, FrontIsSeq
    <3>3. Len(conts') \in Nat /\ Len(conts') < n /\ Base' = Base /\ Base + Len(conts') = n
      BY <1>4, <1>5, <2>1, <2>2, <2>3, <3>1, <3>2
    <3> QED
      BY <2>3, <2>5, <3>2, <3>3
  <2> QED
    BY <2>4, <2>5
<1>19. 1 .. n = (1 .. n - 1) \cup {n} /\ \A i \in 1 .. n - 1 : i \in 1 .. n /\ i + 1 \in 1 .. n /\ i < n /\ i \in 1 .. Depth
                                                            /\ i \in 1 .. Depth - 1 /\ i # n /\ i # Depth
  BY <1>4, <1>5
<1>20. ASSUME NEW i \in 1 .. n PROVE acts'[i].fn = acts[i].fn /\ i \in 1 .. Depth
  <2>1. i \in 1 .. n - 1 \/ i = n
    BY <1>19
  <2> QED
    BY <1>5, <1>15, <1>17, <1>19, <2>1
<1>21. ASSUME NEW i \in 1 .. n - 1
       PROVE  /\ Instr(i)' = Instr(i) /\ SiteOf(i)' = SiteOf(i) /\ LiveOf(i)' = LiveOf(i)
              /\ \A x : <<acts[i].fn, x>> \in Names => Where(i, x)' = Where(i, x)
              /\ acts'[i] = acts[i]
  <2>1. acts'[i] = acts[i] /\ i \in 1 .. Depth /\ i # Depth /\ i # Depth' /\ i < n
    BY <1>17, <1>19
  <2>2. acts[i].fn # c.fn
    <3>1. c.fn \in Reached(G, acts[i].fn)
      BY <1>2, <1>5, <2>1 DEF FramesInv
    <3>2. c.fn \notin Reached(G, c.fn)
      BY <1>2, <1>7, StaticUse
    <3> QED
      BY <3>1, <3>2
  <2>3. Instr(i)' = Instr(i)
    BY <1>3, <2>1 DEF Instr
  <2>4. CallsAddress(Instr(i))' <=> CallsAddress(Instr(i))
    BY <1>3, <2>3 DEF CallsAddress, CallInfo
  <2>5. Kept(i)' = IF i >= Base' /\ ~CallsAddress(Instr(i)) THEN conts'[i + 1 - Base'].params ELSE NoParams
    BY <2>4 DEF Kept, NoParams
  <2>6. Kept(i)' = Kept(i)
    <3>1. CASE rta
      <4>1. ~(i >= Base) /\ ~(i >= Base')
        BY <1>4, <1>5, <1>18, <2>1, <3>1
      <4> QED
        BY <2>5, <4>1 DEF Kept
    <3>2. CASE ~rta
      <4>1. Base' = Base /\ Base + Len(conts') = n
        BY <1>18, <3>2
      <4>2. i >= Base => i + 1 - Base \in 1 .. Len(conts')
        BY <1>4, <1>5, <1>18, <2>1, <4>1
      <4>3. i >= Base => conts'[i + 1 - Base] = conts[i + 1 - Base]
        BY <1>18, <3>2, <4>2
      <4> QED
        BY <2>5, <4>1, <4>3 DEF Kept
    <3> QED
      BY <3>1, <3>2
  <2>7. \A x : <<acts[i].fn, x>> \in Names => glob'[<<acts[i].fn, x>>] = glob[<<acts[i].fn, x>>]
    <3>1. \A x : <<acts[i].fn, x>> # n0
      BY <2>2
    <3> QED
      BY <1>12, <3>1
  <2>8. UNCHANGED static
    BY <1>1
  <2> QED
    BY <2>1, <2>6, <2>7, <2>8, Waiting
<1>22. FramesInv'
  <2>1. FrameOK(prog, Names, a)
    <3>1. \A x \in DOMAIN a.env : <<c.fn, x>> \in Names /\ x \notin {return_address, branch_id}
      BY <1>7, <1>11, <1>14
    <3> QED
      BY <1>7, <1>8, <1>15, <3>1 DEF FrameOK
  <2>2. \A i \in 1 .. n : FrameOK(prog', Names', acts'[i])
    <3>1. ASSUME NEW i \in 1 .. n - 1 PROVE FrameOK(prog, Names, acts'[i])
      BY <1>2, <1>19, <1>21 DEF FramesInv
    <3>2. prog' = prog /\ Names' = Names
      BY <1>3
    <3> QED
      BY <1>17, <1>19, <2>1, <3>1, <3>2
  <2>3. acts'[1].fn = Entry
    <3>1. 1 \in 1 .. n
      BY <1>5
    <3> QED
      BY <1>2, <1>4, <1>20, <3>1 DEF FramesInv
  <2>4. ASSUME NEW i \in 1 .. n - 1
        PROVE  /\ acts'[i].k <= Size(prog'[acts'[i].fn], acts'[i].block)
               /\ IsCall(Instr(i)') /\ acts'[i + 1].fn \in ToSet(CouldCall(pointers', Instr(i)'))
    <3>1. /\ acts[i].k <= Size(prog[acts[i].fn], acts[i].block)
          /\ IsCall(Instr(i)) /\ acts[i + 1].fn \in ToSet(CouldCall(pointers, Instr(i)))
      BY <1>2, <1>19 DEF FramesInv
    <3>2. acts'[i + 1].fn = acts[i + 1].fn
      BY <1>19, <1>20
    <3> QED
      BY <1>3, <1>21, <3>1, <3>2
  <2>5. ASSUME NEW i \in 1 .. n, NEW j \in 1 .. n, i < j
        PROVE  acts'[j].fn \in Reached(CallGraph(prog', pointers'), acts'[i].fn)
    BY <1>2, <1>3, <1>20, <2>5 DEF FramesInv
  <2> QED
    BY <1>17, <2>2, <2>3, <2>4, <2>5 DEF FramesInv, IsSeq
<1>23. ContsInv'
  <2>1. ASSUME NEW i \in 2 .. n
        PROVE  /\ info'[acts'[i].fn].returnsToAddress <=> i <= Base'
               /\ i > Base' => IF CallsAddress(Instr(i - 1))'
                               THEN conts'[i - Base'] = [at |-> From(i)', params |-> NoParams]
                               ELSE conts'[i - Base'].at = SiteOf(i - 1)'
    <3>1. i - 1 \in 1 .. n - 1 /\ i \in 1 .. n /\ i \in 2 .. Depth /\ i <= n
      BY <1>4, <1>5
    <3>2. Instr(i - 1)' = Instr(i - 1) /\ SiteOf(i - 1)' = SiteOf(i - 1)
      BY <1>21, <3>1
    <3>3. From(i)' = From(i)
      BY <1>3, <3>2 DEF From
    <3>4. CallsAddress(Instr(i - 1))' <=> CallsAddress(Instr(i - 1))
      BY <1>3, <3>2 DEF CallsAddress, CallInfo
    <3>5. /\ info[acts[i].fn].returnsToAddress <=> i <= Base
          /\ i > Base => IF CallsAddress(Instr(i - 1)) THEN conts[i - Base] = [at |-> From(i), params |-> NoParams]
                         ELSE conts[i - Base].at = SiteOf(i - 1)
      BY <1>2, <3>1 DEF ContsInv
    <3>6. acts'[i].fn = acts[i].fn /\ info' = info
      BY <1>3, <1>20, <3>1
    <3>7. CASE rta
      <4>1. i <= Base /\ i <= Base' /\ ~(i > Base')
        BY <1>4, <1>5, <1>18, <3>1, <3>7
      <4> QED
        BY <3>5, <3>6, <4>1
    <3>8. CASE ~rta
      <4>1. Base' = Base
        BY <1>18, <3>8
      <4>2. i > Base => i - Base \in 1 .. Len(conts')
        BY <1>4, <1>5, <1>18, <3>1, <3>8
      <4>3. i > Base => conts'[i - Base] = conts[i - Base]
        BY <1>18, <3>8, <4>2
      <4> QED
        BY <3>2, <3>3, <3>4, <3>5, <3>6, <4>1, <4>3
    <3> QED
      BY <3>7, <3>8
  <2>2. NoParams' = NoParams
    BY DEF NoParams
  <2>3. Depth' # 0
    BY <1>5, <1>17
  <2> QED
    BY <1>17, <1>18, <2>1, <2>2, <2>3 DEF ContsInv, IsSeq
<1>24. ASSUME NEW x
       PROVE  Where(n, x)' = IF x \in A(c.k + 1) THEN GetParam(Kept(n), x) ELSE glob'[<<c.fn, x>>]
  <2>0. n = Depth' /\ acts'[n] = a /\ params' = Kept(n)
    BY <1>10, <1>17
  <2>1. Where(n, x)' = IF x \in Available(SiteOf(n))' THEN GetParam(params', x) ELSE glob'[<<c.fn, x>>]
    BY <1>15, <2>0 DEF Where, ParamsOf, GetParam
  <2>2. PICK h : h = here
    OBVIOUS
  <2>3. SiteOf(n)' = h
    BY <1>15, <2>0, <2>2 DEF SiteOf
  <2>4. Available(SiteOf(n))' = Available(h)'
    BY <2>3 DEF Available
  <2>5. Available(h)' = Available(h)
    BY <1>3
  <2> QED
    BY <2>0, <2>1, <2>2, <2>4, <2>5
<1>25. ASSUME NEW x
       PROVE  Where(n, x) = IF x \in A(c.k) THEN GetParam(Kept(n), x) ELSE glob[<<c.fn, x>>]
  <2>1. ParamsOf(n) = Kept(n)
    BY <1>5 DEF ParamsOf
  <2> QED
    BY <1>9, <2>1 DEF Where
<1>26. ValuesInv'
  <2> SUFFICES ASSUME NEW i \in 1 .. n, NEW x \in LiveOf(i)'
               PROVE  x \in DOMAIN acts'[i].env /\ Where(i, x)' = Translated(pointers', acts'[i].env[x])
    BY <1>17 DEF ValuesInv
  <2>0. pointers' = pointers
    BY <1>3
  <2>1. CASE i = n
    <3>1. LiveOf(n)' = Live(prog[c.fn], c.block, c.k + 1)
      BY <1>3, <1>15, <1>17 DEF LiveOf
    <3>2. LiveOf(n) = Live(prog[c.fn], c.block, c.k + 1) \ {i0.dst}
      BY <1>5 DEF LiveOf
    <3>3. acts'[i].env = a.env /\ Where(i, x)' = Where(n, x)'
      BY <1>17, <2>1
    <3>4. CASE x = i0.dst
      <4>1. Where(n, x)' = glob'[n0]
        BY <1>13, <1>24, <3>4
      <4> QED
        BY <1>12, <1>14, <2>0, <3>3, <3>4, <4>1
    <3>5. CASE x # i0.dst
      <4>1. x \in LiveOf(n) /\ x \in Live(prog[c.fn], c.block, c.k + 1)
        BY <2>1, <3>1, <3>2, <3>5
      <4>2. x \in DOMAIN c.env /\ Where(n, x) = Translated(pointers, c.env[x])
        BY <1>2, <1>5, <4>1 DEF ValuesInv
      <4>3. glob'[<<c.fn, x>>] = glob[<<c.fn, x>>]
        <5>1. <<c.fn, x>> \in Names /\ <<c.fn, x>> # n0
          BY <1>7, <3>5, <4>2
        <5> QED
          BY <1>12, <5>1
      <4>4. Where(n, x)' = Where(n, x)
        <5>1. CASE CallsAddress(i0)
          BY <1>13, <1>24, <1>25, <4>1, <4>3, <5>1
        <5>2. CASE ~CallsAddress(i0)
          BY <1>13, <1>24, <1>25, <4>3, <5>2
        <5> QED
          BY <5>1, <5>2
      <4>5. x \in DOMAIN a.env /\ a.env[x] = c.env[x]
        BY <1>14, <3>5, <4>2
      <4> QED
        BY <2>0, <3>3, <4>2, <4>4, <4>5
    <3> QED
      BY <3>4, <3>5
  <2>2. CASE i \in 1 .. n - 1
    <3>1. x \in LiveOf(i) /\ acts'[i] = acts[i] /\ i \in 1 .. Depth
      BY <1>19, <1>21, <2>2
    <3>2. x \in DOMAIN acts[i].env /\ Where(i, x) = Translated(pointers, acts[i].env[x])
      BY <1>2, <3>1 DEF ValuesInv
    <3>3. <<acts[i].fn, x>> \in Names
      BY <1>2, <3>1, <3>2 DEF FramesInv, FrameOK
    <3>4. Where(i, x)' = Where(i, x)
      BY <1>21, <2>2, <3>3
    <3> QED
      BY <2>0, <3>1, <3>2, <3>4
  <2> QED
    BY <1>19, <2>1, <2>2
<1>27. AddressInv'
  <2>1. ASSUME NEW i \in 2 .. n, info'[acts'[i].fn].takesReturnAddress
        PROVE  Where(i, return_address)' = Numbered(info'[acts'[i].fn].returnAddresses, From(i)') - 1
    <3>1. i - 1 \in 1 .. n - 1 /\ i \in 1 .. n /\ i \in 2 .. Depth
      BY <1>4, <1>5
    <3>2. Instr(i - 1)' = Instr(i - 1) /\ SiteOf(i - 1)' = SiteOf(i - 1)
      BY <1>21, <3>1
    <3>3. From(i)' = From(i)
      BY <1>3, <3>2 DEF From
    <3>4. acts'[i].fn = acts[i].fn /\ info' = info
      BY <1>3, <1>20, <3>1
    <3>5. info[acts[i].fn].takesReturnAddress
      BY <2>1, <3>4
    <3>6. Where(i, return_address) = Numbered(info[acts[i].fn].returnAddresses, From(i)) - 1
      BY <1>2, <3>1, <3>5 DEF AddressInv
    <3>7. Where(i, return_address)' = Where(i, return_address)
      <4>1. CASE i = n
        <5>1. <<c.fn, return_address>> \in Names /\ <<c.fn, return_address>> # n0
          BY <1>2, <1>7, <1>11, NamesFacts
        <5>2. glob'[<<c.fn, return_address>>] = glob[<<c.fn, return_address>>]
          BY <1>12, <5>1
        <5>3. info[c.fn].takesReturnAddress
          BY <3>5, <4>1
        <5>4. Where(n, return_address)' = Where(n, return_address)
          <6>1. CASE CallsAddress(i0)
            BY <1>13, <1>24, <1>25, <5>2, <5>3, <6>1
          <6>2. CASE ~CallsAddress(i0)
            BY <1>13, <1>24, <1>25, <5>2, <6>2
          <6> QED
            BY <6>1, <6>2
        <5> QED
          BY <4>1, <5>4
      <4>2. CASE i # n
        <5>1. i \in 1 .. n - 1
          BY <1>19, <3>1, <4>2
        <5>2. acts[i].fn \in DOMAIN prog
          BY <1>2, <1>19, <5>1 DEF FramesInv, FrameOK
        <5>3. <<acts[i].fn, return_address>> \in Names
          BY <1>2, <5>2, NamesFacts
        <5> QED
          BY <1>21, <5>1, <5>3
      <4> QED
        BY <4>1, <4>2
    <3> QED
      BY <3>3, <3>4, <3>6, <3>7
  <2>2. ASSUME NEW i \in 1 .. n - 1, CallsAddress(Instr(i))', Dispatched(pointers', Instr(i)')
        PROVE  LET s == SignatureOf(pointers', Instr(i)')
               IN  sigInfo'[s].takesReturnAddress => sigReturn'[s] = Numbered(sigInfo'[s].returnAddresses, SiteOf(i)') - 1
    <3>1. Instr(i)' = Instr(i) /\ SiteOf(i)' = SiteOf(i) /\ i \in 1 .. Depth - 1
      BY <1>19, <1>21
    <3>2. CallsAddress(Instr(i))' <=> CallsAddress(Instr(i))
      BY <1>3, <3>1 DEF CallsAddress, CallInfo
    <3>3. sigReturn' = sigReturn
      BY <1>1
    <3> QED
      BY <1>2, <1>3, <2>2, <3>1, <3>2, <3>3 DEF AddressInv
  <2>3. Depth' = n
    BY <1>17
  <2>4. \A i \in 2 .. Depth' : info'[acts'[i].fn].takesReturnAddress =>
            Where(i, return_address)' = Numbered(info'[acts'[i].fn].returnAddresses, From(i)') - 1
    BY <2>1, <2>3
  <2>5. \A i \in 1 .. Depth' - 1 : CallsAddress(Instr(i))' /\ Dispatched(pointers', Instr(i)') =>
            LET s == SignatureOf(pointers', Instr(i)')
            IN  sigInfo'[s].takesReturnAddress => sigReturn'[s] = Numbered(sigInfo'[s].returnAddresses, SiteOf(i)') - 1
    BY <2>2, <2>3
  <2> QED
    BY <2>4, <2>5 DEF AddressInv
<1>28. NumbersInv'
  <2>1. glob' \in [Names' -> Nat] /\ sigReturn' \in [DOMAIN pointers' -> Nat] /\ retVar' \in Nat
    BY <1>1, <1>2, <1>3, <1>12 DEF NumbersInv
  <2>2. \A m \in DOMAIN Kept(n) : Kept(n)[m] \in Nat
    <3>1. CASE Kept(n) = NoParams
      BY <3>1 DEF NoParams
    <3>2. CASE Kept(n) # NoParams
      <4>1. n >= Base /\ Kept(n) = conts[n + 1 - Base].params
        BY <3>2 DEF Kept
      <4>2. n + 1 - Base \in DOMAIN conts
        <5>1. IsSeq(conts)
          BY <1>2 DEF ContsInv, IsSeq
        <5>2. Len(conts) \in Nat /\ DOMAIN conts = 1 .. Len(conts)
          BY <5>1, SeqFacts
        <5>3. Base = Depth - Len(conts)
          BY DEF Base
        <5> QED
          BY <1>4, <1>5, <1>18, <4>1, <5>2, <5>3
      <4> QED
        BY <1>2, <4>1, <4>2 DEF NumbersInv
    <3> QED
      BY <3>1, <3>2
  <2>3. \A m \in DOMAIN params' : params'[m] \in Nat
    BY <1>10, <2>2
  <2>4. \A i \in DOMAIN conts' : \A m \in DOMAIN conts'[i].params : conts'[i].params[m] \in Nat
    <3>1. CASE rta
      BY <1>18, <3>1
    <3>2. CASE ~rta
      <4> SUFFICES ASSUME NEW i \in DOMAIN conts' PROVE conts'[i] = conts[i] /\ i \in DOMAIN conts
        BY <1>2 DEF NumbersInv
      <4>1. i \in 1 .. Len(conts')
        BY <1>18, SeqFacts
      <4>2. conts'[i] = conts[i]
        BY <1>18, <3>2, <4>1
      <4>3. i \in DOMAIN conts
        <5>1. IsSeq(conts) /\ conts' = Front(conts) /\ Len(conts) >= 1
          BY <1>2, <1>10, <3>2 DEF ContsInv, IsSeq
        <5>2. Len(conts') = Len(conts) - 1 /\ Len(conts) \in Nat /\ DOMAIN conts = 1 .. Len(conts)
          BY <5>1, FrontIsSeq, SeqFacts
        <5> QED
          BY <4>1, <5>2
      <4> QED
        BY <4>2, <4>3
    <3> QED
      BY <3>1, <3>2
  <2> QED
    BY <2>1, <2>3, <2>4 DEF NumbersInv
<1>29. at' = Position'
  <2>1. Position' = Site(a.fn, a.block, a.k)
    BY <1>17 DEF Position, act, Last
  <2> QED
    BY <1>10, <1>15, <2>1
<1> QED
  BY <1>2, <1>3, <1>10, <1>22, <1>23, <1>26, <1>27, <1>28, <1>29 DEF IInv

-----------------------------------------------------------------------------
(* All steps.                                                                *)

(* Every step keeps the invariant.                                            *)
LEMMA StepInv ==
    ASSUME IInv, [Next]_vars
    PROVE  IInv'
<1>1. CASE DoOp
  BY <1>1, DoOpStep
<1>2. CASE CallAndReturn
  BY <1>2, CallAndReturnStep
<1>3. CASE CallToAddress
  BY <1>3, CallToAddressStep
<1>4. CASE DispatchToAddress
  BY <1>4, DispatchToAddressStep
<1>5. CASE Branch
  BY <1>5, BranchStep
<1>6. CASE Iterate
  BY <1>6, IterateStep
<1>7. CASE Ret
  <2>1. Depth \in Nat /\ Depth >= 1
    BY <1>7, ReturnedFacts, PositionFacts
  <2>2. Depth = 1 \/ Depth >= 2
    BY <2>1
  <2> QED
    BY <1>7, <2>2, StopStep, RetStep
<1>8. CASE UNCHANGED vars
  <2>1. /\ UNCHANGED static /\ acts' = acts /\ at' = at /\ params' = params /\ conts' = conts /\ glob' = glob
        /\ sigReturn' = sigReturn /\ retVar' = retVar /\ localStack' = localStack
    BY <1>8 DEF vars, static
  <2>2. /\ prog' = prog /\ jumpTable' = jumpTable /\ pointers' = pointers /\ info' = info /\ sigInfo' = sigInfo
        /\ StaticInv' /\ Names' = Names
        /\ \A i : CallsAddress(i)' <=> CallsAddress(i)
        /\ \A s : Available(s)' = Available(s)
    BY <2>1, StaticUnchanged DEF IInv
  <2>3. Depth' = Depth /\ Base' = Base
    BY <2>1 DEF Depth, Base
  <2>4. ASSUME NEW i PROVE Instr(i)' = Instr(i) /\ SiteOf(i)' = SiteOf(i)
    BY <2>1, <2>2 DEF Instr, SiteOf
  <2>5. ASSUME NEW i PROVE (CallsAddress(Instr(i))' <=> CallsAddress(Instr(i))) /\ From(i)' = From(i) /\ LiveOf(i)' = LiveOf(i)
    <3>1. CallsAddress(Instr(i))' <=> CallsAddress(Instr(i))
      BY <2>2, <2>4 DEF CallsAddress, CallInfo
    <3>2. From(i)' = From(i)
      BY <2>2, <2>4 DEF From
    <3>3. LiveOf(i)' = LiveOf(i)
      BY <2>1, <2>2, <2>3, <2>4 DEF LiveOf
    <3> QED
      BY <3>1, <3>2, <3>3
  <2>6. ASSUME NEW i PROVE ParamsOf(i)' = ParamsOf(i)
    <3>1. Kept(i)' = Kept(i)
      BY <2>1, <2>3, <2>5 DEF Kept, NoParams
    <3> QED
      BY <2>1, <2>3, <3>1 DEF ParamsOf
  <2>7. ASSUME NEW i, NEW x PROVE Where(i, x)' = Where(i, x)
    <3>1. Available(SiteOf(i))' = Available(SiteOf(i))
      BY <2>1, <2>2 DEF Available, SiteOf
    <3> QED
      BY <2>1, <2>6, <3>1 DEF Where, GetParam
  <2>8. FramesInv'
    BY <2>1, <2>2, <2>3, <2>4 DEF IInv, FramesInv
  <2>9. ContsInv'
    BY <2>1, <2>2, <2>3, <2>4, <2>5 DEF IInv, ContsInv, NoParams
  <2>10. ValuesInv'
    BY <2>1, <2>2, <2>3, <2>5, <2>7 DEF IInv, ValuesInv
  <2>11. AddressInv'
    BY <2>1, <2>2, <2>3, <2>4, <2>5, <2>7 DEF IInv, AddressInv
  <2>12. NumbersInv'
    BY <2>1, <2>2 DEF IInv, NumbersInv
  <2>13. at' = Position' /\ localStack' = << >>
    BY <2>1, <2>2 DEF IInv, Position, act, Last
  <2> QED
    BY <2>2, <2>8, <2>9, <2>10, <2>11, <2>12, <2>13 DEF IInv
<1> QED
  BY <1>1, <1>2, <1>3, <1>4, <1>5, <1>6, <1>7, <1>8 DEF Next

(* A program stays what it is, and so does the mode.                          *)
LEMMA StaysCovered ==
    ASSUME [Next]_vars
    PROVE  Covered(jumpTable, prog)' = Covered(jumpTable, prog)
<1>1. UNCHANGED static
  <2>1. CASE DoOp
    BY <2>1 DEF DoOp
  <2>2. CASE CallAndReturn
    BY <2>2 DEF CallAndReturn
  <2>3. CASE CallToAddress
    BY <2>3 DEF CallToAddress
  <2>4. CASE DispatchToAddress
    BY <2>4 DEF DispatchToAddress
  <2>5. CASE Branch
    BY <2>5 DEF Branch
  <2>6. CASE Iterate
    BY <2>6 DEF Iterate
  <2>7. CASE Ret
    BY <2>7 DEF Ret
  <2>8. CASE UNCHANGED vars
    BY <2>8 DEF vars, static
  <2> QED
    BY <2>1, <2>2, <2>3, <2>4, <2>5, <2>6, <2>7, <2>8 DEF Next
<1>2. jumpTable' = jumpTable /\ prog' = prog
  BY <1>1 DEF static
<1> QED
  BY <1>2

-----------------------------------------------------------------------------
(* The theorems.                                                             *)

(* The invariant holds: with a program that is covered, the project has the values *)
(* of every call in progress where the call will look for them when it goes on, and *)
(* the address each of them returns to.                                       *)
THEOREM Invariant == Spec => []InvWhereCovered
<1>1. Init => InvWhereCovered
  BY InitInv DEF InvWhereCovered
<1>2. InvWhereCovered /\ [Next]_vars => InvWhereCovered'
  BY StepInv, StaysCovered DEF InvWhereCovered
<1> QED
  BY <1>1, <1>2, PTL DEF Spec

(* The project goes where the program goes: calls through pointers reach the  *)
(* function the pointer is the address of, switches the block of the value, and *)
(* returns the call they are the end of.                                      *)
THEOREM Follows == Spec => [](Covered(jumpTable, prog) => SamePosition)
<1>1. IInv => SamePosition
  BY DEF IInv, SamePosition
<1> QED
  BY <1>1, Invariant, PTL DEF InvWhereCovered

(* Every instruction reads what it reads in the program, whether from parameters, *)
(* Scratch variables or after calls and branches.                             *)
THEOREM ReadsRight == Spec => [](Covered(jumpTable, prog) => ReadsAgree)
<1>1. IInv => ReadsAgree
  <2> SUFFICES ASSUME IInv, InStep, NEW x \in Uses(fn, at.block, at.k)
               PROVE  Read(x) = Translated(pointers, act.env[x])
    BY DEF ReadsAgree
  <2> QED
    BY ReadFacts
<1> QED
  BY <1>1, Invariant, PTL DEF InvWhereCovered

(* When the project has stopped, nothing is left that a call saved.           *)
THEOREM Cleared == Spec => [](Covered(jumpTable, prog) => NothingLeftSaved)
<1>1. IInv => NothingLeftSaved
  <2> SUFFICES ASSUME IInv, at = Stopped PROVE conts = << >> /\ localStack = << >>
    BY DEF NothingLeftSaved
  <2>1. acts = << >>
    <3> SUFFICES ASSUME acts # << >> PROVE FALSE
      OBVIOUS
    <3>1. Site(act.fn, act.block, act.k) = Stopped
      BY DEF IInv, Position
    <3>2. act.fn = ""
      BY <3>1 DEF Site, Stopped
    <3>3. IsSeq(acts)
      BY DEF IInv, FramesInv, IsSeq
    <3>4. Depth \in 1 .. Depth /\ act = acts[Depth]
      BY <3>3, SeqFacts DEF Depth, act, Last
    <3>5. act.fn \in DOMAIN prog
      BY <3>4 DEF IInv, FramesInv, FrameOK
    <3>6. IsProgram(prog)
      BY StaticUse DEF IInv
    <3> QED
      BY <3>2, <3>5, <3>6, FunctionFacts
  <2>2. Depth = 0
    BY <2>1 DEF Depth
  <2> QED
    BY <2>2 DEF IInv, ContsInv
<1> QED
  BY <1>1, Invariant, PTL DEF InvWhereCovered

(* Numbers are in every variable, parameter and address; calls that Scratch comes *)
(* back from are not those that return to an address.                         *)
THEOREM TypeCorrect == Spec => [](Covered(jumpTable, prog) => TypeOK)
<1>1. IInv => TypeOK
  <2> SUFFICES ASSUME IInv PROVE TypeOK
    OBVIOUS
  <2>0. IsSeq(acts) /\ IsSeq(conts)
    BY DEF IInv, FramesInv, ContsInv, IsSeq
  <2>1. \A n \in DOMAIN acts : acts[n].fn \in DOMAIN prog /\ acts[n].block \in Label(prog[acts[n].fn])
    <3>1. DOMAIN acts = 1 .. Depth
      BY <2>0, SeqFacts DEF Depth
    <3> QED
      BY <3>1 DEF IInv, FramesInv, FrameOK
  <2>2. at # Stopped => /\ at.fn \in DOMAIN prog /\ at.block \in Label(fn)
                        /\ at.k \in 1 .. Size(fn, at.block) + 1
    <3> SUFFICES ASSUME at # Stopped
                 PROVE  /\ at.fn \in DOMAIN prog /\ at.block \in Label(fn)
                        /\ at.k \in 1 .. Size(fn, at.block) + 1
      OBVIOUS
    <3>1. InStep
      BY DEF InStep, IInv
    <3> QED
      BY <3>1, PositionFacts
  <2>3. ASSUME NEW n \in DOMAIN conts
        PROVE  \/ IsCallback(conts[n].at)
               \/ ~CallsAddress(prog[conts[n].at.fn].body[conts[n].at.block][conts[n].at.k])
    <3>1. /\ Depth \in Nat /\ Len(conts) \in Nat /\ n \in 1 .. Len(conts) /\ Base = Depth - Len(conts)
          /\ ContsInv /\ StaticInv
      BY <2>0, SeqFacts DEF Depth, Base, IInv
    <3>2. Depth > 0 /\ Len(conts) < Depth
      <4>1. Depth = 0 => conts = << >>
        BY <3>1 DEF ContsInv
      <4>2. Depth # 0
        BY <3>1, <4>1
      <4> QED
        BY <3>1, <4>2 DEF ContsInv
    <3> PICK i : i = n + Base
      OBVIOUS
    <3>3. i \in 2 .. Depth /\ i > Base /\ i - Base = n /\ i - 1 \in 1 .. Depth - 1 /\ i - 1 \in 1 .. Depth
      BY <3>1, <3>2
    <3>4. IF CallsAddress(Instr(i - 1)) THEN conts[n] = [at |-> From(i), params |-> NoParams]
          ELSE conts[n].at = SiteOf(i - 1)
      <4>1. \A m \in 2 .. Depth :
                m > Base => IF CallsAddress(Instr(m - 1)) THEN conts[m - Base] = [at |-> From(m), params |-> NoParams]
                            ELSE conts[m - Base].at = SiteOf(m - 1)
        BY <3>1 DEF ContsInv
      <4> QED
        BY <3>3, <4>1
    <3>5. CASE ~CallsAddress(Instr(i - 1))
      BY <3>4, <3>5 DEF SiteOf, Site, Instr
    <3>6. CASE CallsAddress(Instr(i - 1))
      <4>1. conts[n].at = From(i)
        BY <3>4, <3>6
      <4>2. CASE Dispatched(pointers, Instr(i - 1))
        <5> PICK sig : sig = SignatureOf(pointers, Instr(i - 1))
          OBVIOUS
        <5>1. conts[n].at = Callback(sig)
          BY <4>1, <4>2 DEF From, Expected
        <5>2. IsCallback(Callback(sig))
          BY DEF Callback, IsCallback, Site
        <5> QED
          BY <5>1, <5>2
      <4>3. CASE ~Dispatched(pointers, Instr(i - 1))
        <5> DEFINE c == acts[i - 1]
                   q == Instr(i - 1)
        <5>1. /\ c.fn \in DOMAIN prog /\ c.block \in Label(prog[c.fn]) /\ c.k \in 1 .. Size(prog[c.fn], c.block) + 1
              /\ c.k <= Size(prog[c.fn], c.block) /\ IsCall(q)
              /\ acts[i - 1 + 1].fn \in ToSet(CouldCall(pointers, q))
          BY <3>3 DEF IInv, FramesInv, FrameOK
        <5>2. i - 1 + 1 = i
          BY <3>1, <3>3
        <5>3. IsProgram(prog) /\ SigsOK(prog, pointers)
          BY <3>1, StaticUse
        <5>4. Size(prog[c.fn], c.block) \in Nat
          BY <5>1, <5>3, FunctionFacts
        <5>5. c.k \in 1 .. Size(prog[c.fn], c.block) /\ q = prog[c.fn].body[c.block][c.k]
          <6> HIDE DEF c
          <6>1. c.k \in 1 .. Size(prog[c.fn], c.block)
            BY <5>1, <5>4
          <6> QED
            BY <6>1 DEF Instr, c
        <5>6. acts[i].fn = CouldCall(pointers, q)[1]
          <6>1. q \in AllInstrs(prog)
            BY <5>1, <5>3, <5>5, InstrFacts
          <6>2. ToSet(CouldCall(pointers, q)) = {CouldCall(pointers, q)[1]}
            BY <4>3, <5>1, <5>3, <6>1, CouldCallFacts
          <6> QED
            BY <5>1, <5>2, <6>2
        <5>7. info[acts[i].fn].returnsToAddress
          BY <3>6, <4>3, <5>6 DEF CallsAddress, CallInfo
        <5>8. i <= Base
          BY <3>1, <3>3, <5>7 DEF ContsInv
        <5> QED
          BY <3>1, <3>3, <5>8
      <4> QED
        BY <4>2, <4>3
    <3> QED
      BY <3>5, <3>6
  <2>4. \A n \in DOMAIN localStack : localStack[n] \in [DOMAIN localStack[n] -> Nat]
    BY DEF IInv
  <2> QED
    BY <2>1, <2>2, <2>3, <2>4 DEF TypeOK, IInv, NumbersInv
<1> QED
  BY <1>1, Invariant, PTL DEF InvWhereCovered
=============================================================================
