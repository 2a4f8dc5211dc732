---------------------------- MODULE BitMasksProofs ---------------------------
(* Theorems about powers of two, the bits of a number and BitMasks: whatever *)
(* the width of the tables, and whichever bits are looked up, the tables and  *)
(* the masks compute and, or and xor.                                         *)
EXTENDS BitMasks, InductionLemmas

(* Pow2 is what its recursion says.                                           *)
LEMMA PowRecursion ==
    /\ Pow2 \in [Nat -> Nat]
    /\ Pow2[0] = 1
    /\ \A n \in Nat : Pow2[n + 1] = 2 * Pow2[n]
<1> DEFINE step == [n \in Nat |-> [p \in Nat |-> 2 * p]]
<1>1. step \in [Nat -> [Nat -> Nat]] /\ \A n, p \in Nat : step[n][p] = 2 * p
  OBVIOUS
<1> HIDE DEF step
<1>2. Recursive(Nat, 1, step)
  BY <1>1, RecursionExists
<1>3. PICK f \in [Nat -> Nat] : f[0] = 1 /\ \A n \in Nat : f[n + 1] = step[n][f[n]]
  BY <1>2 DEF Recursive
<1>4. f = [n \in Nat |-> IF n = 0 THEN 1 ELSE 2 * f[n - 1]]
  <2>1. ASSUME NEW n \in Nat, n # 0 PROVE f[n] = 2 * f[n - 1]
    <3>1. n - 1 \in Nat /\ (n - 1) + 1 = n
      BY <2>1
    <3> QED
      BY <1>1, <1>3, <3>1
  <2> QED
    BY <2>1, <1>3
<1>5. Pow2 = [n \in Nat |-> IF n = 0 THEN 1 ELSE 2 * Pow2[n - 1]]
  BY <1>4 DEF Pow2
<1>6. Pow2[0] = 1 /\ \A n \in Nat : Pow2[n + 1] = 2 * Pow2[n]
  <2> DEFINE P == Pow2
  <2>1. P = [n \in Nat |-> IF n = 0 THEN 1 ELSE 2 * P[n - 1]]
    BY <1>5
  <2> HIDE DEF P
  <2>2. P[0] = 1
    BY <2>1
  <2>3. ASSUME NEW n \in Nat PROVE P[n + 1] = 2 * P[n]
    <3>1. n + 1 \in Nat /\ n + 1 # 0 /\ (n + 1) - 1 = n
      OBVIOUS
    <3>2. P[n + 1] = 2 * P[(n + 1) - 1]
      BY <2>1, <3>1
    <3> QED
      BY <3>1, <3>2
  <2> QED
    BY <2>2, <2>3 DEF P
<1> DEFINE T == {n \in Nat : Pow2[n] \in Nat}
<1>7. 0 \in T /\ \A n \in Nat : n \in T => n + 1 \in T
  BY <1>6
<1> HIDE DEF T
<1>8. \A n \in Nat : n \in T
  BY <1>7, Induction
<1>9. Pow2 \in [Nat -> Nat]
  BY <1>5, <1>8 DEF T
<1> QED
  BY <1>6, <1>9

(* Division by n gives the only quotient whose remainder is below n.         *)
LEMMA Quotient ==
    ASSUME NEW n \in Nat \ {0}, NEW q \in Int, NEW r \in 0 .. n - 1
    PROVE  (n * q + r) \div n = q /\ (n * q + r) % n = r
<1> DEFINE a == n * q + r
           d == a \div n
           m == a % n
<1>1. a \in Int /\ d \in Int /\ m \in 0 .. n - 1 /\ a = n * d + m
  OBVIOUS
<1> HIDE DEF d, m
<1>2. n * (d - q) = r - m
  BY <1>1
<1>3. d = q
  <2>1. ~(d >= q + 1)
    BY <1>1
  <2>2. ~(d <= q - 1)
    BY <1>1
  <2> QED
    BY <1>1, <2>1, <2>2
<1> QED
  BY <1>1, <1>3 DEF d, m

(* Powers of two are positive, and those of a sum of exponents are products.  *)
LEMMA PowPositive == \A n \in Nat : Pow2[n] \in Nat \ {0}
<1> DEFINE T == {n \in Nat : Pow2[n] \in Nat \ {0}}
<1>1. 0 \in T
  BY PowRecursion
<1>2. ASSUME NEW n \in Nat, n \in T PROVE n + 1 \in T
  <2> DEFINE p == Pow2[n]
  <2>1. p \in Nat \ {0} /\ n + 1 \in Nat /\ Pow2[n + 1] = 2 * p
    BY <1>2, PowRecursion
  <2> HIDE DEF p
  <2>2. 2 * p \in Nat \ {0}
    BY <2>1
  <2> QED
    BY <2>1, <2>2
<1> HIDE DEF T
<1>3. \A n \in Nat : n \in T
  BY <1>1, <1>2, Induction
<1> QED
  BY <1>3 DEF T

(* A power of a sum is the product of the powers.                             *)
LEMMA PowSum == \A a, b \in Nat : Pow2[a + b] = Pow2[a] * Pow2[b]
<1> SUFFICES ASSUME NEW a \in Nat PROVE \A b \in Nat : Pow2[a + b] = Pow2[a] * Pow2[b]
  OBVIOUS
<1> DEFINE T == {b \in Nat : Pow2[a + b] = Pow2[a] * Pow2[b]}
<1>1. 0 \in T
  <2>1. a + 0 = a /\ Pow2[0] = 1 /\ Pow2[a] \in Nat
    BY PowRecursion
  <2> QED
    BY <2>1
<1>2. ASSUME NEW b \in Nat, b \in T PROVE b + 1 \in T
  <2> DEFINE p == Pow2[a]
             q == Pow2[b]
             s == Pow2[a + b]
  <2>1. p \in Nat /\ q \in Nat /\ s = p * q /\ a + b \in Nat /\ a + (b + 1) = (a + b) + 1
    BY <1>2, PowRecursion
  <2>2. Pow2[b + 1] = 2 * q /\ Pow2[a + (b + 1)] = 2 * s
    BY <2>1, PowRecursion
  <2> HIDE DEF p, q, s
  <2>3. 2 * s = p * (2 * q)
    BY <2>1
  <2> QED
    BY <2>2, <2>3 DEF p
<1> HIDE DEF T
<1>3. \A b \in Nat : b \in T
  BY <1>1, <1>2, Induction
<1> QED
  BY <1>3 DEF T

(* A greater exponent has no smaller power.                                   *)
LEMMA PowMonotone == \A a, b \in Nat : a <= b => Pow2[a] <= Pow2[b]
<1> SUFFICES ASSUME NEW a \in Nat, NEW b \in Nat, a <= b PROVE Pow2[a] <= Pow2[b]
  OBVIOUS
<1> DEFINE p == Pow2[a]
           q == Pow2[b - a]
<1>1. b - a \in Nat /\ a + (b - a) = b
  OBVIOUS
<1>2. p \in Nat \ {0} /\ q \in Nat \ {0} /\ Pow2[b] = p * q
  BY <1>1, PowPositive, PowSum
<1> HIDE DEF p, q
<1>3. p <= p * q
  BY <1>2
<1> QED
  BY <1>2, <1>3 DEF p

(* A number is below its power of two.                                        *)
LEMMA PowAbove == \A n \in Nat : n < Pow2[n]
<1> DEFINE T == {n \in Nat : n < Pow2[n]}
<1>1. 0 \in T
  BY PowRecursion
<1>2. ASSUME NEW n \in Nat, n \in T PROVE n + 1 \in T
  <2> DEFINE p == Pow2[n]
  <2>1. p \in Nat /\ n < p /\ n + 1 \in Nat /\ Pow2[n + 1] = 2 * p
    BY <1>2, PowRecursion
  <2> HIDE DEF p
  <2>2. n + 1 < 2 * p
    BY <2>1
  <2> QED
    BY <2>1, <2>2
<1> HIDE DEF T
<1>3. \A n \in Nat : n \in T
  BY <1>1, <1>2, Induction
<1> QED
  BY <1>3 DEF T

(* A type has an even number of values: 2^w is twice 2^(w - 1).               *)
LEMMA PowHalf ==
    ASSUME NEW w \in Nat \ {0}
    PROVE  /\ Pow2[w - 1] \in Nat \ {0} /\ Pow2[w] \in Nat \ {0}
           /\ Pow2[w] = 2 * Pow2[w - 1]
<1>1. w - 1 \in Nat /\ (w - 1) + 1 = w
  OBVIOUS
<1> QED
  BY <1>1, PowPositive, PowRecursion

(* A number is its quotient and its remainder.                                *)
LEMMA Division ==
    ASSUME NEW a \in Int, NEW n \in Nat \ {0}
    PROVE  a \div n \in Int /\ a % n \in 0 .. n - 1 /\ a = n * (a \div n) + (a % n)
OBVIOUS

(* Adding a multiple of n leaves the remainder as it is.                      *)
LEMMA AddMultiple ==
    ASSUME NEW a \in Int, NEW n \in Nat \ {0}, NEW k \in Int
    PROVE  (a + n * k) \div n = a \div n + k /\ (a + n * k) % n = a % n
<1> DEFINE q == a \div n
           r == a % n
<1>1. q \in Int /\ r \in 0 .. n - 1 /\ a = n * q + r
  BY Division
<1> HIDE DEF q, r
<1>2. a + n * k = n * (q + k) + r /\ q + k \in Int
  BY <1>1
<1>3. (n * (q + k) + r) \div n = q + k /\ (n * (q + k) + r) % n = r
  BY <1>1, <1>2, Quotient
<1> QED
  BY <1>2, <1>3 DEF q, r

(* A number in range is its own remainder.                                    *)
LEMMA Small ==
    ASSUME NEW n \in Nat \ {0}, NEW a \in 0 .. n - 1
    PROVE  a \div n = 0 /\ a % n = a
<1>1. n * 0 + a = a /\ 0 \in Int
  OBVIOUS
<1> QED
  BY <1>1, Quotient

(* Division by a product divides by one factor after the other.               *)
LEMMA QuotientByProduct ==
    ASSUME NEW a \in Int, NEW n \in Nat \ {0}, NEW m \in Nat \ {0}
    PROVE  a \div (n * m) = (a \div n) \div m
<1> DEFINE q == a \div n
           r == a % n
           d == q \div m
           e == q % m
<1>1. q \in Int /\ r \in 0 .. n - 1 /\ a = n * q + r
  BY Division
<1>2. d \in Int /\ e \in 0 .. m - 1 /\ q = m * d + e
  BY <1>1, Division
<1> HIDE DEF q, r, d, e
<1>3. n * m \in Nat \ {0}
  OBVIOUS
<1>4. a = (n * m) * d + (n * e + r)
  BY <1>1, <1>2
<1>5. n * e + r \in 0 .. n * m - 1
  <2>1. e + 1 <= m
    BY <1>2
  <2>2. n * (e + 1) <= n * m
    BY <2>1, <1>2
  <2>3. n * e + r \in Int /\ 0 <= n * e
    BY <1>1, <1>2
  <2> QED
    BY <1>1, <1>2, <1>3, <2>2, <2>3
<1> DEFINE nm == n * m
           s == n * e + r
<1>6. (nm * d + s) \div nm = d /\ (nm * d + s) % nm = s
  <2>1. nm \in Nat \ {0} /\ d \in Int /\ s \in 0 .. nm - 1
    BY <1>2, <1>3, <1>5
  <2> HIDE DEF nm, s
  <2> QED
    BY <2>1, Quotient
<1> QED
  BY <1>4, <1>6 DEF q, r, d, e

(* A remainder by a product has the remainder by each factor as its digits.   *)
LEMMA RemainderByProduct ==
    ASSUME NEW a \in Int, NEW n \in Nat \ {0}, NEW m \in Nat \ {0}
    PROVE  a % (n * m) = n * ((a \div n) % m) + (a % n)
<1> DEFINE q == a \div n
           r == a % n
           d == q \div m
           e == q % m
           p == n * m
           f == a % p
<1>1. q \in Int /\ r \in 0 .. n - 1 /\ a = n * q + r
  BY Division
<1>2. d \in Int /\ e \in 0 .. m - 1 /\ q = m * d + e
  BY <1>1, Division
<1>3. p \in Nat \ {0}
  OBVIOUS
<1>4. a \div p = d
  BY QuotientByProduct
<1>5. f \in Int /\ a = p * d + f
  <2> HIDE DEF p, d, q
  <2>1. a = p * (a \div p) + (a % p) /\ a % p \in Int
    BY <1>3, Division
  <2> QED
    BY <1>4, <2>1
<1>6. f = n * e + r
  <2> HIDE DEF q, r, d, e, f
  <2> QED
    BY <1>1, <1>2, <1>5
<1> QED
  BY <1>6

(* The digits of a remainder are those of the number.                         *)
LEMMA RemainderOfRemainder ==
    ASSUME NEW a \in Int, NEW n \in Nat \ {0}, NEW m \in Nat \ {0}
    PROVE  (a % (n * m)) % n = a % n
<1> DEFINE q == (a \div n) % m
           r == a % n
<1>1. r \in 0 .. n - 1 /\ a \div n \in Int
  BY Division
<1>2. q \in 0 .. m - 1
  BY <1>1, Division
<1>3. a % (n * m) = n * q + r
  BY RemainderByProduct
<1> HIDE DEF q, r
<1>4. q \in Int
  BY <1>2
<1>5. (n * q + r) % n = r
  BY <1>1, <1>4, Quotient
<1> QED
  BY <1>3, <1>5 DEF r

(* The upper digits of a remainder by a product are a remainder.              *)
LEMMA DigitOfRemainder ==
    ASSUME NEW a \in Int, NEW n \in Nat \ {0}, NEW m \in Nat \ {0}
    PROVE  (a % (n * m)) \div n = (a \div n) % m
<1> DEFINE q == (a \div n) % m
           r == a % n
<1>1. r \in 0 .. n - 1 /\ a \div n \in Int
  BY Division
<1>2. q \in 0 .. m - 1
  BY <1>1, Division
<1>3. a % (n * m) = n * q + r
  BY RemainderByProduct
<1> HIDE DEF q, r
<1>4. q \in Int
  BY <1>2
<1>5. (n * q + r) \div n = q
  BY <1>1, <1>4, Quotient
<1> QED
  BY <1>3, <1>5 DEF q

(* The quotient of a number below n * m is below m.                           *)
LEMMA QuotientRange ==
    ASSUME NEW n \in Nat \ {0}, NEW m \in Nat \ {0}, NEW a \in 0 .. n * m - 1
    PROVE  a \div n \in 0 .. m - 1
<1> DEFINE q == a \div n
           r == a % n
<1>1. a \in Int
  OBVIOUS
<1>2. q \in Int /\ r \in 0 .. n - 1 /\ a = n * q + r
  BY <1>1, Division
<1> HIDE DEF q, r
<1>3. 0 <= q
  <2> SUFFICES ASSUME q <= -1 PROVE FALSE
    BY <1>2
  <2>1. n * q <= n * (-1)
    BY <1>2
  <2> QED
    BY <1>2, <2>1
<1>4. q < m
  <2> SUFFICES ASSUME m <= q PROVE FALSE
    BY <1>2
  <2>1. n * m <= n * q
    BY <1>2
  <2> QED
    BY <1>2, <2>1
<1> QED
  BY <1>2, <1>3, <1>4 DEF q

(* A factor of both sides.                                                    *)
LEMMA CommonFactor ==
    ASSUME NEW a \in Int, NEW n \in Nat \ {0}, NEW m \in Nat \ {0}
    PROVE  (n * a) \div (n * m) = a \div m /\ (n * a) % (n * m) = n * (a % m)
<1>1. n * a \in Int /\ n * a = n * a + 0 /\ 0 \in 0 .. n - 1
  OBVIOUS
<1>2. (n * a) \div n = a /\ (n * a) % n = 0
  BY <1>1, Quotient
<1>3. n * (a % m) \in Int
  BY Division
<1> DEFINE x == n * a
<1>4. x \div (n * m) = (x \div n) \div m /\ x % (n * m) = n * ((x \div n) % m) + (x % n)
  <2>1. x \in Int
    BY <1>1
  <2> HIDE DEF x
  <2>2. x \div (n * m) = (x \div n) \div m
    BY <2>1, QuotientByProduct
  <2>3. x % (n * m) = n * ((x \div n) % m) + (x % n)
    BY <2>1, RemainderByProduct
  <2> QED
    BY <2>2, <2>3
<1>5. x \div n = a /\ x % n = 0
  BY <1>2
<1>6. x \div (n * m) = a \div m /\ x % (n * m) = n * (a % m) + 0
  <2> HIDE DEF x
  <2> QED
    BY <1>4, <1>5
<1> QED
  BY <1>3, <1>6

(* A multiple of the modulus changes no remainder.                            *)
LEMMA SameRemainder ==
    ASSUME NEW a \in Int, NEW n \in Nat \ {0}, NEW k \in Int
    PROVE  (a + n * k) % n = a % n
BY AddMultiple

-----------------------------------------------------------------------------
(* Bits.                                                                     *)

Kinds == {"and", "or", "xor"}

(* A bit is 0 or 1.                                                           *)
LEMMA BitType == \A v \in Int, i \in Nat : BitAt(v, i) \in {0, 1}
<1> SUFFICES ASSUME NEW v \in Int, NEW i \in Nat PROVE BitAt(v, i) \in {0, 1}
  OBVIOUS
<1> DEFINE q == v \div Pow2[i]
<1>1. q \in Int
  BY PowPositive, Division
<1> HIDE DEF q
<1>2. q % 2 \in {0, 1}
  BY <1>1
<1> QED
  BY <1>2 DEF BitAt, q

(* And, or and xor of two bits are a bit.                                     *)
LEMMA BitOfType == \A kind \in Kinds : \A a, b \in {0, 1} : BitOf(kind, a, b) \in {0, 1}
BY DEF BitOf, Kinds

(* One more bit of a number.                                                  *)
LEMMA NextBit ==
    ASSUME NEW v \in Int, NEW n \in Nat
    PROVE  v % Pow2[n + 1] = (v % Pow2[n]) + Pow2[n] * BitAt(v, n)
<1> DEFINE p == Pow2[n]
<1>1. p \in Nat \ {0} /\ Pow2[n + 1] = p * 2
  BY PowPositive, PowRecursion
<1> HIDE DEF p
<1> DEFINE two == 2
<1>2. v % (p * two) = p * ((v \div p) % two) + (v % p)
  <2>1. two \in Nat \ {0}
    OBVIOUS
  <2> HIDE DEF two
  <2> QED
    BY <1>1, <2>1, RemainderByProduct
<1>3. v % p \in Int /\ (v \div p) % 2 \in Int
  BY <1>1, Division
<1> QED
  BY <1>1, <1>2, <1>3 DEF BitAt, p

\* The operation on the lowest bits, as the recursion of Bit says.
Lowest(kind, l, r) ==
    CHOOSE f : f = [n \in Nat |-> IF n = 0 THEN 0
                                  ELSE f[n - 1] + Pow2[n - 1] * BitOf(kind, BitAt(l, n - 1), BitAt(r, n - 1))]

(* Lowest is what its recursion says: one more bit each time.                 *)
LEMMA LowestRecursion ==
    ASSUME NEW kind \in Kinds, NEW l \in Int, NEW r \in Int
    PROVE  /\ Lowest(kind, l, r) \in [Nat -> Nat]
           /\ Lowest(kind, l, r)[0] = 0
           /\ \A n \in Nat : Lowest(kind, l, r)[n + 1]
                                = Lowest(kind, l, r)[n] + Pow2[n] * BitOf(kind, BitAt(l, n), BitAt(r, n))
<1> DEFINE more(n) == Pow2[n] * BitOf(kind, BitAt(l, n), BitAt(r, n))
           step == [n \in Nat |-> [p \in Nat |-> p + more(n)]]
<1>1. \A n \in Nat : more(n) \in Nat
  <2> TAKE n \in Nat
  <2>1. Pow2[n] \in Nat
    BY PowRecursion
  <2>2. BitAt(l, n) \in {0, 1} /\ BitAt(r, n) \in {0, 1}
    BY BitType
  <2> DEFINE p == Pow2[n]
             b == BitOf(kind, BitAt(l, n), BitAt(r, n))
  <2>3. b \in {0, 1}
    BY <2>2, BitOfType
  <2> HIDE DEF p, b
  <2>4. p * b \in Nat
    BY <2>1, <2>3 DEF p
  <2> QED
    BY <2>4 DEF p, b
<1> HIDE DEF more
<1>2. step \in [Nat -> [Nat -> Nat]] /\ \A n, p \in Nat : step[n][p] = p + more(n)
  BY <1>1
<1> HIDE DEF step
<1>3. Recursive(Nat, 0, step)
  BY <1>2, RecursionExists
<1>4. PICK f \in [Nat -> Nat] : f[0] = 0 /\ \A n \in Nat : f[n + 1] = step[n][f[n]]
  BY <1>3 DEF Recursive
<1>5. f = [n \in Nat |-> IF n = 0 THEN 0 ELSE f[n - 1] + more(n - 1)]
  <2>1. ASSUME NEW n \in Nat, n # 0 PROVE f[n] = f[n - 1] + more(n - 1)
    <3>1. n - 1 \in Nat /\ (n - 1) + 1 = n
      BY <2>1
    <3> QED
      BY <1>2, <1>4, <3>1
  <2> QED
    BY <2>1, <1>4
<1> DEFINE F == Lowest(kind, l, r)
<1>6. F = [n \in Nat |-> IF n = 0 THEN 0 ELSE F[n - 1] + more(n - 1)]
  BY <1>5 DEF Lowest, more
<1> HIDE DEF F
<1>7. F[0] = 0
  BY <1>6
<1>8. ASSUME NEW n \in Nat PROVE F[n + 1] = F[n] + more(n)
  <2>1. n + 1 \in Nat /\ n + 1 # 0 /\ (n + 1) - 1 = n
    OBVIOUS
  <2>2. F[n + 1] = F[(n + 1) - 1] + more((n + 1) - 1)
    BY <1>6, <2>1
  <2> QED
    BY <2>1, <2>2
<1> DEFINE T == {n \in Nat : F[n] \in Nat}
<1>9. 0 \in T /\ \A n \in Nat : n \in T => n + 1 \in T
  BY <1>1, <1>7, <1>8
<1> HIDE DEF T
<1>10. \A n \in Nat : n \in T
  BY <1>9, Induction
<1>11. F \in [Nat -> Nat]
  BY <1>6, <1>10 DEF T
<1> QED
  BY <1>7, <1>8, <1>11 DEF F, more

(* The value LLVM gives to and, or and xor is made of the lowest bits.        *)
LEMMA BitIsLowest ==
    ASSUME NEW kind, NEW l, NEW r, NEW n
    PROVE  Bit(kind, l, r, n) = Lowest(kind, l, r)[n]
BY DEF Bit, Lowest

(* The operation of a number of bits gives a number of as many bits.          *)
LEMMA LowestRange ==
    ASSUME NEW kind \in Kinds, NEW l \in Int, NEW r \in Int
    PROVE  \A n \in Nat : Lowest(kind, l, r)[n] \in 0 .. Pow2[n] - 1
<1> DEFINE F == Lowest(kind, l, r)
           T == {n \in Nat : F[n] \in 0 .. Pow2[n] - 1}
<1>1. 0 \in T
  BY LowestRecursion, PowRecursion
<1>2. ASSUME NEW n \in Nat, n \in T PROVE n + 1 \in T
  <2> DEFINE p == Pow2[n]
             b == BitOf(kind, BitAt(l, n), BitAt(r, n))
             f == F[n]
  <2>1. b \in {0, 1}
    BY BitType, BitOfType
  <2>2. F[n + 1] = f + p * b
    BY LowestRecursion
  <2>3. p \in Nat \ {0} /\ Pow2[n + 1] = 2 * p
    BY PowPositive, PowRecursion
  <2>4. f \in 0 .. p - 1
    BY <1>2
  <2> HIDE DEF F, p, b, f
  <2>5. f + p * b \in 0 .. 2 * p - 1
    <3>1. CASE b = 0
      BY <2>3, <2>4, <3>1
    <3>2. CASE b = 1
      BY <2>3, <2>4, <3>2
    <3> QED
      BY <2>1, <3>1, <3>2
  <2> QED
    BY <2>2, <2>3, <2>5
<1> HIDE DEF T
<1>3. \A n \in Nat : n \in T
  BY <1>1, <1>2, Induction
<1> QED
  BY <1>3 DEF T

(* The operation on m bits is the lowest m bits of that on more.              *)
LEMMA LowestRemainder ==
    ASSUME NEW kind \in Kinds, NEW l \in Int, NEW r \in Int, NEW m \in Nat
    PROVE  \A n \in Nat : m <= n => Lowest(kind, l, r)[n] % Pow2[m] = Lowest(kind, l, r)[m]
<1> DEFINE F == Lowest(kind, l, r)
           p == Pow2[m]
           T == {k \in Nat : F[m + k] % p = F[m]}
<1>1. p \in Nat \ {0} /\ F \in [Nat -> Nat] /\ F[m] \in 0 .. p - 1
  BY PowPositive, LowestRecursion, LowestRange
<1>2. 0 \in T
  <2>1. F[m] % p = F[m]
    <3> HIDE DEF F, p
    <3> QED
      BY <1>1, Small
  <2>2. m + 0 = m
    OBVIOUS
  <2> QED
    BY <2>1, <2>2
<1>3. ASSUME NEW k \in Nat, k \in T PROVE k + 1 \in T
  <2> DEFINE b == BitOf(kind, BitAt(l, m + k), BitAt(r, m + k))
             q == Pow2[k]
             f == F[m + k]
             g == F[(m + k) + 1]
  <2>1. m + k \in Nat /\ m + (k + 1) = (m + k) + 1
    OBVIOUS
  <2>2. b \in {0, 1}
    BY <2>1, BitType, BitOfType
  <2>3. q \in Nat /\ Pow2[m + k] = p * q
    BY PowPositive, PowSum
  <2>4. g = f + Pow2[m + k] * b
    BY <2>1, LowestRecursion
  <2>5. f \in Nat /\ f % p = F[m]
    BY <1>1, <1>3, <2>1
  <2> HIDE DEF b, q, f, g, p
  <2>6. g = f + p * (q * b) /\ q * b \in Int /\ f + p * (q * b) \in Int
    BY <1>1, <2>2, <2>3, <2>4, <2>5
  <2> DEFINE k2 == q * b
  <2>7. k2 \in Int /\ g = f + p * k2 /\ g \in Int /\ f \in Int
    BY <2>5, <2>6
  <2> HIDE DEF k2
  <2>8. (f + p * k2) % p = f % p
    BY <1>1, <2>7, SameRemainder
  <2> QED
    BY <2>1, <2>5, <2>7, <2>8 DEF g
<1> HIDE DEF T
<1>4. \A k \in Nat : k \in T
  BY <1>2, <1>3, Induction
<1> SUFFICES ASSUME NEW n \in Nat, m <= n PROVE F[n] % p = F[m]
  OBVIOUS
<1>5. n - m \in Nat /\ m + (n - m) = n
  OBVIOUS
<1> QED
  BY <1>4, <1>5 DEF T

(* Two sequences of numbers that change alike by each step change alike.      *)
LEMMA SameSteps ==
    ASSUME NEW F \in [Nat -> Int], NEW G \in [Nat -> Int], NEW lo \in Nat, NEW hi \in Nat, lo <= hi,
           \A i \in lo .. hi - 1 : F[i + 1] - F[i] = G[i + 1] - G[i]
    PROVE  F[hi] - F[lo] = G[hi] - G[lo]
<1> DEFINE T == {k \in Nat : lo + k <= hi => F[lo + k] - F[lo] = G[lo + k] - G[lo]}
<1>1. 0 \in T
  BY lo + 0 = lo
<1>2. ASSUME NEW k \in Nat, k \in T PROVE k + 1 \in T
  <2> SUFFICES ASSUME lo + (k + 1) <= hi PROVE F[lo + (k + 1)] - F[lo] = G[lo + (k + 1)] - G[lo]
    OBVIOUS
  <2>1. lo + k \in lo .. hi - 1 /\ lo + k \in Nat /\ lo + (k + 1) = (lo + k) + 1 /\ (lo + k) + 1 \in Nat
    OBVIOUS
  <2> DEFINE i == lo + k
  <2>2. F[i] - F[lo] = G[i] - G[lo]
    BY <1>2, <2>1
  <2>3. F[i + 1] - F[i] = G[i + 1] - G[i]
    BY <2>1
  <2>4. i \in Nat /\ i + 1 \in Nat
    BY <2>1
  <2> HIDE DEF i
  <2>5. F[i + 1] - F[lo] = G[i + 1] - G[lo]
    BY <2>2, <2>3, <2>4
  <2> QED
    BY <2>1, <2>5 DEF i
<1> HIDE DEF T
<1>3. \A k \in Nat : k \in T
  BY <1>1, <1>2, Induction
<1> DEFINE k == hi - lo
<1>4. k \in Nat /\ lo + k = hi /\ lo + k <= hi
  OBVIOUS
<1> HIDE DEF k
<1>5. k \in T
  BY <1>3, <1>4
<1>6. F[lo + k] - F[lo] = G[lo + k] - G[lo]
  BY <1>4, <1>5 DEF T
<1> QED
  BY <1>4, <1>6

(* The bits of a quotient, of a remainder and of a small number.              *)
LEMMA BitOfQuotient ==
    ASSUME NEW v \in Int, NEW lo \in Nat, NEW i \in Nat
    PROVE  BitAt(v \div Pow2[lo], i) = BitAt(v, lo + i)
<1> DEFINE p == Pow2[lo]
           q == Pow2[i]
<1>1. p \in Nat \ {0} /\ q \in Nat \ {0} /\ Pow2[lo + i] = p * q
  BY PowPositive, PowSum
<1>2. v \div (p * q) = (v \div p) \div q
  <2> HIDE DEF p, q
  <2> QED
    BY <1>1, QuotientByProduct
<1> QED
  BY <1>1, <1>2 DEF BitAt

(* A remainder by a power of two keeps the bits below it.                     *)
LEMMA BitOfRemainder ==
    ASSUME NEW v \in Int, NEW n \in Nat, NEW i \in Nat, i < n
    PROVE  BitAt(v % Pow2[n], i) = BitAt(v, i)
<1> DEFINE p == Pow2[i]
           q == Pow2[n - i - 1]
           two == 2
           x == v \div p
<1>1. n - i - 1 \in Nat /\ n - i \in Nat /\ (n - i - 1) + 1 = n - i /\ i + (n - i) = n
  OBVIOUS
<1>2. p \in Nat \ {0} /\ q \in Nat \ {0} /\ two \in Nat \ {0}
  BY <1>1, PowPositive
<1>3. Pow2[n - i] = two * q /\ Pow2[n] = p * Pow2[n - i]
  BY <1>1, PowRecursion, PowSum
<1> DEFINE m == two * q
<1>4. m \in Nat \ {0} /\ Pow2[n] = p * m
  <2>1. m \in Nat \ {0}
    <3> HIDE DEF q
    <3> QED
      BY <1>2
  <2> QED
    BY <1>3, <2>1
<1>5. x \in Int
  BY <1>2, Division
<1>6. (v % (p * m)) \div p = x % m
  <2> HIDE DEF p, m
  <2>1. (v % (p * m)) \div p = (v \div p) % m
    BY <1>2, <1>4, DigitOfRemainder
  <2> QED
    BY <2>1
<1>7. (x % m) % two = x % two
  <2> HIDE DEF x, q, two
  <2> QED
    BY <1>2, <1>5, RemainderOfRemainder
<1> QED
  BY <1>4, <1>6, <1>7 DEF BitAt

(* A number below a power of two has no bit above it.                         *)
LEMMA BitAbove ==
    ASSUME NEW n \in Nat, NEW v \in 0 .. Pow2[n] - 1, NEW i \in Nat, n <= i
    PROVE  BitAt(v, i) = 0
<1> DEFINE p == Pow2[i]
<1>1. p \in Nat \ {0} /\ Pow2[n] \in Nat /\ Pow2[n] <= p
  BY PowPositive, PowMonotone
<1>2. v \in 0 .. p - 1
  BY <1>1
<1> HIDE DEF p
<1>3. v \div p = 0
  BY <1>1, <1>2, Small
<1>4. 0 % 2 = 0
  OBVIOUS
<1> QED
  BY <1>3, <1>4 DEF BitAt, p

(* The operation on some of the bits, taken apart from the numbers.           *)
LEMMA LowestShifted ==
    ASSUME NEW kind \in Kinds, NEW l \in Int, NEW r \in Int, NEW l2 \in Int, NEW r2 \in Int,
           NEW lo \in Nat, NEW n \in Nat,
           \A i \in 0 .. n - 1 : BitAt(l2, i) = BitAt(l, lo + i) /\ BitAt(r2, i) = BitAt(r, lo + i)
    PROVE  Lowest(kind, l, r)[lo + n] = Lowest(kind, l, r)[lo] + Pow2[lo] * Lowest(kind, l2, r2)[n]
<1> DEFINE F == Lowest(kind, l, r)
           H == Lowest(kind, l2, r2)
           p == Pow2[lo]
           f == [k \in Nat |-> F[lo + k]]
           g == [k \in Nat |-> p * H[k]]
<1>1. F \in [Nat -> Nat] /\ H \in [Nat -> Nat] /\ H[0] = 0 /\ p \in Nat
  BY LowestRecursion, PowPositive
<1>2. \A k \in Nat : f[k] = F[lo + k] /\ g[k] = p * H[k]
  OBVIOUS
<1>3. f \in [Nat -> Int] /\ g \in [Nat -> Int]
  <2> HIDE DEF F, H, p
  <2>1. \A k \in Nat : F[lo + k] \in Int /\ p * H[k] \in Int
    BY <1>1
  <2> QED
    BY <2>1
<1> HIDE DEF f, g
<1>4. ASSUME NEW i \in 0 .. n - 1 PROVE f[i + 1] - f[i] = g[i + 1] - g[i]
  <2> DEFINE b == BitOf(kind, BitAt(l2, i), BitAt(r2, i))
             q == Pow2[i]
             x == F[lo + i]
             y == H[i]
  <2>1. i \in Nat /\ i + 1 \in Nat /\ lo + (i + 1) = (lo + i) + 1 /\ lo + i \in Nat
    OBVIOUS
  <2>2. F[(lo + i) + 1] = x + Pow2[lo + i] * b
    BY <2>1, LowestRecursion
  <2>3. H[i + 1] = y + q * b
    BY <2>1, LowestRecursion
  <2>4. Pow2[lo + i] = p * q
    BY <2>1, PowSum
  <2>5. x \in Int /\ y \in Int /\ q \in Int /\ b \in {0, 1}
    <3>1. x \in Int /\ y \in Int /\ q \in Int
      BY SMTT(30), <1>1, <2>1, PowRecursion
    <3>2. BitAt(l2, i) \in {0, 1} /\ BitAt(r2, i) \in {0, 1}
      BY <2>1, BitType
    <3>3. b \in {0, 1}
      BY <3>2, BitOfType
    <3> QED
      BY <3>1, <3>3
  <2>6. f[i + 1] = x + (p * q) * b /\ f[i] = x /\ g[i + 1] = p * (y + q * b) /\ g[i] = p * y
    BY <1>2, <2>1, <2>2, <2>3, <2>4
  <2> HIDE DEF b, p, q, x, y
  <2> QED
    BY <1>1, <2>5, <2>6
<1>5. f[n] - f[0] = g[n] - g[0]
  <2> DEFINE zero == 0
  <2>1. zero \in Nat /\ zero <= n /\ \A i \in zero .. n - 1 : f[i + 1] - f[i] = g[i + 1] - g[i]
    BY <1>4
  <2> HIDE DEF zero
  <2>2. f[n] - f[zero] = g[n] - g[zero]
    BY <1>3, <2>1, SameSteps
  <2> QED
    BY <2>2 DEF zero
<1>6. f[n] = F[lo + n] /\ f[0] = F[lo] /\ g[n] = p * H[n] /\ g[0] = p * 0
  <2>1. lo + 0 = lo /\ n \in Nat /\ 0 \in Nat
    OBVIOUS
  <2> QED
    BY <1>1, <1>2, <2>1
<1> DEFINE x == F[lo]
           y == p * H[n]
           z == F[lo + n]
<1>7. x \in Int /\ z \in Int /\ y \in Int
  <2>1. lo + n \in Nat
    OBVIOUS
  <2> QED
    BY <1>1, <1>3, <1>6, <2>1
<1>8. z - x = y - 0
  BY <1>1, <1>5, <1>6
<1> HIDE DEF x, y, z
<1>9. z = x + y
  BY <1>7, <1>8
<1> QED
  BY <1>9 DEF x, y, z

(* Above the bits of both numbers there is nothing.                           *)
LEMMA LowestOfSmall ==
    ASSUME NEW kind \in Kinds, NEW k \in Nat, NEW l \in 0 .. Pow2[k] - 1, NEW r \in 0 .. Pow2[k] - 1,
           NEW n \in Nat, k <= n
    PROVE  Lowest(kind, l, r)[n] = Lowest(kind, l, r)[k]
<1> DEFINE F == Lowest(kind, l, r)
           G == [i \in Nat |-> 0]
<1>1. F \in [Nat -> Int] /\ G \in [Nat -> Int]
  <2>1. l \in Int /\ r \in Int
    OBVIOUS
  <2> QED
    BY <2>1, LowestRecursion
<1>2. ASSUME NEW i \in k .. n - 1 PROVE F[i + 1] - F[i] = G[i + 1] - G[i]
  <2>1. i \in Nat /\ k <= i /\ i + 1 \in Nat /\ l \in Int /\ r \in Int
    OBVIOUS
  <2>2. BitAt(l, i) = 0 /\ BitAt(r, i) = 0
    BY <2>1, BitAbove
  <2>3. BitOf(kind, 0, 0) = 0
    BY DEF BitOf, Kinds
  <2>4. F[i + 1] = F[i] + Pow2[i] * 0
    BY <2>1, <2>2, <2>3, LowestRecursion
  <2>5. F[i] \in Int /\ Pow2[i] \in Int
    BY <1>1, <2>1, PowRecursion
  <2>6. F[i + 1] = F[i]
    <3> HIDE DEF F
    <3> QED
      BY <2>4, <2>5
  <2>7. G[i + 1] = 0 /\ G[i] = 0
    BY <2>1
  <2> HIDE DEF F, G
  <2> QED
    BY <2>5, <2>6, <2>7
<1>3. F[n] - F[k] = G[n] - G[k]
  <2> HIDE DEF F, G
  <2> QED
    BY <1>1, <1>2, SameSteps
<1>4. G[n] = 0 /\ G[k] = 0 /\ F[n] \in Int /\ F[k] \in Int
  BY <1>1
<1> HIDE DEF F, G
<1>5. F[n] = F[k]
  BY <1>3, <1>4
<1> QED
  BY <1>5 DEF F

\* What the lowest n bits of a number are worth.
Remainders(v) == [n \in Nat |-> v % Pow2[n]]

(* A number is found again from its bits, lowest first.                       *)
LEMMA RemaindersFacts ==
    ASSUME NEW v \in Int
    PROVE  /\ Remainders(v) \in [Nat -> Int]
           /\ Remainders(v)[0] = 0
           /\ \A n \in Nat : Remainders(v)[n + 1] = Remainders(v)[n] + Pow2[n] * BitAt(v, n)
<1>1. \A n \in Nat : Remainders(v)[n] = v % Pow2[n] /\ v % Pow2[n] \in Int
  BY PowPositive, Division DEF Remainders
<1>2. v % 1 = 0
  OBVIOUS
<1>3. Remainders(v)[0] = 0
  BY <1>1, <1>2, PowRecursion
<1>4. ASSUME NEW n \in Nat PROVE Remainders(v)[n + 1] = Remainders(v)[n] + Pow2[n] * BitAt(v, n)
  <2>1. n + 1 \in Nat
    OBVIOUS
  <2> QED
    BY <1>1, <2>1, NextBit
<1>5. Remainders(v) \in [Nat -> Int]
  BY <1>1 DEF Remainders
<1> QED
  BY <1>3, <1>4, <1>5

(* And with ones is the number, and with zeros nothing.                       *)
LEMMA AndWithOnes ==
    ASSUME NEW u \in Int, NEW k \in Int, NEW lo \in Nat, NEW hi \in Nat, lo <= hi,
           \A i \in lo .. hi - 1 : BitAt(k, i) = 1
    PROVE  Lowest("and", u, k)[hi] - Lowest("and", u, k)[lo] = (u % Pow2[hi]) - (u % Pow2[lo])
<1> DEFINE F == Lowest("and", u, k)
           R == Remainders(u)
<1>0. "and" \in Kinds
  BY DEF Kinds
<1>1. F \in [Nat -> Int] /\ R \in [Nat -> Int]
  BY <1>0, LowestRecursion, RemaindersFacts
<1>2. ASSUME NEW i \in lo .. hi - 1 PROVE F[i + 1] - F[i] = R[i + 1] - R[i]
  <2>1. i \in Nat /\ BitAt(k, i) = 1
    OBVIOUS
  <2> DEFINE p == Pow2[i]
             a == BitAt(u, i)
             b == BitAt(k, i)
  <2>2. /\ p \in Nat \ {0} /\ a \in {0, 1} /\ F[i] \in Int /\ R[i] \in Int
        /\ F[i + 1] = F[i] + p * BitOf("and", a, b)
        /\ R[i + 1] = R[i] + p * a
    <3>1. p \in Nat \ {0} /\ a \in {0, 1}
      BY <2>1, PowPositive, BitType
    <3>2. F[i + 1] = F[i] + p * BitOf("and", a, b)
      BY <1>0, <2>1, LowestRecursion
    <3>3. R[i + 1] = R[i] + p * a
      BY <2>1, RemaindersFacts
    <3>4. F[i] \in Int /\ R[i] \in Int
      BY <1>1, <2>1
    <3> QED
      BY <3>1, <3>2, <3>3, <3>4
  <2>3. b = 1 /\ BitOf("and", a, b) = a
    BY <2>1, <2>2 DEF BitOf
  <2>4. p * a \in Int
    BY <2>2
  <2> DEFINE x == F[i]
             y == R[i]
             z == p * a
  <2>5. x \in Int /\ y \in Int /\ z \in Int /\ F[i + 1] = x + z /\ R[i + 1] = y + z
    BY <2>2, <2>3, <2>4
  <2> HIDE DEF x, y, z
  <2>6. (x + z) - x = (y + z) - y
    BY <2>5
  <2> QED
    BY <2>5, <2>6 DEF x, y
<1> HIDE DEF F, R
<1>3. F[hi] - F[lo] = R[hi] - R[lo]
  BY <1>1, <1>2, SameSteps
<1>4. R[hi] = u % Pow2[hi] /\ R[lo] = u % Pow2[lo]
  BY DEF R, Remainders
<1> QED
  BY <1>3, <1>4 DEF F

(* Where the known operand has zeros, and adds nothing.                       *)
LEMMA AndWithZeros ==
    ASSUME NEW u \in Int, NEW k \in Int, NEW lo \in Nat, NEW hi \in Nat, lo <= hi,
           \A i \in lo .. hi - 1 : BitAt(k, i) = 0
    PROVE  Lowest("and", u, k)[hi] = Lowest("and", u, k)[lo]
<1> DEFINE F == Lowest("and", u, k)
           G == [n \in Nat |-> 0]
<1>0. "and" \in Kinds
  BY DEF Kinds
<1>1. F \in [Nat -> Int] /\ G \in [Nat -> Int] /\ \A n \in Nat : G[n] = 0
  BY <1>0, LowestRecursion
<1>2. ASSUME NEW i \in lo .. hi - 1 PROVE F[i + 1] - F[i] = G[i + 1] - G[i]
  <2>1. i \in Nat /\ i + 1 \in Nat /\ BitAt(k, i) = 0
    OBVIOUS
  <2> DEFINE p == Pow2[i]
             a == BitAt(u, i)
             b == BitAt(k, i)
  <2>2. /\ p \in Nat \ {0} /\ a \in {0, 1} /\ F[i] \in Int
        /\ F[i + 1] = F[i] + p * BitOf("and", a, b)
    <3>1. p \in Nat \ {0} /\ a \in {0, 1}
      BY <2>1, PowPositive, BitType
    <3>2. F[i + 1] = F[i] + p * BitOf("and", a, b)
      BY <1>0, <2>1, LowestRecursion
    <3>3. F[i] \in Int
      BY <1>1, <2>1
    <3> QED
      BY <3>1, <3>2, <3>3
  <2>3. b = 0 /\ BitOf("and", a, b) = 0
    BY <2>1, <2>2 DEF BitOf
  <2>4. p * 0 = 0
    BY <2>2
  <2> HIDE DEF F, G
  <2> QED
    BY <1>1, <2>1, <2>2, <2>3, <2>4
<1> HIDE DEF F, G
<1>3. F[hi] - F[lo] = G[hi] - G[lo]
  BY <1>1, <1>2, SameSteps
<1>4. F[hi] \in Int /\ F[lo] \in Int /\ G[hi] = 0 /\ G[lo] = 0
  BY <1>1
<1>5. F[hi] = F[lo]
  BY <1>3, <1>4
<1> QED
  BY <1>5 DEF F

(* Xor and or by way of and.                                                  *)
LEMMA XorByAnd ==
    ASSUME NEW l \in Int, NEW r \in Int, NEW n \in Nat
    PROVE  Lowest("xor", l, r)[n] = (l % Pow2[n]) + (r % Pow2[n]) - 2 * Lowest("and", l, r)[n]
<1> DEFINE A == Lowest("and", l, r)
           X == Lowest("xor", l, r)
           L == Remainders(l)
           R == Remainders(r)
           G == [i \in Nat |-> L[i] + R[i] - 2 * A[i]]
<1>0. "and" \in Kinds /\ "xor" \in Kinds
  BY DEF Kinds
<1>1. /\ A \in [Nat -> Int] /\ X \in [Nat -> Int] /\ L \in [Nat -> Int] /\ R \in [Nat -> Int]
      /\ A[0] = 0 /\ X[0] = 0 /\ L[0] = 0 /\ R[0] = 0
  BY <1>0, LowestRecursion, RemaindersFacts
<1>2. \A i \in Nat : G[i] = L[i] + R[i] - 2 * A[i]
  OBVIOUS
<1>3. G \in [Nat -> Int]
  <2> HIDE DEF A, L, R
  <2> QED
    BY <1>1
<1> HIDE DEF G
<1>4. ASSUME NEW i \in 0 .. n - 1 PROVE X[i + 1] - X[i] = G[i + 1] - G[i]
  <2>1. i \in Nat /\ i + 1 \in Nat
    OBVIOUS
  <2> DEFINE p == Pow2[i]
             a == BitAt(l, i)
             b == BitAt(r, i)
  <2>2. p \in Nat \ {0} /\ a \in {0, 1} /\ b \in {0, 1}
    BY <1>0, <2>1, PowPositive, BitType
  <2>3. /\ X[i] \in Int /\ R[i] \in Int /\ A[i] \in Int
        /\ X[i + 1] = X[i] + p * BitOf("xor", a, b)
        /\ L[i] \in Int /\ L[i + 1] = L[i] + p * a
        /\ R[i + 1] = R[i] + p * b
        /\ A[i + 1] = A[i] + p * BitOf("and", a, b)
    <3>1. X[i + 1] = X[i] + p * BitOf("xor", a, b)
      BY <1>0, <2>1, LowestRecursion
    <3>2. R[i + 1] = R[i] + p * b
      BY <1>0, <2>1, RemaindersFacts
    <3>3. L[i + 1] = L[i] + p * a
      BY <1>0, <2>1, RemaindersFacts
    <3>4. A[i + 1] = A[i] + p * BitOf("and", a, b)
      BY <1>0, <2>1, LowestRecursion
    <3>5. X[i] \in Int /\ R[i] \in Int /\ A[i] \in Int /\ L[i] \in Int
      BY <1>1, <2>1
    <3> QED
      BY <3>1, <3>2, <3>3, <3>4, <3>5
  <2>4. BitOf("xor", a, b) = a + b - 2 * BitOf("and", a, b) /\ BitOf("and", a, b) \in {0, 1}
    BY <2>2 DEF BitOf
  <2>5. G[i + 1] = L[i + 1] + R[i + 1] - 2 * A[i + 1] /\ G[i] = L[i] + R[i] - 2 * A[i]
    BY <1>2, <2>1
  <2> DEFINE x == X[i]
             y == L[i]
             z == R[i]
             w == A[i]
             c == BitOf("and", a, b)
  <2>6. /\ x \in Int /\ y \in Int /\ z \in Int /\ w \in Int /\ c \in {0, 1}
        /\ X[i + 1] = x + p * (a + b - 2 * c)
        /\ G[i + 1] = (y + p * a) + (z + p * b) - 2 * (w + p * c) /\ G[i] = y + z - 2 * w
    BY <2>2, <2>3, <2>4, <2>5
  <2> HIDE DEF x, y, z, w, c, p, a, b
  <2>7. (x + p * (a + b - 2 * c)) - x = ((y + p * a) + (z + p * b) - 2 * (w + p * c)) - (y + z - 2 * w)
    BY <2>2, <2>6
  <2> QED
    BY <2>6, <2>7 DEF x
<1>5. X[n] - X[0] = G[n] - G[0]
  <2> DEFINE zero == 0
  <2>1. zero \in Nat /\ zero <= n /\ \A i \in zero .. n - 1 : X[i + 1] - X[i] = G[i + 1] - G[i]
    BY <1>4
  <2> HIDE DEF zero, X
  <2>2. X[n] - X[zero] = G[n] - G[zero]
    BY ZenonT(60), <1>1, <1>3, <2>1, SameSteps
  <2> QED
    BY <2>2 DEF zero
<1>6. G[0] = 0 /\ G[n] = L[n] + R[n] - 2 * A[n] /\ L[n] = l % Pow2[n] /\ R[n] = r % Pow2[n]
  <2>1. L[n] = l % Pow2[n] /\ R[n] = r % Pow2[n]
    BY DEF Remainders
  <2> HIDE DEF A, L, R
  <2>2. G[n] = L[n] + R[n] - 2 * A[n]
    BY <1>2
  <2>3. 0 \in Nat /\ G[0] = L[0] + R[0] - 2 * A[0]
    BY <1>2
  <2>4. G[0] = 0 + 0 - 2 * 0
    BY <1>1, <2>3
  <2> QED
    BY <2>1, <2>2, <2>4
<1>7. X[n] \in Int /\ G[n] \in Int
  BY <1>1, <1>3
<1> HIDE DEF X, A, L, R
<1>8. X[n] = G[n]
  BY <1>1, <1>5, <1>6, <1>7
<1> QED
  BY <1>6, <1>8 DEF X, A

(* The complement of a number.                                                *)
LEMMA BitOfComplement ==
    ASSUME NEW n \in Nat, NEW v \in 0 .. Pow2[n] - 1, NEW i \in Nat, i < n
    PROVE  BitAt(Pow2[n] - 1 - v, i) = 1 - BitAt(v, i)
<1> DEFINE p == Pow2[i]
           h == Pow2[n - i - 1]
           q == v \div p
           r == v % p
           c == Pow2[n] - 1 - v
<1>1. n - i - 1 \in Nat /\ (n - i - 1) + 1 = n - i /\ n - i \in Nat /\ i + (n - i) = n
  OBVIOUS
<1>2. p \in Nat \ {0} /\ h \in Nat \ {0} /\ Pow2[n - i] = 2 * h /\ Pow2[n] = p * Pow2[n - i]
  BY ZenonT(60), <1>1, PowPositive, PowRecursion, PowSum
<1>3. v \in Int /\ c \in Int
  BY PowRecursion
<1>4. q \in Int /\ r \in 0 .. p - 1 /\ v = p * q + r
  BY <1>2, <1>3, Division
<1> DEFINE d == 2 * h - 1 - q
           s == p - 1 - r
<1>5. c = p * d + s /\ d \in Int /\ s \in 0 .. p - 1
  <2>1. Pow2[n] = p * (2 * h)
    BY <1>2
  <2> HIDE DEF p, h, q, r
  <2> QED
    BY <1>2, <1>4, <2>1
<1> HIDE DEF d, s
<1>6. (p * d + s) \div p = d
  <2> HIDE DEF p
  <2> QED
    BY <1>2, <1>5, Quotient
<1>7. c \div p = d
  BY <1>5, <1>6
<1>8. d % 2 = 1 - (q % 2)
  <2> HIDE DEF p, q, h
  <2> QED
    BY <1>2, <1>4 DEF d
<1> QED
  BY <1>7, <1>8 DEF BitAt

(* Or computed by and: what the compiler emits for or with a known operand.   *)
LEMMA OrByAnd ==
    ASSUME NEW n \in Nat, NEW l \in Int, NEW r \in 0 .. Pow2[n] - 1
    PROVE  Lowest("or", l, r)[n] = Lowest("and", l, Pow2[n] - 1 - r)[n] + r
<1> DEFINE c == Pow2[n] - 1 - r
           A == Lowest("and", l, c)
           X == Lowest("or", l, r)
           R == Remainders(r)
           G == [i \in Nat |-> A[i] + R[i]]
<1>0. "and" \in Kinds /\ "or" \in Kinds /\ r \in Int
  BY DEF Kinds
<1>1. r \in Int /\ c \in Int
  BY PowRecursion
<1>2. /\ A \in [Nat -> Int] /\ X \in [Nat -> Int] /\ R \in [Nat -> Int]
      /\ A[0] = 0 /\ X[0] = 0 /\ R[0] = 0
  <2> HIDE DEF c
  <2>1. A \in [Nat -> Int] /\ A[0] = 0
    BY <1>0, <1>1, LowestRecursion
  <2>2. X \in [Nat -> Int] /\ X[0] = 0
    BY <1>0, LowestRecursion
  <2>3. R \in [Nat -> Int] /\ R[0] = 0
    BY <1>0, RemaindersFacts
  <2> QED
    BY <2>1, <2>2, <2>3
<1>3. \A i \in Nat : G[i] = A[i] + R[i]
  OBVIOUS
<1>4. G \in [Nat -> Int]
  <2> HIDE DEF A, R
  <2> QED
    BY <1>2
<1> HIDE DEF G
<1>5. ASSUME NEW i \in 0 .. n - 1 PROVE X[i + 1] - X[i] = G[i + 1] - G[i]
  <2>1. i \in Nat /\ i + 1 \in Nat /\ i < n
    OBVIOUS
  <2> DEFINE p == Pow2[i]
             a == BitAt(l, i)
             b == BitAt(r, i)
  <2>2. p \in Nat \ {0} /\ a \in {0, 1} /\ b \in {0, 1}
    BY <1>0, <2>1, PowPositive, BitType
  <2>3. /\ X[i] \in Int /\ R[i] \in Int /\ A[i] \in Int
        /\ X[i + 1] = X[i] + p * BitOf("or", a, b)
        /\ R[i + 1] = R[i] + p * b
        /\ A[i + 1] = A[i] + p * BitOf("and", a, 1 - b)
    <3>1. X[i + 1] = X[i] + p * BitOf("or", a, b)
      BY <1>0, <2>1, LowestRecursion
    <3>2. R[i + 1] = R[i] + p * b
      BY <1>0, <2>1, RemaindersFacts
    <3>3. BitAt(c, i) = 1 - b
      BY <2>1, BitOfComplement
    <3>4. A[i + 1] = A[i] + p * BitOf("and", a, BitAt(c, i))
      <4> HIDE DEF c
      <4> QED
        BY <1>0, <1>1, <2>1, LowestRecursion
    <3>5. X[i] \in Int /\ R[i] \in Int /\ A[i] \in Int
      BY <1>2, <2>1
    <3> QED
      BY <3>1, <3>2, <3>3, <3>4, <3>5
  <2>5. BitOf("or", a, b) = BitOf("and", a, 1 - b) + b /\ BitOf("and", a, 1 - b) \in {0, 1}
    BY <2>2 DEF BitOf
  <2>6. G[i + 1] = A[i + 1] + R[i + 1] /\ G[i] = A[i] + R[i]
    BY <1>3, <2>1
  <2> DEFINE x == X[i]
             z == R[i]
             w == A[i]
             d == BitOf("and", a, 1 - b)
  <2>7. /\ x \in Int /\ z \in Int /\ w \in Int /\ d \in {0, 1}
        /\ X[i + 1] = x + p * (d + b)
        /\ G[i + 1] = (w + p * d) + (z + p * b) /\ G[i] = w + z
    BY <2>2, <2>3, <2>5, <2>6
  <2> HIDE DEF x, z, w, d, p, a, b
  <2>8. (x + p * (d + b)) - x = ((w + p * d) + (z + p * b)) - (w + z)
    BY <2>2, <2>7
  <2> QED
    BY <2>7, <2>8 DEF x
<1>6. X[n] - X[0] = G[n] - G[0]
  <2> DEFINE zero == 0
  <2>1. zero \in Nat /\ zero <= n /\ \A i \in zero .. n - 1 : X[i + 1] - X[i] = G[i + 1] - G[i]
    BY <1>5
  <2> HIDE DEF zero, X
  <2>2. X[n] - X[zero] = G[n] - G[zero]
    BY <1>2, <1>4, <2>1, SameSteps
  <2> QED
    BY <2>2 DEF zero
<1>7. R[n] = r
  <2>1. Pow2[n] \in Nat \ {0}
    BY PowPositive
  <2>2. r % Pow2[n] = r
    BY <2>1, Small
  <2> QED
    BY <2>2 DEF Remainders
<1>8. G[0] = 0 /\ G[n] = A[n] + r
  <2> HIDE DEF A, R
  <2> QED
    BY <1>2, <1>3, <1>7
<1>9. X[n] \in Int /\ G[n] \in Int
  BY <1>2, <1>4
<1> HIDE DEF X, A
<1>10. X[n] = G[n]
  BY <1>2, <1>6, <1>8, <1>9
<1> QED
  BY <1>8, <1>10 DEF X, A

-----------------------------------------------------------------------------
(* Tables and masks.                                                         *)

LEMMA MinOfTwo ==
    ASSUME NEW a \in Int, NEW b \in Int
    PROVE  Min({a, b}) = IF a <= b THEN a ELSE b
<1> DEFINE m == IF a <= b THEN a ELSE b
<1>1. m \in {a, b} /\ (\A y \in {a, b} : m <= y)
  OBVIOUS
<1>2. \A x \in {a, b} : (\A y \in {a, b} : x <= y) => x = m
  OBVIOUS
<1> HIDE DEF m
<1>3. Min({a, b}) = m
  BY <1>1, <1>2 DEF Min
<1> QED
  BY <1>3 DEF m

(* A field of a number is some of its bits.                                   *)
LEMMA ExtractIsField ==
    ASSUME NEW width \in Nat, NEW v \in 0 .. Pow2[width] - 1, NEW start \in Nat, NEW bits \in Nat,
           start + bits <= width
    PROVE  /\ Extract(v, width, start, bits, FALSE) = (v \div Pow2[width - (start + bits)]) % Pow2[bits]
           /\ Extract(v, width, start, bits, TRUE)
                = ((v \div Pow2[width - (start + bits)]) % Pow2[bits]) * Pow2[width - (start + bits)]
<1> DEFINE lo == width - (start + bits)
           p == Pow2[lo]
           q == Pow2[bits]
           low == v \div p
<1>1. lo \in Nat /\ (start = 0 => lo + bits = width)
  OBVIOUS
<1>2. p \in Nat \ {0} /\ q \in Nat \ {0} /\ (start = 0 => Pow2[width] = p * q)
  BY <1>1, PowPositive, PowSum
<1>3. start = 0 => low % q = low
  <2> SUFFICES ASSUME start = 0 PROVE low % q = low
    OBVIOUS
  <2>1. v \in 0 .. p * q - 1
    BY <1>2
  <2> HIDE DEF p, q
  <2>2. low \in 0 .. q - 1
    BY <1>2, <2>1, QuotientRange
  <2> HIDE DEF low
  <2> QED
    BY <1>2, <2>2, Small
<1> QED
  BY <1>3 DEF Extract

(* A group of bits taken out of a number is a number of as many bits.         *)
LEMMA ExtractRange ==
    ASSUME NEW width \in Nat, NEW v \in 0 .. Pow2[width] - 1, NEW start \in Nat, NEW bits \in Nat,
           start + bits <= width
    PROVE  Extract(v, width, start, bits, FALSE) \in 0 .. Pow2[bits] - 1
<1> DEFINE p == Pow2[width - (start + bits)]
           q == Pow2[bits]
           x == v \div p
<1>1. p \in Nat \ {0} /\ q \in Nat \ {0} /\ v \in Int
  <2>1. width - (start + bits) \in Nat
    OBVIOUS
  <2>2. Pow2[width] \in Nat
    BY PowPositive
  <2> QED
    BY <2>1, <2>2, PowPositive
<1>2. x \in Int
  BY <1>1, Division
<1> HIDE DEF x
<1>3. x % q \in 0 .. q - 1
  BY <1>1, <1>2, Division
<1> QED
  BY <1>3, ExtractIsField DEF x

(* The bits of a group are those of the number it is taken out of.            *)
LEMMA BitOfExtract ==
    ASSUME NEW width \in Nat, NEW v \in 0 .. Pow2[width] - 1, NEW start \in Nat, NEW bits \in Nat,
           start + bits <= width, NEW i \in 0 .. bits - 1
    PROVE  BitAt(Extract(v, width, start, bits, FALSE), i) = BitAt(v, width - (start + bits) + i)
<1> DEFINE lo == width - (start + bits)
           p == Pow2[lo]
           x == v \div p
<1>1. lo \in Nat /\ i \in Nat /\ i < bits /\ v \in Int
  BY PowRecursion
<1>2. p \in Nat \ {0}
  BY <1>1, PowPositive
<1>3. x \in Int
  BY <1>1, <1>2, Division
<1>4. BitAt(x % Pow2[bits], i) = BitAt(x, i)
  <2> HIDE DEF x
  <2> QED
    BY <1>1, <1>3, BitOfRemainder
<1>5. BitAt(x, i) = BitAt(v, lo + i)
  <2> HIDE DEF lo
  <2> QED
    BY <1>1, BitOfQuotient
<1>6. Extract(v, width, start, bits, FALSE) = x % Pow2[bits]
  BY ExtractIsField
<1> QED
  BY <1>4, <1>5, <1>6

(* In place, a field is worth the difference of two remainders.               *)
LEMMA ExtractInPlace ==
    ASSUME NEW width \in Nat, NEW v \in 0 .. Pow2[width] - 1, NEW start \in Nat, NEW bits \in Nat,
           start + bits <= width
    PROVE  Extract(v, width, start, bits, TRUE)
             = (v % Pow2[width - start]) - (v % Pow2[width - (start + bits)])
<1> DEFINE lo == width - (start + bits)
           p == Pow2[lo]
           q == Pow2[bits]
           f == (v \div p) % q
           r == v % p
<1>1. lo \in Nat /\ lo + bits = width - start /\ v \in Int
  BY PowRecursion
<1>2. p \in Nat \ {0} /\ q \in Nat \ {0} /\ Pow2[width - start] = p * q
  BY <1>1, PowPositive, PowSum
<1>3. v % (p * q) = p * f + r
  <2> HIDE DEF p, q
  <2> QED
    BY <1>1, <1>2, RemainderByProduct
<1>4. r \in Int /\ f \in Int
  <2> DEFINE x == v \div p
  <2>1. r \in Int /\ x \in Int
    <3> HIDE DEF p
    <3> QED
      BY <1>1, <1>2, Division
  <2> HIDE DEF x, q
  <2>2. x % q \in Int
    BY <1>2, <2>1, Division
  <2> QED
    BY <2>1, <2>2 DEF x
<1>5. Extract(v, width, start, bits, TRUE) = f * p
  BY ExtractIsField
<1> HIDE DEF f, r
<1>6. f * p = (p * f + r) - r
  <2> HIDE DEF p
  <2> QED
    BY <1>2, <1>4
<1> QED
  BY <1>2, <1>3, <1>5, <1>6 DEF r

(* An item of a table is the operation on LookupBits bits, zero included.     *)
LEMMA TableItemIsLowest ==
    ASSUME NEW kind \in Kinds, NEW a \in 0 .. Pow2[LookupBits] - 1, NEW b \in 0 .. Pow2[LookupBits] - 1
    PROVE  TableItem(kind, a * Pow2[LookupBits] + b) = Lowest(kind, a, b)[LookupBits]
<1> DEFINE n == Pow2[LookupBits]
           index == a * n + b
<1>1. LookupBits \in Nat /\ n \in Nat \ {0} /\ a \in Int /\ b \in 0 .. n - 1 /\ b \in Int /\ a \in 0 .. n - 1
  BY LookupAssumption, PowPositive
<1>2. index \div n = a /\ index % n = b
  <2> HIDE DEF n
  <2>1. (n * a + b) \div n = a /\ (n * a + b) % n = b
    BY <1>1, Quotient
  <2>2. index = n * a + b
    BY <1>1
  <2> QED
    BY <2>1, <2>2
<1>3. CASE index = 0
  <2>1. a = 0 /\ b = 0
    <3>1. a * n >= a /\ a >= 0 /\ b >= 0
      <4> HIDE DEF n
      <4> QED
        BY <1>1
    <3> HIDE DEF n
    <3> QED
      BY <1>1, <1>3, <3>1
  <2>2. 0 \in 0 .. Pow2[0] - 1
    BY PowRecursion
  <2>3. Lowest(kind, 0, 0)[LookupBits] = Lowest(kind, 0, 0)[0]
    BY <1>1, <2>2, LowestOfSmall
  <2>4. Lowest(kind, 0, 0)[0] = 0
    BY LowestRecursion
  <2>5. TableItem(kind, index) = 0
    BY <1>3 DEF TableItem
  <2> QED
    BY <2>1, <2>3, <2>4, <2>5
<1>4. CASE index # 0
  <2>1. TableItem(kind, index) = Bit(kind, index \div n, index % n, LookupBits)
    BY <1>4 DEF TableItem
  <2> HIDE DEF index
  <2>2. TableItem(kind, index) = Bit(kind, a, b, LookupBits)
    BY <1>2, <2>1
  <2> QED
    BY <2>2, BitIsLowest DEF index
<1> QED
  BY <1>3, <1>4

(* What is looked up at once is the operation on the bits of the two fields.  *)
LEMMA LookupPartFacts ==
    ASSUME NEW kind \in Kinds, NEW width \in Nat, NEW l \in 0 .. Pow2[width] - 1, NEW r \in 0 .. Pow2[width] - 1,
           NEW start \in 0 .. width - 1
    PROVE  \E bits \in 1 .. LookupBits :
               /\ start + bits <= width
               /\ bits = Min({LookupBits, width - start})
               /\ bits = LookupBits \/ start + bits = width
               /\ LookupPart(kind, l, r, width, start)
                    = Lowest(kind, l, r)[width - start] - Lowest(kind, l, r)[width - (start + bits)]
<1> DEFINE bits == Min({LookupBits, width - start})
           lo == width - (start + bits)
           a == Extract(l, width, start, bits, FALSE)
           b == Extract(r, width, start, bits, FALSE)
           F == Lowest(kind, l, r)
           H == Lowest(kind, a, b)
<1>1. LookupBits \in Nat \ {0} /\ start \in Nat /\ width - start \in Nat \ {0} /\ l \in Int /\ r \in Int
  BY LookupAssumption, PowRecursion
<1>2. bits = IF LookupBits <= width - start THEN LookupBits ELSE width - start
  BY <1>1, MinOfTwo
<1>3. /\ bits \in 1 .. LookupBits /\ bits \in Nat /\ start + bits <= width /\ lo \in Nat
      /\ bits = LookupBits \/ start + bits = width
      /\ lo + bits = width - start
  <2> HIDE DEF bits
  <2> QED
    BY <1>1, <1>2
<1>4. a \in 0 .. Pow2[bits] - 1 /\ b \in 0 .. Pow2[bits] - 1
  <2> HIDE DEF bits
  <2> QED
    BY <1>1, <1>3, ExtractRange
<1>5. Pow2[bits] \in Nat /\ Pow2[LookupBits] \in Nat /\ Pow2[bits] <= Pow2[LookupBits]
  <2> HIDE DEF bits
  <2> QED
    BY <1>1, <1>3, PowPositive, PowMonotone
<1>6. a \in 0 .. Pow2[LookupBits] - 1 /\ b \in 0 .. Pow2[LookupBits] - 1 /\ a \in Int /\ b \in Int
  <2> HIDE DEF a, b, bits
  <2> QED
    BY <1>4, <1>5
<1>7. TableItem(kind, a * Pow2[LookupBits] + b) = H[LookupBits]
  <2> HIDE DEF a, b
  <2> QED
    BY <1>6, TableItemIsLowest
<1>8. H[LookupBits] = H[bits]
  <2> HIDE DEF a, b, bits
  <2> QED
    BY <1>1, <1>3, <1>4, LowestOfSmall
<1>9. ASSUME NEW i \in 0 .. bits - 1 PROVE BitAt(a, i) = BitAt(l, lo + i) /\ BitAt(b, i) = BitAt(r, lo + i)
  <2> HIDE DEF bits
  <2>0. start \in Nat /\ bits \in Nat /\ start + bits <= width
    BY <1>1, <1>3
  <2>1. BitAt(a, i) = BitAt(l, width - (start + bits) + i)
    BY <2>0, BitOfExtract
  <2>2. BitAt(b, i) = BitAt(r, width - (start + bits) + i)
    BY <2>0, BitOfExtract
  <2> QED
    BY <2>1, <2>2
<1>10. F[lo + bits] = F[lo] + Pow2[lo] * H[bits]
  <2> HIDE DEF a, b, lo, bits
  <2>1. lo \in Nat /\ bits \in Nat /\ l \in Int /\ r \in Int /\ a \in Int /\ b \in Int
    BY <1>1, <1>3, <1>6
  <2>2. \A i \in 0 .. bits - 1 : BitAt(a, i) = BitAt(l, lo + i) /\ BitAt(b, i) = BitAt(r, lo + i)
    BY <1>9
  <2> QED
    BY <2>1, <2>2, LowestShifted
<1>11. LookupPart(kind, l, r, width, start) = TableItem(kind, a * Pow2[LookupBits] + b) * Pow2[lo]
  BY DEF LookupPart
<1>12. LookupPart(kind, l, r, width, start) = F[width - start] - F[lo]
  <2> DEFINE x == F[lo]
             h == H[bits]
             p == Pow2[lo]
  <2>1. x \in Int /\ h \in Int /\ p \in Int
    <3>1. H \in [Nat -> Nat]
      <4> HIDE DEF a, b
      <4> QED
        BY <1>6, LowestRecursion
    <3>2. F \in [Nat -> Nat]
      BY <1>1, LowestRecursion
    <3>3. lo \in Nat /\ bits \in Nat
      <4> HIDE DEF lo, bits
      <4> QED
        BY <1>3
    <3> HIDE DEF F, H, lo, bits, a, b
    <3>4. x \in Nat
      BY <3>2, <3>3
    <3>5. h \in Nat
      BY <3>1, <3>3
    <3>6. p \in Nat
      BY <3>3, PowRecursion
    <3> HIDE DEF x, h, p
    <3> QED
      BY <3>4, <3>5, <3>6
  <2>2. F[width - start] = x + p * h
    BY <1>3, <1>10
  <2>3. LookupPart(kind, l, r, width, start) = h * p
    BY <1>7, <1>8, <1>11
  <2> HIDE DEF x, h, p
  <2>4. h * p = (x + p * h) - x
    BY <2>1
  <2> QED
    BY <2>2, <2>3, <2>4 DEF x
<1> HIDE DEF bits, F
<1> QED
  BY <1>3, <1>12 DEF bits, F

(* A group of one bit is that bit.                                            *)
LEMMA ExtractOne ==
    ASSUME NEW width \in Nat, NEW v \in 0 .. Pow2[width] - 1, NEW i \in 0 .. width - 1
    PROVE  Extract(v, width, i, 1, FALSE) = BitAt(v, width - i - 1)
<1> DEFINE one == 1
<1>1. i \in Nat /\ one \in Nat /\ i + one <= width /\ width - (i + one) = width - i - 1
  OBVIOUS
<1>2. Pow2[one] = 2
  <2>1. 0 + 1 = 1 /\ Pow2[0 + 1] = 2 * Pow2[0] /\ Pow2[0] = 1
    BY PowRecursion
  <2> QED
    BY <2>1
<1>3. Extract(v, width, i, one, FALSE) = (v \div Pow2[width - (i + one)]) % Pow2[one]
  <2> HIDE DEF one
  <2> QED
    BY <1>1, ExtractIsField
<1> QED
  BY <1>1, <1>2, <1>3 DEF BitAt

(* Two sequences agree everywhere if they agree from width on, and at each    *)
(* place below it if they agree above.                                        *)
AgreeDownward(width, top, f, g) ==
    /\ \A s \in width .. top : f[s] = g[s]
    /\ \A s \in 0 .. width - 1 : (\A t \in s + 1 .. top : f[t] = g[t]) => f[s] = g[s]

Agree(top, f, g) == \A s \in 0 .. top : f[s] = g[s]

(* What agrees from each position to the next lower one agrees everywhere.    *)
LEMMA Downward ==
    ASSUME NEW width \in Nat, NEW top \in Nat, NEW f, NEW g, AgreeDownward(width, top, f, g)
    PROVE  Agree(top, f, g)
<1> SUFFICES \A s \in 0 .. top : f[s] = g[s]
  BY DEF Agree
<1> USE DEF AgreeDownward
<1> DEFINE T == {k \in Nat : \A s \in 0 .. top : width - s <= k => f[s] = g[s]}
<1>1. 0 \in T
  OBVIOUS
<1>2. ASSUME NEW k \in Nat, k \in T PROVE k + 1 \in T
  <2> SUFFICES ASSUME NEW s \in 0 .. top, width - s <= k + 1 PROVE f[s] = g[s]
    OBVIOUS
  <2>1. CASE s >= width
    BY <2>1
  <2>2. CASE s < width
    <3>1. \A t \in s + 1 .. top : f[t] = g[t]
      <4> TAKE t \in s + 1 .. top
      <4>1. t \in 0 .. top /\ width - t <= k
        OBVIOUS
      <4> QED
        BY <1>2, <4>1
    <3>2. s \in 0 .. width - 1
      BY <2>2
    <3> QED
      BY <3>1, <3>2
  <2> QED
    BY <2>1, <2>2
<1> HIDE DEF T
<1>3. \A k \in Nat : k \in T
  BY <1>1, <1>2, Induction
<1> TAKE s \in 0 .. top
<1>4. width \in T /\ width - s <= width
  BY <1>3
<1> QED
  BY <1>4 DEF T

\* The sums of LookupAll and of LookupKnown, as their recursion says.
LookupSums(kind, l, r, width) ==
    CHOOSE f : f = [start \in 0 .. width + LookupBits |->
                       IF start >= width THEN 0
                       ELSE LookupPart(kind, l, r, width, start) + f[start + LookupBits]]

(* Looked up in groups, the bits are those of the whole operation.            *)
LEMMA LookupAllIsLowest ==
    ASSUME NEW kind \in Kinds, NEW width \in Nat, NEW l \in 0 .. Pow2[width] - 1, NEW r \in 0 .. Pow2[width] - 1
    PROVE  LookupAll(kind, l, r, width) = Lowest(kind, l, r)[width]
<1> DEFINE F == Lowest(kind, l, r)
           top == width + LookupBits
           D == 0 .. top
           g == [start \in D |-> IF start >= width THEN 0 ELSE F[width - start]]
           part(start) == LookupPart(kind, l, r, width, start)
<1>1. LookupBits \in Nat \ {0} /\ top \in Nat /\ l \in Int /\ r \in Int
  BY LookupAssumption, PowRecursion
<1>2. F \in [Nat -> Nat] /\ F[0] = 0
  BY <1>1, LowestRecursion
<1>3. ASSUME NEW start \in 0 .. width - 1
      PROVE  part(start) + g[start + LookupBits] = F[width - start] /\ start + LookupBits \in D
  <2>1. PICK bits \in 1 .. LookupBits :
            /\ start + bits <= width
            /\ bits = Min({LookupBits, width - start})
            /\ bits = LookupBits \/ start + bits = width
            /\ part(start) = F[width - start] - F[width - (start + bits)]
    <3> HIDE DEF g, D, top
    <3> QED
      BY LookupPartFacts
  <2>2. start + LookupBits \in D /\ width - start \in Nat /\ width - (start + bits) \in Nat
    BY <1>1, <2>1
  <2>3. g[start + LookupBits] = F[width - (start + bits)]
    <3>1. CASE start + bits = width
      <4>1. start + LookupBits >= width /\ width - (start + bits) = 0
        BY <1>1, <2>1, <3>1
      <4> HIDE DEF F, D
      <4> QED
        BY <1>2, <2>2, <4>1
    <3>2. CASE start + bits # width
      <4>1. bits = LookupBits /\ ~(start + LookupBits >= width)
        BY <1>1, <2>1, <3>2
      <4> HIDE DEF F, D
      <4> QED
        BY <2>2, <4>1
    <3> QED
      BY <3>1, <3>2
  <2> DEFINE x == F[width - start]
             y == F[width - (start + bits)]
  <2>4. x \in Int /\ y \in Int
    <3> HIDE DEF F
    <3> QED
      BY <1>2, <2>2
  <2>5. (x - y) + y = x
    <3> HIDE DEF x, y
    <3> QED
      BY <2>4
  <2> QED
    BY <2>1, <2>2, <2>3, <2>5
<1>4. g = [start \in D |-> IF start >= width THEN 0 ELSE part(start) + g[start + LookupBits]]
  <2>1. ASSUME NEW start \in D PROVE g[start] = IF start >= width THEN 0 ELSE part(start) + g[start + LookupBits]
    <3>1. CASE start >= width
      BY <3>1
    <3>2. CASE ~(start >= width)
      <4>1. start \in 0 .. width - 1
        BY <3>2
      <4>2. g[start] = F[width - start]
        BY <3>2
      <4> HIDE DEF g, part, F
      <4> QED
        BY <1>3, <3>2, <4>1, <4>2
    <3> QED
      BY <3>1, <3>2
  <2>2. DOMAIN g = D /\ g = [start \in DOMAIN g |-> g[start]]
    OBVIOUS
  <2> HIDE DEF g, part, D, F
  <2> QED
    BY <2>1, <2>2
<1> DEFINE f == LookupSums(kind, l, r, width)
<1>5. f = [start \in D |-> IF start >= width THEN 0 ELSE part(start) + f[start + LookupBits]]
  <2> HIDE DEF g
  <2> QED
    BY <1>4 DEF LookupSums
<1> HIDE DEF f
<1>6. \A s \in width .. top : f[s] = g[s]
  <2> TAKE s \in width .. top
  <2>1. s \in D /\ s >= width
    OBVIOUS
  <2>2. f[s] = 0
    <3> HIDE DEF part
    <3> QED
      BY <1>5, <2>1
  <2>3. g[s] = 0
    BY <2>1
  <2> QED
    BY <2>2, <2>3
<1>7. ASSUME NEW s \in 0 .. width - 1, \A t \in s + 1 .. top : f[t] = g[t]
      PROVE  f[s] = g[s]
  <2>1. s \in D /\ ~(s >= width)
    BY <1>1
  <2>2. s + LookupBits \in s + 1 .. top
    BY <1>1
  <2>3. f[s] = part(s) + f[s + LookupBits]
    <3> HIDE DEF part
    <3> QED
      BY <1>5, <2>1
  <2>4. g[s] = F[width - s]
    <3> HIDE DEF F
    <3> QED
      BY <2>1
  <2> HIDE DEF part, g, F
  <2> QED
    BY <1>3, <1>7, <2>2, <2>3, <2>4
<1>8. \A s \in 0 .. top : f[s] = g[s]
  <2> HIDE DEF g, top
  <2>1. \A s \in 0 .. width - 1 : (\A t \in s + 1 .. top : f[t] = g[t]) => f[s] = g[s]
    BY <1>7
  <2>2. top \in Nat
    BY <1>1
  <2>3. AgreeDownward(width, top, f, g)
    BY <1>6, <2>1 DEF AgreeDownward
  <2>4. Agree(top, f, g)
    BY <2>2, <2>3, Downward
  <2> QED
    BY <2>4 DEF Agree
<1>9. g[0] = F[width]
  <2>1. 0 \in D /\ width - 0 = width
    BY <1>1
  <2>2. CASE width = 0
    BY <1>2, <2>1, <2>2
  <2>3. CASE width # 0
    BY <2>1, <2>3
  <2> QED
    BY <2>2, <2>3
<1>10. f[0] = F[width]
  <2>1. 0 \in 0 .. top
    BY <1>1
  <2> HIDE DEF g, F, top
  <2> QED
    BY <1>8, <1>9, <2>1
<1> QED
  BY <1>10 DEF LookupAll, LookupSums, f

\* A bit of the constant that decides by itself.
Skips(kind, known, width, i) ==
    kind # "xor" /\ Extract(known, width, i, 1, FALSE) = (IF kind = "and" THEN 0 ELSE 1)

KnownSums(kind, unknown, known, width) ==
    CHOOSE f : f = [i \in 0 .. width + LookupBits |->
                       IF i >= width THEN 0
                       ELSE IF Skips(kind, known, width, i)
                            THEN (IF kind = "or" THEN Pow2[width - i - 1] ELSE 0) + f[i + 1]
                       ELSE LookupPart(kind, unknown, known, width, i) + f[i + LookupBits]]

(* Where the constant decides, the table is not needed.                       *)
LEMMA SkippedBit ==
    ASSUME NEW kind \in Kinds, NEW width \in Nat, NEW l \in 0 .. Pow2[width] - 1, NEW r \in 0 .. Pow2[width] - 1,
           NEW i \in 0 .. width - 1, Skips(kind, r, width, i)
    PROVE  (IF kind = "or" THEN Pow2[width - i - 1] ELSE 0) + Lowest(kind, l, r)[width - (i + 1)]
              = Lowest(kind, l, r)[width - i]
<1> DEFINE F == Lowest(kind, l, r)
           n == width - i - 1
           a == BitAt(l, n)
           b == BitAt(r, n)
           p == Pow2[n]
           x == F[n]
<1>1. n \in Nat /\ n + 1 = width - i /\ width - (i + 1) = n /\ l \in Int /\ r \in Int
  BY PowRecursion
<1>2. F[n + 1] = x + p * BitOf(kind, a, b)
  <2> HIDE DEF n
  <2> QED
    BY <1>1, LowestRecursion
<1>3. a \in {0, 1} /\ b \in {0, 1} /\ x \in Int /\ p \in Int
  <2> HIDE DEF n
  <2>1. a \in {0, 1} /\ b \in {0, 1}
    BY <1>1, BitType
  <2>2. x \in Int /\ p \in Int
    BY <1>1, LowestRecursion, PowRecursion
  <2> QED
    BY <2>1, <2>2
<1>4. b = Extract(r, width, i, 1, FALSE)
  BY ExtractOne
<1>5. CASE kind = "and"
  <2>1. b = 0 /\ BitOf(kind, a, b) = a * 0
    BY <1>4, <1>5 DEF Skips, BitOf
  <2>2. F[n + 1] = x + p * (a * 0)
    BY <1>2, <2>1
  <2>3. x + p * (a * 0) = 0 + x
    <3> HIDE DEF x, p, a
    <3> QED
      BY <1>3
  <2> QED
    BY <1>1, <1>5, <2>2, <2>3
<1>6. CASE kind = "or"
  <2>1. b = 1
    BY <1>4, <1>6 DEF Skips
  <2>2. BitOf(kind, a, b) = 1
    <3> HIDE DEF a, b
    <3> QED
      BY <1>3, <1>6, <2>1 DEF BitOf
  <2>3. F[n + 1] = x + p * 1
    BY <1>2, <2>2
  <2>4. x + p * 1 = p + x
    <3> HIDE DEF x, p
    <3> QED
      BY <1>3
  <2> QED
    BY <1>1, <1>6, <2>3, <2>4
<1> QED
  BY <1>5, <1>6 DEF Kinds, Skips

(* Tables looked up for every group of bits compute and, or and xor.          *)
LEMMA LookupKnownIsLowest ==
    ASSUME NEW kind \in Kinds, NEW width \in Nat, NEW l \in 0 .. Pow2[width] - 1, NEW r \in 0 .. Pow2[width] - 1
    PROVE  LookupKnown(kind, l, r, width) = Lowest(kind, l, r)[width]
<1> DEFINE F == Lowest(kind, l, r)
           top == width + LookupBits
           D == 0 .. top
           g == [start \in D |-> IF start >= width THEN 0 ELSE F[width - start]]
           part(start) == LookupPart(kind, l, r, width, start)
           one(start) == IF kind = "or" THEN Pow2[width - start - 1] ELSE 0
           skips(start) == Skips(kind, r, width, start)
<1>1. LookupBits \in Nat \ {0} /\ top \in Nat /\ l \in Int /\ r \in Int
  BY LookupAssumption, PowRecursion
<1>2. F \in [Nat -> Nat] /\ F[0] = 0
  BY <1>1, LowestRecursion
<1>3. ASSUME NEW start \in 0 .. width - 1
      PROVE  part(start) + g[start + LookupBits] = F[width - start] /\ start + LookupBits \in D
  <2>1. PICK bits \in 1 .. LookupBits :
            /\ start + bits <= width
            /\ bits = Min({LookupBits, width - start})
            /\ bits = LookupBits \/ start + bits = width
            /\ part(start) = F[width - start] - F[width - (start + bits)]
    <3> HIDE DEF g, D, top, one, skips
    <3> QED
      BY LookupPartFacts
  <2>2. start + LookupBits \in D /\ width - start \in Nat /\ width - (start + bits) \in Nat
    BY <1>1, <2>1
  <2>3. g[start + LookupBits] = F[width - (start + bits)]
    <3>1. CASE start + bits = width
      <4>1. start + LookupBits >= width /\ width - (start + bits) = 0
        BY <1>1, <2>1, <3>1
      <4> HIDE DEF F, D
      <4> QED
        BY <1>2, <2>2, <4>1
    <3>2. CASE start + bits # width
      <4>1. bits = LookupBits /\ ~(start + LookupBits >= width)
        BY <1>1, <2>1, <3>2
      <4> HIDE DEF F, D
      <4> QED
        BY <2>2, <4>1
    <3> QED
      BY <3>1, <3>2
  <2> DEFINE x == F[width - start]
             y == F[width - (start + bits)]
  <2>4. x \in Int /\ y \in Int
    <3> HIDE DEF F
    <3> QED
      BY <1>2, <2>2
  <2>5. (x - y) + y = x
    <3> HIDE DEF x, y
    <3> QED
      BY <2>4
  <2> QED
    BY <2>1, <2>2, <2>3, <2>5
<1>4. ASSUME NEW start \in 0 .. width - 1, skips(start)
      PROVE  one(start) + g[start + 1] = F[width - start] /\ start + 1 \in D
  <2>1. one(start) + F[width - (start + 1)] = F[width - start]
    <3> HIDE DEF g, D, top, part
    <3> QED
      BY <1>4, SkippedBit
  <2>2. start + 1 \in D
    BY <1>1
  <2>3. g[start + 1] = F[width - (start + 1)]
    <3>1. CASE start + 1 >= width
      <4>1. width - (start + 1) = 0
        BY <3>1
      <4> HIDE DEF F, D
      <4> QED
        BY <1>2, <2>2, <3>1, <4>1
    <3>2. CASE ~(start + 1 >= width)
      <4> HIDE DEF F, D
      <4> QED
        BY <2>2, <3>2
    <3> QED
      BY <3>1, <3>2
  <2> QED
    BY <2>1, <2>2, <2>3
<1> DEFINE body(h, i) == IF i >= width THEN 0 ELSE IF skips(i) THEN one(i) + h[i + 1] ELSE part(i) + h[i + LookupBits]
<1>5. g = [start \in D |-> body(g, start)]
  <2>1. ASSUME NEW start \in D PROVE g[start] = body(g, start)
    <3>1. CASE start >= width
      BY <3>1
    <3>2. CASE ~(start >= width)
      <4>1. start \in 0 .. width - 1
        BY <3>2
      <4>2. g[start] = F[width - start]
        BY <3>2
      <4> HIDE DEF g, part, F, one, skips
      <4> QED
        BY <1>3, <1>4, <3>2, <4>1, <4>2
    <3> QED
      BY <3>1, <3>2
  <2>2. DOMAIN g = D /\ g = [start \in DOMAIN g |-> g[start]]
    OBVIOUS
  <2> HIDE DEF g, body, D, F
  <2> QED
    BY <2>1, <2>2
<1> DEFINE f == KnownSums(kind, l, r, width)
<1>6. f = [start \in D |-> body(f, start)]
  <2> HIDE DEF g
  <2> QED
    BY <1>5 DEF KnownSums
<1> HIDE DEF f
<1>7. \A s \in width .. top : f[s] = g[s]
  <2> TAKE s \in width .. top
  <2>1. s \in D /\ s >= width
    OBVIOUS
  <2>2. f[s] = 0
    <3> HIDE DEF part, one, skips
    <3> QED
      BY <1>6, <2>1
  <2>3. g[s] = 0
    BY <2>1
  <2> QED
    BY <2>2, <2>3
<1>8. ASSUME NEW s \in 0 .. width - 1, \A t \in s + 1 .. top : f[t] = g[t]
      PROVE  f[s] = g[s]
  <2>1. s \in D /\ ~(s >= width)
    BY <1>1
  <2>2. s + LookupBits \in s + 1 .. top /\ s + 1 \in s + 1 .. top
    BY <1>1
  <2>3. f[s] = body(f, s)
    <3> HIDE DEF body
    <3> QED
      BY <1>6, <2>1
  <2>4. g[s] = body(g, s)
    <3> HIDE DEF body, g
    <3> QED
      BY <1>5, <2>1
  <2> HIDE DEF part, g, F, one, skips
  <2> QED
    BY <1>8, <2>2, <2>3, <2>4
<1>9. \A s \in 0 .. top : f[s] = g[s]
  <2> HIDE DEF g, top
  <2>1. \A s \in 0 .. width - 1 : (\A t \in s + 1 .. top : f[t] = g[t]) => f[s] = g[s]
    BY <1>8
  <2>2. top \in Nat
    BY <1>1
  <2>3. AgreeDownward(width, top, f, g)
    BY <1>7, <2>1 DEF AgreeDownward
  <2>4. Agree(top, f, g)
    BY <2>2, <2>3, Downward
  <2> QED
    BY <2>4 DEF Agree
<1>10. g[0] = F[width]
  <2>1. 0 \in D /\ width - 0 = width
    BY <1>1
  <2>2. CASE width = 0
    BY <1>2, <2>1, <2>2
  <2>3. CASE width # 0
    BY <2>1, <2>3
  <2> QED
    BY <2>2, <2>3
<1>11. f[0] = F[width]
  <2>1. 0 \in 0 .. top
    BY <1>1
  <2> HIDE DEF g, F, top
  <2> QED
    BY <1>9, <1>10, <2>1
<1>12. LookupKnown(kind, l, r, width) = KnownSums(kind, l, r, width)[0]
  BY DEF LookupKnown, KnownSums, Skips
<1> QED
  BY <1>11, <1>12 DEF f

-----------------------------------------------------------------------------
(* And with a constant, group by group.                                      *)

Group == {0, 1} \X Nat

\* The groups of a constant from group i on: group i begins at bit `at`, e tells
\* where each ends, all together end at width, and the bits of the constant from
\* c on are as the groups say.  Only a group of zeros may have been passed in
\* part.
Situation(known, width, groups, i, at, c, e) ==
    /\ groups \in Seq(Group) /\ i \in 1 .. Len(groups) + 1 /\ at \in Nat /\ c \in Nat
    /\ e \in [i - 1 .. Len(groups) -> Nat]
    /\ e[i - 1] = at /\ e[Len(groups)] = width
    /\ \A m \in i .. Len(groups) : e[m] = e[m - 1] + groups[m][2]
    /\ \A m \in i .. Len(groups) : \A b \in Nat :
           e[m - 1] <= b /\ c <= b /\ b < e[m] => BitAt(known, width - 1 - b) = groups[m][1]
    /\ \A m \in i .. Len(groups) - 1 : groups[m][1] # groups[m + 1][1]
    /\ c = at \/ (i <= Len(groups) /\ groups[i][1] = 0 /\ at <= c /\ c <= e[i])

(* The ends are in order.                                                     *)
LEMMA EndsIncrease ==
    ASSUME NEW known, NEW width, NEW groups, NEW i, NEW at, NEW c, NEW e,
           Situation(known, width, groups, i, at, c, e),
           NEW m \in i - 1 .. Len(groups), NEW n \in i - 1 .. Len(groups), m <= n
    PROVE  e[m] <= e[n]
<1> DEFINE N == Len(groups)
           T == {k \in Nat : m + k <= N => e[m] <= e[m + k]}
<1>1. N \in Nat /\ i \in Nat \ {0} /\ e \in [i - 1 .. N -> Nat] /\ groups \in Seq(Group) /\ m \in Nat /\ n \in Nat
  BY DEF Situation
<1>2. 0 \in T
  <2>1. m + 0 = m /\ e[m] \in Nat
    BY <1>1
  <2> QED
    BY <2>1
<1>3. ASSUME NEW k \in Nat, k \in T PROVE k + 1 \in T
  <2> SUFFICES ASSUME m + (k + 1) <= N PROVE e[m] <= e[m + (k + 1)]
    OBVIOUS
  <2> DEFINE j == m + (k + 1)
  <2>1. j \in i .. N /\ j - 1 = m + k /\ j - 1 \in i - 1 .. N /\ m + k <= N /\ j \in 1 .. N
    BY <1>1
  <2>2. groups[j] \in Group
    BY <1>1, <2>1
  <2>3. groups[j][2] \in Nat
    BY <2>2 DEF Group
  <2>4. e[j] = e[j - 1] + groups[j][2]
    BY <2>1 DEF Situation
  <2>5. e[m] <= e[j - 1]
    BY <1>3, <2>1
  <2>6. e[m] \in Nat /\ e[j - 1] \in Nat
    BY <1>1, <2>1
  <2> HIDE DEF j
  <2> QED
    BY <2>3, <2>4, <2>5, <2>6 DEF j
<1> HIDE DEF T
<1>4. \A k \in Nat : k \in T
  BY <1>2, <1>3, Induction
<1> DEFINE d == n - m
<1>5. d \in Nat /\ m + d = n /\ m + d <= N
  BY <1>1
<1> HIDE DEF d
<1>6. d \in T
  BY <1>4, <1>5
<1> QED
  BY <1>5, <1>6 DEF T

(* Ends computes where the groups end.                                        *)
LEMMA EndsAre ==
    ASSUME NEW known, NEW width, NEW groups, NEW i, NEW at, NEW c, NEW e,
           Situation(known, width, groups, i, at, c, e)
    PROVE  \A m \in i - 1 .. Len(groups) : Ends(groups, i, at)[m] = e[m]
<1> DEFINE N == Len(groups)
           D == 0 .. N
           f == Ends(groups, i, at)
           g == [n \in D |-> IF n < i THEN at ELSE e[n]]
<1>1. N \in Nat /\ i \in 1 .. N + 1 /\ e[i - 1] = at
  BY DEF Situation
<1>2. ASSUME NEW n \in D PROVE g[n] = IF n < i THEN at ELSE g[n - 1] + groups[n][2]
  <2>1. CASE n < i
    BY <2>1
  <2>2. CASE ~(n < i)
    <3>1. n \in i .. N /\ n - 1 \in D /\ n - 1 \in i - 1 .. N
      BY <1>1, <2>2
    <3>2. e[n] = e[n - 1] + groups[n][2]
      BY <3>1 DEF Situation
    <3>3. g[n - 1] = e[n - 1]
      BY <1>1, <3>1
    <3> QED
      BY <2>2, <3>2, <3>3
  <2> QED
    BY <2>1, <2>2
<1>3. g = [n \in D |-> IF n < i THEN at ELSE g[n - 1] + groups[n][2]]
  <2>1. DOMAIN g = D /\ g = [n \in DOMAIN g |-> g[n]]
    OBVIOUS
  <2> HIDE DEF g, D
  <2> QED
    BY <1>2, <2>1
<1>4. f = [n \in D |-> IF n < i THEN at ELSE f[n - 1] + groups[n][2]]
  <2> HIDE DEF g
  <2> QED
    BY <1>3 DEF Ends
<1> HIDE DEF f
<1> DEFINE T == {n \in Nat : n <= N => f[n] = g[n]}
<1>5. 0 \in T
  <2>1. 0 \in D /\ 0 < i
    BY <1>1
  <2> QED
    BY <1>4, <2>1
<1>6. ASSUME NEW n \in Nat, n \in T PROVE n + 1 \in T
  <2> SUFFICES ASSUME n + 1 <= N PROVE f[n + 1] = g[n + 1]
    OBVIOUS
  <2> DEFINE k == n + 1
  <2>1. k \in D /\ k - 1 = n /\ n <= N
    BY <1>1
  <2>2. f[k] = IF k < i THEN at ELSE f[k - 1] + groups[k][2]
    <3> HIDE DEF k
    <3> QED
      BY <1>4, <2>1
  <2>3. g[k] = IF k < i THEN at ELSE g[k - 1] + groups[k][2]
    <3> HIDE DEF k, g
    <3> QED
      BY <1>2, <2>1
  <2>4. f[k - 1] = g[k - 1]
    <3> HIDE DEF g
    <3> QED
      BY <1>6, <2>1
  <2> HIDE DEF g
  <2> QED
    BY <2>2, <2>3, <2>4
<1> HIDE DEF T, g
<1>7. \A n \in Nat : n \in T
  BY <1>5, <1>6, Induction
<1> TAKE m \in i - 1 .. N
<1>8. m \in Nat /\ m <= N /\ m \in D
  BY <1>1
<1>9. f[m] = g[m]
  BY <1>7, <1>8 DEF T
<1>10. g[m] = e[m]
  BY <1>1, <1>8 DEF g
<1> QED
  BY <1>9, <1>10 DEF f

(* The greatest and the least element of a set.                               *)
LEMMA MaxIs ==
    ASSUME NEW S \in SUBSET Int, NEW x \in S, \A y \in S : y <= x
    PROVE  Max(S) = x
<1> DEFINE P(z) == z \in S /\ \A y \in S : z >= y
           m == CHOOSE z : P(z)
<1>1. P(x)
  OBVIOUS
<1>2. P(m)
  <2> HIDE DEF P
  <2> QED
    BY <1>1
<1>3. m = x
  <2> HIDE DEF m
  <2>1. m \in Int /\ x \in Int /\ m >= x /\ m <= x
    BY <1>2
  <2> QED
    BY <2>1
<1>4. Max(S) = m
  BY DEF Max
<1> QED
  BY <1>3, <1>4

(* A set of numbers that has a member has a least one.                        *)
LEMMA MinExists ==
    ASSUME NEW S \in SUBSET Nat, S # {}
    PROVE  Min(S) \in S /\ \A y \in S : Min(S) <= y
<1>1. \E n \in S : \A m \in S : n <= m
  BY LeastElement
<1> QED
  BY <1>1 DEF Min

(* From one group to the next.                                                *)
LEMMA NextGroup ==
    ASSUME NEW known, NEW width, NEW groups, NEW i, NEW at, NEW c, NEW e,
           Situation(known, width, groups, i, at, c, e), i <= Len(groups)
    PROVE  /\ e[i] = at + groups[i][2] /\ groups[i] \in Group /\ e[i] \in Nat /\ e[i] <= width
           /\ at <= c /\ c <= e[i]
           /\ Situation(known, width, groups, i + 1, e[i], e[i], [m \in i .. Len(groups) |-> e[m]])
<1> DEFINE N == Len(groups)
           f == [m \in i .. N |-> e[m]]
<1>1. N \in Nat /\ i \in 1 .. N /\ groups \in Seq(Group) /\ e \in [i - 1 .. N -> Nat] /\ at \in Nat /\ c \in Nat
  BY DEF Situation
<1>2. groups[i] \in Group
  BY <1>1
<1>3. e[i] = at + groups[i][2] /\ groups[i][2] \in Nat
  <2>1. e[i] = e[i - 1] + groups[i][2] /\ e[i - 1] = at
    BY <1>1 DEF Situation
  <2> QED
    BY <1>2, <2>1 DEF Group
<1>4. e[i] \in Nat /\ e[i] <= width
  <2>1. i \in i - 1 .. N /\ N \in i - 1 .. N /\ i <= N
    BY <1>1
  <2>2. e[i] <= e[N]
    BY <2>1, EndsIncrease
  <2>3. e[N] = width
    BY DEF Situation
  <2> QED
    BY <1>1, <2>1, <2>2, <2>3
<1>5. at <= c /\ c <= e[i]
  BY <1>1, <1>3 DEF Situation
<1>6. Situation(known, width, groups, i + 1, e[i], e[i], f)
  <2>1. i + 1 \in 1 .. N + 1 /\ i + 1 - 1 = i
    BY <1>1
  <2>2. f \in [i .. N -> Nat] /\ f[i] = e[i] /\ f[N] = width
    <3>1. \A m \in i .. N : e[m] \in Nat
      BY <1>1
    <3>2. i \in i .. N /\ N \in i .. N /\ e[N] = width
      BY <1>1 DEF Situation
    <3> QED
      BY <3>1, <3>2
  <2>3. \A m \in i + 1 .. N : f[m] = f[m - 1] + groups[m][2]
    <3> TAKE m \in i + 1 .. N
    <3>1. m \in i .. N /\ m - 1 \in i .. N
      BY <1>1
    <3>2. e[m] = e[m - 1] + groups[m][2]
      BY <3>1 DEF Situation
    <3> QED
      BY <3>1, <3>2
  <2>4. \A m \in i + 1 .. N : \A b \in Nat :
            f[m - 1] <= b /\ e[i] <= b /\ b < f[m] => BitAt(known, width - 1 - b) = groups[m][1]
    <3> TAKE m \in i + 1 .. N
    <3> TAKE b \in Nat
    <3>1. m \in i .. N /\ m - 1 \in i .. N
      BY <1>1
    <3>2. f[m] = e[m] /\ f[m - 1] = e[m - 1]
      BY <3>1
    <3>3. e[i] <= b => c <= b
      <4>1. c \in Int /\ e[i] \in Int /\ c <= e[i]
        BY <1>1, <1>4, <1>5
      <4> QED
        BY <4>1
    <3> HIDE DEF f
    <3> QED
      BY <3>1, <3>2, <3>3 DEF Situation
  <2>5. \A m \in i + 1 .. N - 1 : groups[m][1] # groups[m + 1][1]
    <3>1. \A m \in i + 1 .. N - 1 : m \in i .. N - 1
      BY <1>1
    <3> QED
      BY <3>1 DEF Situation
  <2> HIDE DEF f
  <2> QED
    BY <1>1, <1>4, <2>1, <2>2, <2>3, <2>4, <2>5 DEF Situation
<1> QED
  BY <1>2, <1>3, <1>4, <1>5, <1>6

\* What a look-up of the bits from group i up to `end` touches: the last group,
\* the groups of ones that end in time, and the lengths afterwards.
Touched(groups, ends, i, end) == Min({k \in i .. Len(groups) : ends[k] >= end \/ k = Len(groups)})
WholeOnes(groups, ends, i, last, end) == {k \in i .. last : groups[k][1] = 1 /\ ends[k] <= end}
Adjusted(groups, last, cut) ==
    [k \in DOMAIN groups |-> CASE k = last     -> <<groups[k][1], groups[k][2] - cut>>
                               [] k = last - 1 -> <<groups[k][1], groups[k][2] + cut>>
                               [] OTHER        -> groups[k]]

(* The last group that a lookup reaches holds its end.                        *)
LEMMA TouchedFacts ==
    ASSUME NEW known, NEW width, NEW groups, NEW i, NEW at, NEW c, NEW e,
           Situation(known, width, groups, i, at, c, e), i <= Len(groups),
           NEW end \in Nat, at < end, end <= width
    PROVE  LET last == Touched(groups, e, i, end)
           IN  /\ last \in i .. Len(groups) /\ e[last] >= end /\ e[last - 1] <= end
               /\ \A k \in i .. last - 1 : e[k] < end
<1> DEFINE N == Len(groups)
           S == {k \in i .. N : e[k] >= end \/ k = N}
           last == Touched(groups, e, i, end)
<1>1. N \in Nat /\ i \in 1 .. N /\ e \in [i - 1 .. N -> Nat] /\ e[i - 1] = at /\ e[N] = width /\ at \in Nat
  BY DEF Situation
<1>2. S \in SUBSET Nat /\ N \in S
  BY <1>1
<1>3. last = Min(S)
  BY DEF Touched
<1>4. last \in S /\ \A k \in S : last <= k
  <2> HIDE DEF S, last
  <2> QED
    BY <1>2, <1>3, MinExists
<1> HIDE DEF last
<1>5. last \in i .. N /\ e[last] >= end
  <2>1. CASE e[last] >= end
    BY <1>4, <2>1
  <2>2. CASE last = N
    BY <1>1, <1>4, <2>2
  <2> QED
    BY <1>4, <2>1, <2>2
<1>6. \A k \in i .. last - 1 : e[k] < end
  <2> TAKE k \in i .. last - 1
  <2>1. k \in i .. N /\ ~(last <= k) /\ k \in i - 1 .. N
    BY <1>1, <1>5
  <2>2. k \notin S
    BY <1>4, <2>1
  <2>3. e[k] \in Nat
    BY <1>1, <2>1
  <2> QED
    BY <2>1, <2>2, <2>3
<1>7. e[last - 1] <= end
  <2>1. CASE last = i
    BY <1>1, <2>1
  <2>2. CASE last # i
    <3>1. last - 1 \in i .. last - 1 /\ last - 1 \in i - 1 .. N
      BY <1>1, <1>5, <2>2
    <3>2. e[last - 1] < end /\ e[last - 1] \in Nat
      BY <1>1, <1>6, <3>1
    <3> QED
      BY <3>2
  <2> QED
    BY <2>1, <2>2
<1> QED
  BY <1>5, <1>6, <1>7 DEF last

(* A group that a lookup cuts keeps its bit and loses what was looked up.     *)
LEMMA AdjustedFacts ==
    ASSUME NEW groups \in Seq(Group), NEW last \in 1 .. Len(groups), NEW cut \in Nat, cut <= groups[last][2]
    PROVE  LET moved == Adjusted(groups, last, cut)
           IN  /\ moved \in Seq(Group) /\ Len(moved) = Len(groups)
               /\ \A k \in 1 .. Len(groups) :
                      /\ moved[k][1] = groups[k][1]
                      /\ moved[k][2] = IF k = last THEN groups[k][2] - cut
                                       ELSE IF k = last - 1 THEN groups[k][2] + cut ELSE groups[k][2]
<1> DEFINE N == Len(groups)
           moved == Adjusted(groups, last, cut)
<1>1. DOMAIN groups = 1 .. N /\ N \in Nat /\ \A k \in 1 .. N : groups[k] \in Group
  OBVIOUS
<1>2. ASSUME NEW k \in 1 .. N
      PROVE  /\ moved[k] \in Group
             /\ moved[k][1] = groups[k][1]
             /\ moved[k][2] = IF k = last THEN groups[k][2] - cut
                              ELSE IF k = last - 1 THEN groups[k][2] + cut ELSE groups[k][2]
  <2>1. groups[k] \in {0, 1} \X Nat /\ groups[k] = <<groups[k][1], groups[k][2]>>
    BY <1>1 DEF Group
  <2>2. last # last - 1
    BY <1>1
  <2>3. moved[k] = CASE k = last     -> <<groups[k][1], groups[k][2] - cut>>
                     [] k = last - 1 -> <<groups[k][1], groups[k][2] + cut>>
                     [] OTHER        -> groups[k]
    BY <1>1 DEF Adjusted
  <2>4. CASE k = last
    <3>1. moved[k] = <<groups[k][1], groups[k][2] - cut>>
      BY <2>2, <2>3, <2>4
    <3>2. groups[k][2] - cut \in Nat
      BY <2>1, <2>4
    <3> QED
      BY <2>1, <2>4, <3>1, <3>2 DEF Group
  <2>5. CASE k # last /\ k = last - 1
    <3>1. moved[k] = <<groups[k][1], groups[k][2] + cut>>
      BY <2>3, <2>5
    <3>2. groups[k][2] + cut \in Nat
      BY <2>1
    <3> QED
      BY <2>1, <2>5, <3>1, <3>2 DEF Group
  <2>6. CASE k # last /\ k # last - 1
    <3>1. moved[k] = groups[k]
      BY <2>3, <2>6
    <3> QED
      BY <1>1, <2>6, <3>1
  <2> QED
    BY <2>4, <2>5, <2>6
<1>3. DOMAIN moved = 1 .. N
  BY <1>1 DEF Adjusted
<1>4. moved = [k \in 1 .. N |-> moved[k]]
  BY <1>1, <1>3 DEF Adjusted
<1> HIDE DEF moved
<1>5. moved \in Seq(Group) /\ Len(moved) = N
  <2>1. moved \in [1 .. N -> Group]
    BY <1>2, <1>4
  <2> QED
    BY <1>1, <2>1
<1> QED
  BY <1>2, <1>5 DEF moved

\* Where the groups end once the bits up to `end` are looked up.
EndsAfter(e, i, n, last, end) == [m \in i - 1 .. n |-> IF m = last - 1 THEN end ELSE e[m]]

SituationAfter(known, width, n, i, e, last, end, moved, region) ==
    LET f == EndsAfter(e, i, n, last, end)
    IN  Situation(known, width, moved, region + 1, f[region], end, [m \in region .. n |-> f[m]])

(* A cut group moves the ends of the groups as the pass expects them.         *)
LEMMA EndsAfterFacts ==
    ASSUME NEW known, NEW width, NEW groups, NEW i, NEW at, NEW c, NEW e,
           Situation(known, width, groups, i, at, c, e), i <= Len(groups),
           NEW end \in Nat, NEW last \in i .. Len(groups), e[last] >= end, e[last - 1] <= end,
           NEW moved, moved = Adjusted(groups, last, end - e[last - 1])
    PROVE  LET f == EndsAfter(e, i, Len(groups), last, end)
           IN  /\ end - e[last - 1] \in Nat /\ end - e[last - 1] <= groups[last][2]
               /\ moved \in Seq(Group) /\ Len(moved) = Len(groups)
               /\ \A m \in 1 .. Len(groups) : moved[m][1] = groups[m][1]
               /\ moved[last][2] = groups[last][2] - (end - e[last - 1])
               /\ \A m \in i .. Len(groups) : f[m] = f[m - 1] + moved[m][2]
<1> DEFINE N == Len(groups)
           cut == end - e[last - 1]
           f == EndsAfter(e, i, N, last, end)
<1>1. /\ N \in Nat /\ i \in 1 .. N /\ groups \in Seq(Group) /\ e \in [i - 1 .. N -> Nat]
      /\ last \in 1 .. N /\ last - 1 \in i - 1 .. N /\ last \in i - 1 .. N
  BY DEF Situation
<1>2. \A m \in i .. N : e[m] = e[m - 1] + groups[m][2]
  BY DEF Situation
<1>3. \A m \in 1 .. N : groups[m][2] \in Nat
  <2>1. \A m \in 1 .. N : groups[m] \in Group
    BY <1>1
  <2> QED
    BY <2>1 DEF Group
<1>4. cut \in Nat /\ cut <= groups[last][2]
  <2>1. e[last] = e[last - 1] + groups[last][2] /\ e[last] \in Nat /\ e[last - 1] \in Nat /\ groups[last][2] \in Nat
    BY <1>1, <1>2, <1>3
  <2> QED
    BY <2>1
<1>5. /\ moved \in Seq(Group) /\ Len(moved) = N
      /\ \A m \in 1 .. N : moved[m][1] = groups[m][1]
      /\ \A m \in 1 .. N : moved[m][2] = IF m = last THEN groups[m][2] - cut
                                         ELSE IF m = last - 1 THEN groups[m][2] + cut ELSE groups[m][2]
  <2> HIDE DEF cut, N
  <2> QED
    BY <1>1, <1>4, AdjustedFacts DEF N, cut
<1>6. ASSUME NEW m \in i .. N PROVE f[m] = f[m - 1] + moved[m][2]
  <2>1. m \in i - 1 .. N /\ m - 1 \in i - 1 .. N /\ m \in 1 .. N
    BY <1>1
  <2>2. f[m] = (IF m = last - 1 THEN end ELSE e[m]) /\ f[m - 1] = (IF m - 1 = last - 1 THEN end ELSE e[m - 1])
    BY <2>1 DEF EndsAfter
  <2>3. e[m] = e[m - 1] + groups[m][2] /\ e[m] \in Nat /\ e[m - 1] \in Nat /\ groups[m][2] \in Nat
    BY <1>1, <1>2, <1>3, <2>1
  <2>4. CASE m = last
    <3>1. moved[m][2] = groups[m][2] - cut
      BY <1>5, <2>1, <2>4
    <3>2. f[m] = e[m] /\ f[m - 1] = end
      BY <1>1, <2>2, <2>4
    <3>3. cut = end - e[m - 1]
      BY <2>4
    <3> DEFINE x == groups[m][2]
               y == e[m - 1]
    <3>4. x \in Int /\ y \in Int /\ end \in Int
      BY <2>3
    <3>5. y + x = end + (x - (end - y))
      <4> HIDE DEF x, y
      <4> QED
        BY <3>4
    <3>6. moved[m][2] = x - (end - y)
      BY ONLY <3>1, <3>3
    <3>7. f[m] = y + x
      BY ONLY <3>2, <2>3
    <3>8. f[m - 1] = end
      BY ONLY <3>2
    <3> HIDE DEF x, y, f
    <3> QED
      BY ONLY <3>5, <3>6, <3>7, <3>8
  <2>5. CASE m = last - 1
    <3>1. m # last /\ m - 1 # last - 1
      BY <1>1, <2>5
    <3>2. moved[m][2] = groups[m][2] + cut
      BY <1>5, <2>1, <2>5, <3>1
    <3>3. f[m] = end /\ f[m - 1] = e[m - 1]
      BY <2>2, <2>5, <3>1
    <3>4. cut = end - e[m]
      BY <2>5
    <3> DEFINE x == groups[m][2]
               y == e[m - 1]
    <3>5. x \in Int /\ y \in Int /\ end \in Int
      BY <2>3
    <3>6. end = y + (x + (end - (y + x)))
      <4> HIDE DEF x, y
      <4> QED
        BY <3>5
    <3>7. moved[m][2] = x + (end - (y + x))
      BY ONLY <3>2, <3>4, <2>3
    <3>8. f[m] = end
      BY ONLY <3>3
    <3>9. f[m - 1] = y
      BY ONLY <3>3
    <3> HIDE DEF x, y, f
    <3> QED
      BY ONLY <3>6, <3>7, <3>8, <3>9
  <2>6. CASE m # last /\ m # last - 1
    <3>1. moved[m][2] = groups[m][2]
      BY <1>5, <2>1, <2>6
    <3>2. m - 1 # last - 1
      BY <1>1, <2>6
    <3>3. f[m] = e[m] /\ f[m - 1] = e[m - 1]
      BY <2>2, <2>6, <3>2
    <3> HIDE DEF f
    <3> QED
      BY <2>3, <3>1, <3>3
  <2> QED
    BY <2>4, <2>5, <2>6
<1>7. moved[last][2] = groups[last][2] - cut
  BY <1>1, <1>5
<1> QED
  BY <1>4, <1>5, <1>6, <1>7

(* After a lookup the pass goes on where the lookup ended.                    *)
LEMMA AfterLookup ==
    ASSUME NEW known, NEW width, NEW groups, NEW i, NEW at, NEW c, NEW e,
           Situation(known, width, groups, i, at, c, e), i <= Len(groups),
           NEW end \in Nat, NEW last \in i .. Len(groups), e[last] >= end, e[last - 1] <= end, c <= end,
           NEW moved, moved = Adjusted(groups, last, end - e[last - 1]),
           NEW region \in i .. Len(groups),
           \/ region = last /\ e[last] = end
           \/ region = last - 1
           \/ region = last - 2 /\ groups[last - 1][1] = 0
    PROVE  SituationAfter(known, width, Len(groups), i, e, last, end, moved, region)
<1> DEFINE N == Len(groups)
           f == EndsAfter(e, i, N, last, end)
           h == [m \in region .. N |-> f[m]]
<1>1. /\ N \in Nat /\ i \in 1 .. N /\ groups \in Seq(Group) /\ e \in [i - 1 .. N -> Nat] /\ c \in Nat
      /\ last \in 1 .. N /\ last - 1 \in i - 1 .. N /\ last \in i - 1 .. N /\ e[N] = width
  BY DEF Situation
<1>2. /\ moved \in Seq(Group) /\ Len(moved) = N
      /\ \A m \in 1 .. N : moved[m][1] = groups[m][1]
      /\ \A m \in i .. N : f[m] = f[m - 1] + moved[m][2]
  <2> HIDE DEF f
  <2> QED
    BY EndsAfterFacts DEF f
<1>3. f \in [i - 1 .. N -> Nat] /\ \A m \in i - 1 .. N : f[m] = IF m = last - 1 THEN end ELSE e[m]
  BY <1>1 DEF EndsAfter
<1> HIDE DEF f
<1>4. region \in 1 .. N /\ region + 1 \in 1 .. N + 1 /\ region + 1 - 1 = region
  BY <1>1
<1>5. \A m \in region .. N : m \in i - 1 .. N /\ h[m] = f[m] /\ h[m] \in Nat
  <2> TAKE m \in region .. N
  <2>1. m \in i - 1 .. N
    BY <1>1, <1>4
  <2>2. h[m] = f[m]
    OBVIOUS
  <2>3. f[m] \in Nat
    BY ONLY <2>1, <1>3
  <2> QED
    BY <2>1, <2>2, <2>3
<1>6. h \in [region + 1 - 1 .. N -> Nat] /\ h[region] = f[region]
  BY <1>4, <1>5
<1>7. h[N] = width
  <2>1. N \in region .. N /\ N # last - 1
    BY <1>1, <1>4
  <2> QED
    BY <1>1, <1>3, <1>5, <2>1
<1>8. \A m \in region + 1 .. N : h[m] = h[m - 1] + moved[m][2]
  <2> TAKE m \in region + 1 .. N
  <2>1. m \in region .. N /\ m - 1 \in region .. N /\ m \in i .. N
    BY <1>1, <1>4
  <2> HIDE DEF h
  <2> QED
    BY <1>2, <1>5, <2>1
<1>9. \A m \in region + 1 .. N : \A b \in Nat :
          h[m - 1] <= b /\ end <= b /\ b < h[m] => BitAt(known, width - 1 - b) = moved[m][1]
  <2> TAKE m \in region + 1 .. N
  <2> TAKE b \in Nat
  <2> SUFFICES ASSUME h[m - 1] <= b, end <= b, b < h[m] PROVE BitAt(known, width - 1 - b) = moved[m][1]
    OBVIOUS
  <2>1. m \in region .. N /\ m - 1 \in region .. N /\ m \in i .. N /\ m \in 1 .. N
    BY <1>1, <1>4
  <2>2. m # last - 1
    <3> SUFFICES ASSUME m = last - 1 PROVE FALSE
      OBVIOUS
    <3>1. h[m] = end
      BY <1>3, <1>5, <2>1
    <3> HIDE DEF h
    <3> QED
      BY <3>1
  <2>3. h[m] = e[m]
    BY <1>3, <1>5, <2>1, <2>2
  <2>4. e[m - 1] <= b
    <3>1. CASE m = last
      <4>1. e[last - 1] \in Nat /\ e[last - 1] <= end
        BY <1>1
      <4> HIDE DEF h
      <4> QED
        BY <3>1, <4>1
    <3>2. CASE m # last
      <4>1. m - 1 # last - 1
        BY <2>1, <3>2
      <4>2. h[m - 1] = e[m - 1]
        BY <1>3, <1>5, <2>1, <4>1
      <4> QED
        BY <4>2
    <3> QED
      BY <3>1, <3>2
  <2>5. c <= b
    <3> HIDE DEF h
    <3> QED
      BY <1>1
  <2>6. BitAt(known, width - 1 - b) = groups[m][1]
    <3> HIDE DEF h
    <3> QED
      BY <2>1, <2>3, <2>4, <2>5 DEF Situation
  <2> QED
    BY <1>2, <2>1, <2>6
<1>10. \A m \in region + 1 .. N - 1 : moved[m][1] # moved[m + 1][1]
  <2> TAKE m \in region + 1 .. N - 1
  <2>1. m \in i .. N - 1 /\ m \in 1 .. N /\ m + 1 \in 1 .. N
    BY <1>1, <1>4
  <2>2. groups[m][1] # groups[m + 1][1]
    BY <2>1 DEF Situation
  <2> QED
    BY <1>2, <2>1, <2>2
<1>11. \/ end = f[region]
       \/ region + 1 <= N /\ moved[region + 1][1] = 0 /\ f[region] <= end /\ end <= h[region + 1]
  <2>1. CASE region = last /\ e[last] = end
    <3>1. last # last - 1
      BY <1>1
    <3> QED
      BY <1>1, <1>3, <2>1, <3>1
  <2>2. CASE region = last - 1
    BY <1>1, <1>3, <2>2
  <2>3. CASE region = last - 2 /\ groups[last - 1][1] = 0
    <3>1. /\ region # last - 1 /\ region + 1 = last - 1 /\ region + 1 \in 1 .. N /\ region + 1 \in region .. N
          /\ region \in i - 1 .. N
      BY <1>1, <1>4, <2>3
    <3>2. moved[region + 1][1] = 0
      BY <1>2, <2>3, <3>1
    <3>3. h[region + 1] = end /\ f[region] = e[region]
      BY <1>1, <1>3, <1>5, <3>1
    <3>4. e[region] <= end
      <4>1. e[region] <= e[last - 1]
        <5>1. region <= last - 1
          BY <1>4, <3>1
        <5> QED
          BY <1>1, <3>1, <5>1, EndsIncrease
      <4>2. e[region] \in Nat /\ e[last - 1] \in Nat
        BY <1>1, <3>1
      <4> QED
        BY <4>1, <4>2
    <3>5. end <= end /\ region + 1 <= N
      BY <1>1, <3>1
    <3> HIDE DEF h
    <3> QED
      BY <3>2, <3>3, <3>4, <3>5
  <2> QED
    BY <2>1, <2>2, <2>3
<1>12. f[region] \in Nat
  <2>1. region \in i - 1 .. N
    BY <1>1, <1>4
  <2> QED
    BY ONLY <2>1, <1>3
<1>13. \A m \in region + 1 .. N : \A b \in Nat :
          h[m - 1] <= b /\ end <= b /\ b < h[m] => BitAt(known, width - 1 - b) = moved[m][1]
  BY <1>9
<1> HIDE DEF h
<1>14. Situation(known, width, moved, region + 1, f[region], end, h)
  BY SMTT(30), <1>2, <1>4, <1>6, <1>7, <1>8, <1>10, <1>11, <1>12, <1>13 DEF Situation
<1> QED
  BY <1>14 DEF f, h, SituationAfter

\* The states between two passes.
Pass == [groups : Seq(Group), i : Nat, at : Nat, sum : Int]

Covers(unknown, known, width, s, c) ==
    s.sum = Lowest("and", unknown, known)[width] - Lowest("and", unknown, known)[width - c]

Passing(unknown, known, width, n) ==
    {s \in Pass : /\ Len(s.groups) = n
                  /\ \E c, e : /\ Situation(known, width, s.groups, s.i, s.at, c, e)
                               /\ Covers(unknown, known, width, s, c)}

\* The pass that looks bits up.
Looked(unknown, known, width, s, ends, end) ==
    LET last   == Touched(s.groups, ends, s.i, end)
        cut    == s.groups[last][2] - (ends[last] - end)
        moved  == Adjusted(s.groups, last, cut)
        region == Max(WholeOnes(s.groups, ends, s.i, last, end))
    IN  [groups |-> moved, i |-> region + 1,
         at |-> ends[region - 1] + moved[region][2] + (IF region >= last THEN cut ELSE 0),
         sum |-> s.sum + LookupPart("and", unknown, known, width, s.at)]

PassOutcome(unknown, known, width, s, after) ==
    LET end   == Min({s.at + LookupBits, width})
        ends  == Ends(s.groups, s.i, s.at)
        whole == WholeOnes(s.groups, ends, s.i, Touched(s.groups, ends, s.i, end), end)
    IN  \/ s.at >= width /\ after = s
        \/ /\ s.at < width /\ s.groups[s.i][1] = 0
           /\ after = [s EXCEPT !.i = @ + 1, !.at = @ + s.groups[s.i][2]]
        \/ /\ s.at < width /\ s.groups[s.i][1] = 1 /\ whole # {}
           /\ after = Looked(unknown, known, width, s, ends, end)
        \/ /\ s.at < width /\ s.groups[s.i][1] = 1
           /\ after = [s EXCEPT !.i = @ + 1, !.at = @ + s.groups[s.i][2],
                                !.sum = @ + Extract(unknown, width, s.at, s.groups[s.i][2], TRUE)]

(* A step of the pass over the groups skips zeros, copies ones or looks up.   *)
LEMMA PassCases ==
    ASSUME NEW unknown, NEW known, NEW width \in Nat, NEW lookups, NEW s \in Pass, s.groups[s.i] \in Group
    PROVE  PassOutcome(unknown, known, width, s, AndPass(unknown, known, width, lookups, s))
<1> SUFFICES LET end   == Min({s.at + LookupBits, width})
                 ends  == Ends(s.groups, s.i, s.at)
                 whole == WholeOnes(s.groups, ends, s.i, Touched(s.groups, ends, s.i, end), end)
                 after == AndPass(unknown, known, width, lookups, s)
             IN  \/ s.at >= width /\ after = s
                 \/ /\ s.at < width /\ s.groups[s.i][1] = 0
                    /\ after = [s EXCEPT !.i = @ + 1, !.at = @ + s.groups[s.i][2]]
                 \/ /\ s.at < width /\ s.groups[s.i][1] = 1 /\ whole # {}
                    /\ after = Looked(unknown, known, width, s, ends, end)
                 \/ /\ s.at < width /\ s.groups[s.i][1] = 1
                    /\ after = [s EXCEPT !.i = @ + 1, !.at = @ + s.groups[s.i][2],
                                         !.sum = @ + Extract(unknown, width, s.at, s.groups[s.i][2], TRUE)]
  BY DEF PassOutcome
<1> DEFINE end   == Min({s.at + LookupBits, width})
           ends  == Ends(s.groups, s.i, s.at)
           whole == WholeOnes(s.groups, ends, s.i, Touched(s.groups, ends, s.i, end), end)
           after == AndPass(unknown, known, width, lookups, s)
           skip  == [s EXCEPT !.i = @ + 1, !.at = @ + s.groups[s.i][2]]
           ones  == [skip EXCEPT !.sum = @ + Extract(unknown, width, s.at, s.groups[s.i][2], TRUE)]
           looked == Looked(unknown, known, width, s, ends, end)
           label == s.groups[s.i][1]
           table == s.at \in lookups /\ whole # {}
<1>1. after = CASE s.at >= width -> s
                [] s.at < width /\ label = 0 -> skip
                [] s.at < width /\ label = 1 /\ s.at \in lookups /\ whole # {} -> looked
                [] s.at < width /\ label = 1 /\ ~(s.at \in lookups /\ whole # {}) -> ones
  BY DEF AndPass, Looked, Touched, WholeOnes, Adjusted
<1>2. label \in {0, 1} /\ s.at \in Nat
  BY DEF Group, Pass
<1>3. ones = [s EXCEPT !.i = @ + 1, !.at = @ + s.groups[s.i][2],
                       !.sum = @ + Extract(unknown, width, s.at, s.groups[s.i][2], TRUE)]
  BY DEF Pass
<1> HIDE DEF after, skip, ones, looked, label, whole
<1>4. s.at >= width \/ s.at < width
  BY <1>2
<1>5. CASE s.at >= width
  <2>1. ~(s.at < width)
    BY <1>2, <1>5
  <2>2. after = s
    BY ONLY <1>1, <1>5, <2>1
  <2> QED
    BY <1>5, <2>2 DEF after
<1>6. CASE s.at < width /\ label = 0
  <2>1. ~(s.at >= width) /\ label # 1
    BY <1>2, <1>6
  <2>2. after = skip
    BY ONLY <1>1, <1>6, <2>1
  <2> QED
    BY <1>6, <2>2 DEF after, skip, label
<1>7. CASE s.at < width /\ label = 1 /\ table
  <2>1. ~(s.at >= width) /\ label # 0
    BY <1>2, <1>7
  <2>2. after = looked /\ whole # {}
    BY ONLY <1>1, <1>7, <2>1
  <2> QED
    BY <1>7, <2>2 DEF after, looked, label, whole
<1>8. CASE s.at < width /\ label = 1 /\ ~table
  <2>1. ~(s.at >= width) /\ label # 0
    BY <1>2, <1>8
  <2>2. after = ones
    BY ONLY <1>1, <1>8, <2>1
  <2> QED
    BY <1>3, <1>8, <2>2 DEF after, label
<1> QED
  BY <1>2, <1>4, <1>5, <1>6, <1>7, <1>8

(* Which region a look-up ends in.                                            *)
LEMMA RegionFacts ==
    ASSUME NEW known, NEW width, NEW groups, NEW i, NEW at, NEW c, NEW e,
           Situation(known, width, groups, i, at, c, e), i <= Len(groups), groups[i][1] = 1,
           NEW end \in Nat, at < end, end <= width,
           WholeOnes(groups, e, i, Touched(groups, e, i, end), end) # {}
    PROVE  LET last   == Touched(groups, e, i, end)
               region == Max(WholeOnes(groups, e, i, last, end))
           IN  /\ region \in i .. Len(groups)
               /\ \/ region = last /\ e[last] = end
                  \/ region = last - 1
                  \/ region = last - 2 /\ groups[last - 1][1] = 0
<1> DEFINE N == Len(groups)
           last == Touched(groups, e, i, end)
           S == WholeOnes(groups, e, i, last, end)
<1>0. last \in i .. Len(groups) /\ e[last] >= end /\ \A k \in i .. last - 1 : e[k] < end
  BY TouchedFacts
<1> HIDE DEF last
<1>1. N \in Nat /\ i \in 1 .. N /\ groups \in Seq(Group) /\ e \in [i - 1 .. N -> Nat]
  BY DEF Situation
<1>2. \A k \in i .. N : groups[k][1] \in {0, 1}
  <2>1. \A k \in i .. N : groups[k] \in Group
    BY <1>1
  <2> QED
    BY <2>1 DEF Group
<1>3. S \in SUBSET Int /\ \A k \in S : k \in i .. last /\ groups[k][1] = 1 /\ e[k] <= end
  BY <1>0, <1>1 DEF WholeOnes
<1>4. \A k \in i .. last : groups[k][1] = 1 /\ e[k] <= end => k \in S
  BY DEF WholeOnes
<1>5. \A k \in i .. N - 1 : groups[k][1] # groups[k + 1][1]
  BY DEF Situation
<1>6. e[last] \in Nat
  BY <1>0, <1>1
<1>7. \A k \in i .. last - 1 : e[k] \in Nat
  BY <1>0, <1>1
<1> HIDE DEF S, last
<1>8. CASE groups[last][1] = 1 /\ e[last] = end
  <2>1. last \in S
    BY <1>0, <1>1, <1>4, <1>6, <1>8
  <2>2. \A k \in S : k <= last
    BY <1>0, <1>1, <1>3
  <2>3. Max(S) = last
    BY <1>3, <2>1, <2>2, MaxIs
  <2> QED
    BY <1>0, <1>1, <1>8, <2>3 DEF S, last
<1>9. CASE groups[last][1] = 0
  <2>1. last - 1 \in i .. last - 1 /\ last - 1 \in i .. N - 1 /\ last - 1 + 1 = last
    BY <1>0, <1>1, <1>9
  <2>2. groups[last - 1][1] = 1
    BY <1>2, <1>5, <1>9, <2>1
  <2>3. last - 1 \in S
    <3>1. e[last - 1] < end /\ e[last - 1] \in Nat /\ last - 1 \in i .. last
      BY <1>0, <1>1, <1>7, <2>1
    <3>2. e[last - 1] <= end
      BY <3>1
    <3> QED
      BY <1>4, <2>2, <3>1, <3>2
  <2>4. \A k \in S : k <= last - 1
    <3> TAKE k \in S
    <3>1. k \in i .. last /\ k # last
      BY <1>3, <1>9
    <3> QED
      BY <1>0, <1>1, <3>1
  <2>5. Max(S) = last - 1
    BY <1>3, <2>3, <2>4, MaxIs
  <2> QED
    BY <1>0, <1>1, <2>1, <2>5 DEF S, last
<1>10. CASE groups[last][1] = 1 /\ e[last] # end
  <2>1. ~(e[last] <= end)
    BY <1>0, <1>6, <1>10
  <2>2. last \notin S
    BY <1>3, <2>1
  <2>3. last # i
    <3> SUFFICES ASSUME last = i PROVE FALSE
      OBVIOUS
    <3>1. PICK k \in S : TRUE
      BY DEF S, last
    <3>2. k = i
      BY <1>0, <1>1, <1>3
    <3> QED
      BY <2>2, <3>1, <3>2
  <2>4. last - 1 \in i .. last - 1 /\ last - 1 \in i .. N - 1 /\ last - 1 + 1 = last
    BY <1>0, <1>1, <2>3
  <2>5. groups[last - 1][1] = 0
    BY <1>0, <1>1, <1>2, <1>5, <1>10, <2>4
  <2>6. last - 2 \in i .. last - 1 /\ last - 2 \in i .. N - 1 /\ last - 2 + 1 = last - 1
    BY <1>0, <1>1, <2>4, <2>5
  <2>7. groups[last - 2][1] = 1
    BY <1>2, <1>5, <2>5, <2>6
  <2>8. last - 2 \in S
    <3>1. e[last - 2] < end /\ e[last - 2] \in Nat /\ last - 2 \in i .. last
      BY <1>0, <1>1, <1>7, <2>6
    <3>2. e[last - 2] <= end
      BY <3>1
    <3> QED
      BY <1>4, <2>7, <3>1, <3>2
  <2>9. \A k \in S : k <= last - 2
    <3> TAKE k \in S
    <3>1. k \in i .. last /\ k # last /\ k # last - 1
      BY <1>3, <2>2, <2>5
    <3> QED
      BY <1>0, <1>1, <3>1
  <2>10. Max(S) = last - 2
    BY <1>3, <2>8, <2>9, MaxIs
  <2> QED
    BY <1>0, <1>1, <2>5, <2>6, <2>10 DEF S, last
<1> QED
  BY <1>0, <1>2, <1>8, <1>9, <1>10

(* Looking bits up keeps the account of them.                                 *)
LEMMA LookedIsPassing ==
    ASSUME NEW width \in Nat, NEW unknown \in 0 .. Pow2[width] - 1, NEW known \in 0 .. Pow2[width] - 1,
           NEW n \in Nat, NEW s \in Passing(unknown, known, width, n), s.at < width,
           NEW end, end = Min({s.at + LookupBits, width}), NEW ends, ends = Ends(s.groups, s.i, s.at),
           s.groups[s.i][1] = 1,
           WholeOnes(s.groups, ends, s.i, Touched(s.groups, ends, s.i, end), end) # {},
           NEW after, after = Looked(unknown, known, width, s, ends, end)
    PROVE  after \in Passing(unknown, known, width, n) /\ after.i >= s.i + 1
<1> DEFINE F == Lowest("and", unknown, known)
           i == s.i
           at == s.at
           groups == s.groups
           N == Len(groups)
<1>1. PICK c, e : Situation(known, width, groups, i, at, c, e) /\ Covers(unknown, known, width, s, c)
  BY DEF Passing
<1>2. s \in Pass /\ N = n
  BY DEF Passing
<1>3. /\ N \in Nat /\ i \in 1 .. N + 1 /\ groups \in Seq(Group) /\ e \in [i - 1 .. N -> Nat]
      /\ e[i - 1] = at /\ e[N] = width /\ at \in Nat
      /\ c = at \/ (i <= N /\ groups[i][1] = 0 /\ at <= c /\ c <= e[i])
  BY <1>1 DEF Situation
<1>4. i <= N
  <2> SUFFICES ASSUME ~(i <= N) PROVE FALSE
    OBVIOUS
  <2>1. i - 1 = N
    BY <1>3
  <2> QED
    BY <1>3, <2>1
<1>5. c = at
  BY <1>3
<1>6. PICK bits \in 1 .. LookupBits :
          /\ at + bits <= width
          /\ bits = Min({LookupBits, width - at})
          /\ bits = LookupBits \/ at + bits = width
          /\ LookupPart("and", unknown, known, width, at) = F[width - at] - F[width - (at + bits)]
  <2>1. at \in 0 .. width - 1 /\ "and" \in Kinds
    BY <1>3 DEF Kinds
  <2> HIDE DEF F, at
  <2> QED
    BY SMTT(30), <2>1, LookupPartFacts DEF F
<1>7. end = at + bits /\ end \in Nat /\ at < end /\ end <= width
  <2>1. LookupBits \in Nat
    BY LookupAssumption
  <2>2. end = Min({at + LookupBits, width})
    OBVIOUS
  <2> HIDE DEF at
  <2>3. at + LookupBits \in Int /\ width \in Int
    BY <1>3, <2>1
  <2>4. end = IF at + LookupBits <= width THEN at + LookupBits ELSE width
    BY <2>2, <2>3, MinOfTwo
  <2>5. at \in Nat
    BY <1>3
  <2> QED
    BY ONLY <1>6, <2>1, <2>4, <2>5
<1>8. \A m \in i - 1 .. N : ends[m] = e[m]
  BY <1>1, EndsAre
<1> DEFINE last == Touched(groups, e, i, end)
<1>9. Touched(groups, ends, i, end) = last
  <2>1. {k \in i .. N : ends[k] >= end \/ k = N} = {k \in i .. N : e[k] >= end \/ k = N}
    <3>1. \A k \in i .. N : k \in i - 1 .. N
      BY <1>3
    <3> QED
      BY <1>8, <3>1
  <2> QED
    BY <2>1 DEF Touched
<1>10. last \in i .. N /\ e[last] >= end /\ e[last - 1] <= end /\ \A k \in i .. last - 1 : e[k] < end
  <2> HIDE DEF i, at, groups
  <2> QED
    BY <1>1, <1>4, <1>7, TouchedFacts DEF i, at, groups
<1>a. WholeOnes(groups, e, i, last, end) # {}
  <2>1. \A k \in i .. last : k \in i - 1 .. N
    BY SMTT(30), <1>3, <1>10
  <2>2. WholeOnes(groups, ends, i, last, end) = WholeOnes(groups, e, i, last, end)
    <3> HIDE DEF last
    <3> QED
      BY <1>8, <2>1 DEF WholeOnes
  <2> QED
    BY <1>9, <2>2
<1>b. LET region == Max(WholeOnes(groups, e, i, last, end))
      IN  /\ region \in i .. N
          /\ \/ region = last /\ e[last] = end
             \/ region = last - 1
             \/ region = last - 2 /\ groups[last - 1][1] = 0
  <2>1. groups[i][1] = 1
    OBVIOUS
  <2>2. Situation(known, width, groups, i, at, c, e) /\ i <= Len(groups) /\ end \in Nat /\ at < end /\ end <= width
    BY <1>1, <1>4, <1>7
  <2>3. WholeOnes(groups, e, i, Touched(groups, e, i, end), end) # {}
    BY <1>a
  <2> HIDE DEF i, at, groups
  <2> QED
    BY ONLY <2>1, <2>2, <2>3, RegionFacts
<1> HIDE DEF last
<1>11. last - 1 \in i - 1 .. N /\ last \in i - 1 .. N /\ last \in 1 .. N
  BY <1>3, <1>10
<1> DEFINE cut == end - e[last - 1]
           moved == Adjusted(groups, last, cut)
           whole == WholeOnes(groups, e, i, last, end)
           region == Max(whole)
           f == EndsAfter(e, i, N, last, end)
<1>12. WholeOnes(groups, ends, i, last, end) = whole
  <2>1. \A k \in i .. last : k \in i - 1 .. N
    BY SMTT(30), <1>3, <1>10
  <2> QED
    BY <1>8, <2>1 DEF WholeOnes
<1>13. groups[last][2] - (ends[last] - end) = cut
  <2>1. e[last] = e[last - 1] + groups[last][2]
    BY <1>1, <1>10 DEF Situation
  <2>2. ends[last] = e[last]
    BY <1>8, <1>11
  <2>3. e[last - 1] \in Nat /\ groups[last][2] \in Nat
    <3>1. groups[last] \in Group
      BY <1>3, <1>11
    <3> QED
      BY <1>3, <1>11, <3>1 DEF Group
  <2> DEFINE x == groups[last][2]
             y == e[last - 1]
  <2>4. x - ((y + x) - end) = end - y
    <3>1. x \in Int /\ y \in Int /\ end \in Int
      BY <1>7, <2>3
    <3> HIDE DEF x, y
    <3> QED
      BY <3>1
  <2> QED
    BY ONLY <2>1, <2>2, <2>4
<1>14. /\ region \in i .. N
       /\ \/ region = last /\ e[last] = end
          \/ region = last - 1
          \/ region = last - 2 /\ groups[last - 1][1] = 0
  BY <1>b
<1> HIDE DEF region
<1>c. moved = Adjusted(groups, last, end - e[last - 1])
  OBVIOUS
<1> HIDE DEF moved
<1>15. /\ cut \in Nat /\ moved \in Seq(Group) /\ Len(moved) = N
       /\ moved[last][2] = groups[last][2] - cut
       /\ \A m \in i .. N : f[m] = f[m - 1] + moved[m][2]
  <2>1. end \in Nat /\ i <= N /\ last \in i .. N /\ e[last] >= end /\ e[last - 1] <= end
    BY <1>4, <1>7, <1>10
  <2>2. Situation(known, width, groups, i, at, c, e)
    BY <1>1
  <2> HIDE DEF i, at, groups
  <2>3. LET g == EndsAfter(e, i, Len(groups), last, end)
        IN  /\ end - e[last - 1] \in Nat /\ end - e[last - 1] <= groups[last][2]
            /\ moved \in Seq(Group) /\ Len(moved) = Len(groups)
            /\ \A m \in 1 .. Len(groups) : moved[m][1] = groups[m][1]
            /\ moved[last][2] = groups[last][2] - (end - e[last - 1])
            /\ \A m \in i .. Len(groups) : g[m] = g[m - 1] + moved[m][2]
    BY ONLY <1>c, <2>1, <2>2, EndsAfterFacts, SMTT(60)
  <2> QED
    BY ONLY <2>3
<1>16. Situation(known, width, moved, region + 1, f[region], end, [m \in region .. N |-> f[m]])
  <2>1. end \in Nat /\ i <= N /\ last \in i .. N /\ e[last] >= end /\ e[last - 1] <= end /\ c <= end
    <3>1. c <= end
      <4> HIDE DEF at
      <4> QED
        BY <1>3, <1>5, <1>7
    <3> QED
      BY <1>4, <1>7, <1>10, <3>1
  <2>2. Situation(known, width, groups, i, at, c, e)
    BY <1>1
  <2>3. SituationAfter(known, width, N, i, e, last, end, moved, region)
    <3> HIDE DEF i, at, groups
    <3> QED
      BY ONLY <1>c, <1>14, <2>1, <2>2, AfterLookup
  <2> QED
    BY <2>3 DEF SituationAfter
<1>17. \A m \in i - 1 .. N : f[m] = IF m = last - 1 THEN end ELSE e[m]
  BY DEF EndsAfter
<1>18. \A m \in i .. N : m \in i - 1 .. N /\ m - 1 \in i - 1 .. N
  BY SMTT(30), <1>3
<1>19. f[region] \in Nat /\ region + 1 \in Nat
  <2>1. region + 1 \in Nat
    BY <1>3, <1>14
  <2>2. f[region] \in Nat
    BY <1>16 DEF Situation
  <2> QED
    BY <2>1, <2>2
<1>20. ends[region - 1] + moved[region][2] + (IF region >= last THEN cut ELSE 0) = f[region]
  <2>1. ends[region - 1] = e[region - 1] /\ f[region] = f[region - 1] + moved[region][2]
    BY <1>8, <1>14, <1>15, <1>18
  <2>2. e[region - 1] \in Nat /\ moved[region][2] \in Nat
    <3>1. region \in 1 .. N
      BY <1>3, <1>14
    <3>2. moved[region] \in Group
      BY <1>15, <3>1
    <3>3. region - 1 \in i - 1 .. N
      BY <1>14, <1>18
    <3> QED
      BY <1>3, <3>2, <3>3 DEF Group
  <2>3. CASE region = last /\ e[last] = end
    <3>1. region >= last
      BY <1>11, <2>3
    <3>2. moved[last][2] = groups[last][2] - cut /\ e[last] = e[last - 1] + groups[last][2]
      BY <1>1, <1>10, <1>15 DEF Situation
    <3>3. f[region] = end
      <4>1. last # last - 1
        BY <1>11
      <4> QED
        BY <1>11, <1>17, <2>3, <4>1
    <3> DEFINE x == groups[last][2]
               y == e[last - 1]
    <3>4. x \in Int /\ y \in Int
      <4>1. groups[last] \in Group
        BY <1>3, <1>11
      <4>2. x \in Int
        BY <4>1 DEF Group
      <4>3. y \in Int
        BY ONLY <1>3, <1>11
      <4> QED
        BY <4>2, <4>3
    <3>5. y + (x - cut) + cut = y + x
      <4>1. cut \in Int
        BY <1>15
      <4> HIDE DEF x, y, cut
      <4> QED
        BY <3>4, <4>1
    <3> QED
      BY ONLY <2>1, <2>3, <3>1, <3>2, <3>3, <3>5
  <2>4. CASE region = last - 1 \/ region = last - 2
    <3>1. ~(region >= last) /\ region - 1 # last - 1
      BY <1>11, <2>4
    <3>2. f[region - 1] = e[region - 1]
      BY <1>14, <1>17, <1>18, <3>1
    <3> DEFINE x == e[region - 1]
               y == moved[region][2]
    <3>3. x + y + 0 = x + y
      <4>1. x \in Int /\ y \in Int
        BY <2>2
      <4> HIDE DEF x, y
      <4> QED
        BY <4>1
    <3> QED
      BY ONLY <2>1, <3>1, <3>2, <3>3
  <2> QED
    BY <1>14, <2>3, <2>4
<1> DEFINE sum == s.sum + LookupPart("and", unknown, known, width, at)
<1>21. after = [groups |-> moved, i |-> region + 1, at |-> f[region], sum |-> sum]
  <2>1. after = LET cut1 == groups[last][2] - (ends[last] - end)
                    moved1 == Adjusted(groups, last, cut1)
                    region1 == Max(WholeOnes(groups, ends, i, last, end))
                IN  [groups |-> moved1, i |-> region1 + 1,
                     at |-> ends[region1 - 1] + moved1[region1][2] + (IF region1 >= last THEN cut1 ELSE 0),
                     sum |-> sum]
    <3>1. after = LET last1 == Touched(groups, ends, i, end)
                      cut1 == groups[last1][2] - (ends[last1] - end)
                      moved1 == Adjusted(groups, last1, cut1)
                      region1 == Max(WholeOnes(groups, ends, i, last1, end))
                  IN  [groups |-> moved1, i |-> region1 + 1,
                       at |-> ends[region1 - 1] + moved1[region1][2] + (IF region1 >= last1 THEN cut1 ELSE 0),
                       sum |-> sum]
      BY DEF Looked
    <3> HIDE DEF i, at, groups, sum
    <3> QED
      BY ONLY <3>1, <1>9
  <2> HIDE DEF sum, f, cut
  <2> QED
    BY <1>12, <1>13, <1>20, <2>1 DEF region, moved
<1>22. sum = F[width] - F[width - end] /\ sum \in Int
  <2>1. F \in [Nat -> Nat]
    <3>1. "and" \in Kinds /\ unknown \in Int /\ known \in Int
      BY PowRecursion DEF Kinds
    <3> QED
      BY <3>1, LowestRecursion
  <2>2. width - at \in Nat /\ width - end \in Nat
    <3>1. at \in Nat
      BY <1>3
    <3>2. width \in Nat /\ at < width
      OBVIOUS
    <3> HIDE DEF at
    <3> QED
      BY ONLY <1>7, <3>1, <3>2
  <2>3. s.sum = F[width] - F[width - at]
    BY <1>1, <1>5 DEF Covers
  <2> DEFINE x == F[width]
             y == F[width - at]
             z == F[width - end]
  <2>4. x \in Int /\ y \in Int /\ z \in Int
    <3> HIDE DEF F
    <3> QED
      BY <2>1, <2>2
  <2>5. (x - y) + (y - z) = x - z /\ x - z \in Int
    <3> HIDE DEF x, y, z
    <3> QED
      BY <2>4
  <2> HIDE DEF F
  <2> QED
    BY <1>6, <1>7, <2>3, <2>5
<1>23. after \in Pass
  <2> HIDE DEF moved, f, sum
  <2> QED
    BY <1>15, <1>19, <1>21, <1>22 DEF Pass
<1>24. Covers(unknown, known, width, after, end)
  <2> HIDE DEF sum
  <2> QED
    BY <1>21, <1>22 DEF Covers
<1>25. Situation(known, width, after.groups, after.i, after.at, end, [m \in region .. N |-> f[m]])
  <2> HIDE DEF moved, f, sum
  <2> QED
    BY <1>16, <1>21
<1>26. Len(after.groups) = n
  <2> HIDE DEF moved, f, sum
  <2> QED
    BY <1>2, <1>15, <1>21
<1>27. after.i >= s.i + 1
  <2>1. region + 1 >= i + 1
    BY <1>3, <1>14
  <2> HIDE DEF moved, f, sum
  <2> QED
    BY <1>21, <2>1
<1> QED
  BY <1>23, <1>24, <1>25, <1>26, <1>27 DEF Passing

(* What holds of the state while the groups are gone through.                 *)
LEMMA PassingFacts ==
    ASSUME NEW width \in Nat, NEW unknown \in 0 .. Pow2[width] - 1, NEW known \in 0 .. Pow2[width] - 1,
           NEW n \in Nat, NEW s \in Passing(unknown, known, width, n)
    PROVE  /\ s \in Pass /\ Len(s.groups) = n /\ s.i \in 1 .. n + 1
           /\ s.at < width => s.i <= n
           /\ s.at >= width \/ s.i > n => s.sum = Lowest("and", unknown, known)[width]
<1> DEFINE F == Lowest("and", unknown, known)
           N == Len(s.groups)
<1>1. PICK c, e : Situation(known, width, s.groups, s.i, s.at, c, e) /\ Covers(unknown, known, width, s, c)
  BY DEF Passing
<1>2. s \in Pass /\ N = n
  BY DEF Passing
<1>3. /\ N \in Nat /\ s.i \in 1 .. N + 1 /\ e \in [s.i - 1 .. N -> Nat]
      /\ e[s.i - 1] = s.at /\ e[N] = width /\ s.at \in Nat /\ c \in Nat
      /\ c = s.at \/ (s.i <= N /\ s.groups[s.i][1] = 0 /\ s.at <= c /\ c <= e[s.i])
  BY <1>1 DEF Situation
<1>4. s.at <= width
  <2>1. s.i - 1 \in s.i - 1 .. N /\ N \in s.i - 1 .. N /\ s.i - 1 <= N
    BY <1>3
  <2>2. e[s.i - 1] <= e[N]
    BY <1>1, <2>1, EndsIncrease
  <2> QED
    BY <1>3, <2>2
<1>5. s.i > N => s.at = width
  <2> SUFFICES ASSUME s.i > N PROVE s.at = width
    OBVIOUS
  <2>1. s.i - 1 = N
    BY <1>3
  <2> QED
    BY <1>3, <2>1
<1>6. s.at = width => c = width
  <2> SUFFICES ASSUME s.at = width, c # s.at PROVE FALSE
    OBVIOUS
  <2>1. s.i <= N /\ s.at <= c /\ c <= e[s.i] /\ s.i \in s.i - 1 .. N /\ N \in s.i - 1 .. N
    BY <1>3
  <2>2. e[s.i] <= e[N]
    BY <1>1, <2>1, EndsIncrease
  <2>3. e[s.i] \in Nat
    BY <1>3, <2>1
  <2> QED
    BY <1>3, <2>1, <2>2, <2>3
<1>7. c = width => s.sum = F[width]
  <2>1. width - width = 0
    OBVIOUS
  <2>2. F[0] = 0 /\ F[width] \in Int
    <3>1. "and" \in Kinds /\ unknown \in Int /\ known \in Int
      BY PowRecursion DEF Kinds
    <3>2. F \in [Nat -> Nat] /\ F[0] = 0
      BY <3>1, LowestRecursion
    <3> HIDE DEF F
    <3> QED
      BY <3>2
  <2> DEFINE x == F[width]
  <2>3. x - 0 = x
    <3> HIDE DEF x
    <3> QED
      BY <2>2 DEF x
  <2> HIDE DEF F
  <2> QED
    BY <1>1, <2>1, <2>2, <2>3 DEF Covers, F
<1>8. s.at >= width \/ s.i > N => s.at = width
  BY <1>3, <1>4, <1>5
<1>9. s.at < width => s.i <= N
  BY <1>3, <1>5
<1> QED
  BY <1>2, <1>3, <1>6, <1>7, <1>8, <1>9

(* A step of the pass accounts for the bits it goes over, and no others.      *)
LEMMA PassKeeps ==
    ASSUME NEW width \in Nat, NEW unknown \in 0 .. Pow2[width] - 1, NEW known \in 0 .. Pow2[width] - 1,
           NEW n \in Nat, NEW s \in Passing(unknown, known, width, n), NEW lookups
    PROVE  LET after == AndPass(unknown, known, width, lookups, s)
           IN  /\ after \in Passing(unknown, known, width, n)
               /\ s.at < width => after.i >= s.i + 1
               /\ s.at >= width => after = s
<1> DEFINE F == Lowest("and", unknown, known)
           after == AndPass(unknown, known, width, lookups, s)
           N == Len(s.groups)
<1>1. s \in Pass /\ N = n /\ s.i \in 1 .. n + 1 /\ (s.at < width => s.i <= n)
  BY PassingFacts
<1>2. CASE s.at >= width
  <2>1. ~(s.at < width)
    BY <1>1, <1>2 DEF Pass
  <2>2. after = s
    BY <1>2, <2>1 DEF AndPass
  <2> QED
    BY <2>1, <2>2
<1>3. ASSUME s.at < width PROVE after \in Passing(unknown, known, width, n) /\ after.i >= s.i + 1
  <2>1. PICK c, e : Situation(known, width, s.groups, s.i, s.at, c, e) /\ Covers(unknown, known, width, s, c)
    BY DEF Passing
  <2>2. s.i <= N
    BY <1>1, <1>3
  <2> DEFINE i == s.i
             at == s.at
             groups == s.groups
             M == Len(groups)
             length == groups[i][2]
             h == [m \in i .. M |-> e[m]]
  <2>3. /\ e[i] = at + length /\ groups[i] \in Group /\ e[i] \in Nat /\ e[i] <= width
        /\ at <= c /\ c <= e[i]
        /\ Situation(known, width, groups, i + 1, e[i], e[i], h)
    <3>1. Situation(known, width, groups, i, at, c, e) /\ i <= Len(groups)
      BY <2>1, <2>2
    <3> HIDE DEF i, at, groups
    <3> QED
      BY ONLY <3>1, NextGroup
  <2>4. /\ c \in Nat /\ at \in Nat /\ i \in Nat /\ i \in i .. M /\ e[i - 1] = at
        /\ c = at \/ groups[i][1] = 0
        /\ \A b \in Nat : e[i - 1] <= b /\ c <= b /\ b < e[i] => BitAt(known, width - 1 - b) = groups[i][1]
    <3>1. i \in i .. M /\ i \in Nat
      BY <1>1, <2>2
    <3>2. c \in Nat /\ at \in Nat /\ e[i - 1] = at
      BY <2>1 DEF Situation
    <3>3. c = at \/ groups[i][1] = 0
      BY <2>1 DEF Situation
    <3>4. \A b \in Nat : e[i - 1] <= b /\ c <= b /\ b < e[i] => BitAt(known, width - 1 - b) = groups[i][1]
      BY <2>1, <3>1 DEF Situation
    <3> QED
      BY <3>1, <3>2, <3>3, <3>4
  <2>5. F \in [Nat -> Nat]
    <3>1. "and" \in Kinds /\ unknown \in Int /\ known \in Int
      BY PowRecursion DEF Kinds
    <3> QED
      BY <3>1, LowestRecursion
  <2>6. width - e[i] \in Nat /\ width - c \in Nat /\ width - e[i] <= width - c
    <3> HIDE DEF i
    <3> QED
      BY SMTT(30), <2>3, <2>4
  <2>7. \A p \in width - e[i] .. width - c - 1 : BitAt(known, p) = groups[i][1]
    <3> TAKE p \in width - e[i] .. width - c - 1
    <3> DEFINE b == width - 1 - p
               x == e[i]
    <3>1. x \in Nat /\ c \in Nat /\ x <= width /\ at <= c /\ at \in Nat
      BY <2>3, <2>4
    <3>2. b \in Nat /\ at <= b /\ c <= b /\ b < x /\ width - 1 - b = p
      <4>1. p \in width - x .. width - c - 1
        OBVIOUS
      <4> HIDE DEF x, at
      <4> QED
        BY <3>1, <4>1
    <3> HIDE DEF b
    <3> QED
      BY <2>4, <3>2
  <2>8. unknown \in Int /\ known \in Int
    BY PowRecursion
  <2>9. CASE groups[i][1] = 0 /\ after = [s EXCEPT !.i = @ + 1, !.at = @ + length]
    <3>1. F[width - c] = F[width - e[i]]
      <4>1. \A p \in width - e[i] .. width - c - 1 : BitAt(known, p) = 0
        BY <2>7, <2>9
      <4> DEFINE lo == width - e[i]
                 hi == width - c
      <4>2. lo \in Nat /\ hi \in Nat /\ lo <= hi /\ \A p \in lo .. hi - 1 : BitAt(known, p) = 0
        BY <2>6, <4>1
      <4> HIDE DEF lo, hi
      <4>3. F[hi] = F[lo]
        BY <2>8, <4>2, AndWithZeros
      <4> QED
        BY <4>3 DEF lo, hi
    <3>2. after \in Pass /\ after.groups = groups /\ after.i = i + 1 /\ after.at = e[i] /\ after.sum = s.sum
      <4>1. after = [s EXCEPT !.i = i + 1, !.at = e[i]]
        BY ONLY <2>3, <2>9
      <4>2. i + 1 \in Nat /\ e[i] \in Nat
        BY <2>3, <2>4
      <4> HIDE DEF after
      <4> QED
        BY ONLY <1>1, <4>1, <4>2 DEF Pass
    <3>3. Covers(unknown, known, width, after, e[i])
      BY <2>1, <3>1, <3>2 DEF Covers
    <3>4. Situation(known, width, after.groups, after.i, after.at, e[i], h) /\ Len(after.groups) = n
      BY ONLY <1>1, <2>3, <3>2
    <3>5. after.i >= s.i + 1
      BY <2>4, <3>2
    <3> HIDE DEF after, h
    <3> QED
      BY ONLY <3>2, <3>3, <3>4, <3>5 DEF Passing
  <2>10. CASE /\ groups[i][1] = 1
              /\ after = [s EXCEPT !.i = @ + 1, !.at = @ + length,
                                   !.sum = @ + Extract(unknown, width, at, length, TRUE)]
    <3> DEFINE lo == width - e[i]
               hi == width - c
    <3>1. F[hi] - F[lo] = (unknown % Pow2[hi]) - (unknown % Pow2[lo])
      <4>1. lo \in Nat /\ hi \in Nat /\ lo <= hi /\ \A p \in lo .. hi - 1 : BitAt(known, p) = 1
        BY <2>6, <2>7, <2>10
      <4> HIDE DEF lo, hi
      <4> QED
        BY <2>8, <4>1, AndWithOnes
    <3>2. c = at
      BY <2>4, <2>10
    <3>3. Extract(unknown, width, at, length, TRUE) = (unknown % Pow2[hi]) - (unknown % Pow2[lo])
      <4>1. length \in Nat /\ at + length <= width
        BY <2>3 DEF Group
      <4>2. Extract(unknown, width, at, length, TRUE)
              = (unknown % Pow2[width - at]) - (unknown % Pow2[width - (at + length)])
        <5>1. at \in Nat
          BY <2>4
        <5> HIDE DEF at, length
        <5> QED
          BY <4>1, <5>1, ExtractInPlace
      <4>3. hi = width - at /\ lo = width - (at + length)
        BY <2>3, <3>2
      <4> QED
        BY <4>2, <4>3
    <3> DEFINE x == F[width]
               y == F[hi]
               z == F[lo]
    <3>4. x \in Int /\ y \in Int /\ z \in Int
      <4> HIDE DEF F
      <4> QED
        BY <2>5, <2>6
    <3>5. (x - y) + (y - z) = x - z /\ x - z \in Int
      <4> HIDE DEF x, y, z
      <4> QED
        BY <3>4
    <3>6. s.sum + Extract(unknown, width, at, length, TRUE) = x - z
      <4>1. s.sum = x - y
        BY <2>1 DEF Covers
      <4>2. Extract(unknown, width, at, length, TRUE) = y - z
        BY <3>1, <3>3
      <4> QED
        BY ONLY <3>5, <4>1, <4>2
    <3>7. /\ after \in Pass /\ after.groups = groups /\ after.i = i + 1 /\ after.at = e[i]
          /\ after.sum = x - z
      <4> DEFINE sum == s.sum + Extract(unknown, width, at, length, TRUE)
      <4>1. after = [s EXCEPT !.i = i + 1, !.at = e[i], !.sum = sum]
        BY ONLY <2>3, <2>10
      <4>2. sum = x - z /\ sum \in Int
        BY <3>5, <3>6
      <4>3. i + 1 \in Nat /\ e[i] \in Nat
        BY <2>3, <2>4
      <4> HIDE DEF sum, after, x, z
      <4> QED
        BY ONLY <1>1, <4>1, <4>2, <4>3 DEF Pass
    <3>8. Covers(unknown, known, width, after, e[i])
      <4> HIDE DEF after
      <4> QED
        BY <3>7 DEF Covers
    <3>9. Situation(known, width, after.groups, after.i, after.at, e[i], h) /\ Len(after.groups) = n
      BY ONLY <1>1, <2>3, <3>7
    <3>10. after.i >= s.i + 1
      BY <2>4, <3>7
    <3> HIDE DEF after, h
    <3> QED
      BY ONLY <3>7, <3>8, <3>9, <3>10 DEF Passing
  <2> DEFINE end   == Min({s.at + LookupBits, width})
             ends  == Ends(s.groups, s.i, s.at)
             whole == WholeOnes(s.groups, ends, s.i, Touched(s.groups, ends, s.i, end), end)
  <2>11. CASE groups[i][1] = 1 /\ whole # {} /\ after = Looked(unknown, known, width, s, ends, end)
    <3>1. end = Min({s.at + LookupBits, width}) /\ ends = Ends(s.groups, s.i, s.at)
      OBVIOUS
    <3>2. whole = WholeOnes(s.groups, ends, s.i, Touched(s.groups, ends, s.i, end), end)
      OBVIOUS
    <3>3. s.groups[s.i][1] = 1
      BY <2>11
    <3> HIDE DEF end, ends, after, whole
    <3>4. after \in Passing(unknown, known, width, n) /\ after.i >= s.i + 1
      BY <1>3, <2>11, <3>1, <3>2, <3>3, LookedIsPassing
    <3> QED
      BY <3>4
  <2> QED
    <3>1. ~(s.at >= width) /\ s.groups[s.i] \in Group
      BY <1>1, <1>3, <2>3 DEF Pass
    <3>2. \/ s.at >= width /\ after = s
          \/ /\ s.at < width /\ s.groups[s.i][1] = 0
             /\ after = [s EXCEPT !.i = @ + 1, !.at = @ + s.groups[s.i][2]]
          \/ /\ s.at < width /\ s.groups[s.i][1] = 1 /\ whole # {}
             /\ after = Looked(unknown, known, width, s, ends, end)
          \/ /\ s.at < width /\ s.groups[s.i][1] = 1
             /\ after = [s EXCEPT !.i = @ + 1, !.at = @ + s.groups[s.i][2],
                                  !.sum = @ + Extract(unknown, width, s.at, s.groups[s.i][2], TRUE)]
      <4>1. s \in Pass /\ width \in Nat
        BY <1>1
      <4>2. PassOutcome(unknown, known, width, s, after)
        BY ONLY <3>1, <4>1, PassCases
      <4> HIDE DEF after
      <4> QED
        BY <4>2 DEF PassOutcome
    <3> HIDE DEF after, end, ends, whole
    <3> QED
      BY <2>9, <2>10, <2>11, <3>1, <3>2
<1> QED
  BY <1>1, <1>2, <1>3 DEF Pass

(* The groups of the first n bits.                                            *)
Longer(groups, bit) ==
    IF groups # << >> /\ groups[Len(groups)][1] = bit
    THEN [groups EXCEPT ![Len(groups)][2] = @ + 1] ELSE Append(groups, <<bit, 1>>)

EndsOf(known, width, n, groups, e) ==
    /\ e \in [0 .. Len(groups) -> Nat]
    /\ e[0] = 0 /\ e[Len(groups)] = n
    /\ \A m \in 1 .. Len(groups) : e[m] = e[m - 1] + groups[m][2]
    /\ \A m \in 1 .. Len(groups) : \A b \in Nat :
           e[m - 1] <= b /\ b < e[m] => BitAt(known, width - 1 - b) = groups[m][1]

GroupsOf(known, width, n, groups) ==
    /\ groups \in Seq(Group)
    /\ \A m \in 1 .. Len(groups) - 1 : groups[m][1] # groups[m + 1][1]
    /\ \E e : EndsOf(known, width, n, groups, e)

(* One more bit makes the last group longer or starts another.                *)
LEMMA LongerFacts ==
    ASSUME NEW known, NEW width \in Nat, NEW n \in Nat, NEW groups, GroupsOf(known, width, n, groups),
           NEW bit \in {0, 1}, bit = BitAt(known, width - 1 - n)
    PROVE  GroupsOf(known, width, n + 1, Longer(groups, bit))
<1> DEFINE N == Len(groups)
           longer == Longer(groups, bit)
<1>1. PICK e : EndsOf(known, width, n, groups, e)
  BY DEF GroupsOf
<1>2. /\ N \in Nat /\ groups \in Seq(Group) /\ \A m \in 1 .. N : groups[m] \in Group
      /\ \A m \in 1 .. N - 1 : groups[m][1] # groups[m + 1][1]
  BY DEF GroupsOf
<1>3. /\ e \in [0 .. N -> Nat] /\ e[0] = 0 /\ e[N] = n
      /\ \A m \in 1 .. N : e[m] = e[m - 1] + groups[m][2]
      /\ \A m \in 1 .. N : \A b \in Nat :
             e[m - 1] <= b /\ b < e[m] => BitAt(known, width - 1 - b) = groups[m][1]
  BY <1>1 DEF EndsOf
<1>4. CASE groups # << >> /\ groups[N][1] = bit
  <2>1. N \in 1 .. N
    BY <1>2, <1>4
  <2>2. groups[N] \in Group /\ groups[N] = <<groups[N][1], groups[N][2]>> /\ groups[N][2] \in Nat
    BY <1>2, <2>1 DEF Group
  <2>3. longer = [groups EXCEPT ![N] = <<groups[N][1], groups[N][2] + 1>>]
    <3>1. longer = [groups EXCEPT ![N][2] = @ + 1]
      BY <1>4 DEF Longer
    <3>2. [groups[N] EXCEPT ![2] = groups[N][2] + 1] = <<groups[N][1], groups[N][2] + 1>>
      BY <2>2
    <3> QED
      BY <3>1, <3>2
  <2>4. <<groups[N][1], groups[N][2] + 1>> \in Group
    BY <2>2 DEF Group
  <2>5. longer \in Seq(Group) /\ Len(longer) = N
    <3> DEFINE x == <<groups[N][1], groups[N][2] + 1>>
    <3>1. x \in Group /\ longer = [groups EXCEPT ![N] = x] /\ groups \in Seq(Group)
      BY <1>2, <2>3, <2>4
    <3> HIDE DEF x, longer
    <3> QED
      BY ONLY <2>1, <3>1
  <2>6. /\ \A m \in 1 .. N : m # N => longer[m] = groups[m]
        /\ longer[N] = <<groups[N][1], groups[N][2] + 1>>
        /\ \A m \in 1 .. N : longer[m][1] = groups[m][1]
    BY <1>2, <2>1, <2>3
  <2> HIDE DEF longer
  <2> DEFINE f == [e EXCEPT ![N] = n + 1]
  <2>7. f \in [0 .. N -> Nat] /\ f[0] = 0 /\ f[N] = n + 1 /\ \A m \in 1 .. N : f[m - 1] = e[m - 1]
    BY <1>2, <1>3, <2>1
  <2>8. \A m \in 1 .. N : m # N => f[m] = e[m]
    BY <1>2, <1>3
  <2> HIDE DEF f
  <2>9. \A m \in 1 .. N : f[m] = f[m - 1] + longer[m][2]
    <3> TAKE m \in 1 .. N
    <3>1. CASE m = N
      <4>0. N - 1 \in 0 .. N
        BY <1>2, <2>1
      <4>1. e[N] = e[N - 1] + groups[N][2] /\ e[N - 1] \in Nat /\ groups[N][2] \in Nat
        BY <1>3, <2>1, <2>2, <4>0
      <4>2. f[N] = n + 1 /\ f[N - 1] = e[N - 1] /\ longer[N][2] = groups[N][2] + 1 /\ e[N] = n
        BY <1>3, <2>1, <2>6, <2>7
      <4> DEFINE x == e[N - 1]
                 y == groups[N][2]
      <4>3. (x + y) + 1 = x + (y + 1)
        <5>1. x \in Int /\ y \in Int
          BY <4>1
        <5> HIDE DEF x, y
        <5> QED
          BY <5>1
      <4> QED
        BY ONLY <3>1, <4>1, <4>2, <4>3
    <3>2. CASE m # N
      BY <1>3, <2>6, <2>7, <2>8, <3>2
    <3> QED
      BY <3>1, <3>2
  <2>10. \A m \in 1 .. N : \A b \in Nat :
             f[m - 1] <= b /\ b < f[m] => BitAt(known, width - 1 - b) = longer[m][1]
    <3> TAKE m \in 1 .. N
    <3> TAKE b \in Nat
    <3> SUFFICES ASSUME f[m - 1] <= b, b < f[m] PROVE BitAt(known, width - 1 - b) = longer[m][1]
      OBVIOUS
    <3>1. CASE m = N /\ b = n
      BY <1>4, <2>6, <3>1
    <3>2. CASE m = N /\ b # n
      <4>1. b < n
        BY <2>7, <3>2
      <4> QED
        BY <1>3, <2>6, <2>7, <3>2, <4>1
    <3>3. CASE m # N
      BY <1>3, <2>6, <2>7, <2>8, <3>3
    <3> QED
      BY <3>1, <3>2, <3>3
  <2>11. \A m \in 1 .. N - 1 : longer[m][1] # longer[m + 1][1]
    <3> TAKE m \in 1 .. N - 1
    <3>1. m \in 1 .. N /\ m + 1 \in 1 .. N
      BY <1>2
    <3> QED
      BY <1>2, <2>6, <3>1
  <2>12. EndsOf(known, width, n + 1, longer, f)
    BY <2>5, <2>7, <2>9, <2>10 DEF EndsOf
  <2> QED
    BY <2>5, <2>11, <2>12 DEF GroupsOf, longer
<1>5. CASE ~(groups # << >> /\ groups[N][1] = bit)
  <2>1. longer = Append(groups, <<bit, 1>>)
    BY <1>5 DEF Longer
  <2>2. <<bit, 1>> \in Group
    BY DEF Group
  <2>3. /\ longer \in Seq(Group) /\ Len(longer) = N + 1
        /\ \A m \in 1 .. N : longer[m] = groups[m]
        /\ longer[N + 1] = <<bit, 1>>
    <3> DEFINE x == <<bit, 1>>
    <3>1. x \in Group /\ longer = Append(groups, x) /\ groups \in Seq(Group)
      BY <1>2, <2>1, <2>2
    <3> HIDE DEF x, longer
    <3>2. /\ longer \in Seq(Group) /\ Len(longer) = N + 1
          /\ \A m \in 1 .. N : longer[m] = groups[m]
          /\ longer[N + 1] = x
      BY ONLY <3>1
    <3> QED
      BY <3>2 DEF x
  <2> HIDE DEF longer
  <2> DEFINE f == [m \in 0 .. N + 1 |-> IF m <= N THEN e[m] ELSE n + 1]
  <2>4. /\ f \in [0 .. N + 1 -> Nat] /\ f[0] = 0 /\ f[N + 1] = n + 1
        /\ \A m \in 0 .. N : f[m] = e[m]
    BY <1>2, <1>3
  <2> HIDE DEF f
  <2>5. \A m \in 1 .. N + 1 : f[m] = f[m - 1] + longer[m][2]
    <3> TAKE m \in 1 .. N + 1
    <3>1. CASE m = N + 1
      <4>1. N \in 0 .. N /\ m - 1 = N
        BY <1>2, <3>1
      <4>2. longer[m][2] = 1 /\ f[m - 1] = n /\ f[m] = n + 1
        BY <1>3, <2>3, <2>4, <3>1, <4>1
      <4> QED
        BY <4>2
    <3>2. CASE m # N + 1
      <4>1. m \in 1 .. N /\ m \in 0 .. N /\ m - 1 \in 0 .. N
        BY <1>2, <3>2
      <4> QED
        BY <1>3, <2>3, <2>4, <4>1
    <3> QED
      BY <3>1, <3>2
  <2>6. \A m \in 1 .. N + 1 : \A b \in Nat :
             f[m - 1] <= b /\ b < f[m] => BitAt(known, width - 1 - b) = longer[m][1]
    <3> TAKE m \in 1 .. N + 1
    <3> TAKE b \in Nat
    <3> SUFFICES ASSUME f[m - 1] <= b, b < f[m] PROVE BitAt(known, width - 1 - b) = longer[m][1]
      OBVIOUS
    <3>1. CASE m = N + 1
      <4>1. N \in 0 .. N /\ m - 1 = N
        BY <1>2, <3>1
      <4>2. longer[m][1] = bit /\ f[m - 1] = n /\ f[m] = n + 1
        BY <1>3, <2>3, <2>4, <3>1, <4>1
      <4>3. b = n
        BY <4>2
      <4>4. BitAt(known, width - 1 - b) = bit
        BY <4>3
      <4> QED
        BY <4>2, <4>4
    <3>2. CASE m # N + 1
      <4>1. m \in 1 .. N /\ m \in 0 .. N /\ m - 1 \in 0 .. N
        BY <1>2, <3>2
      <4>2. f[m] = e[m] /\ f[m - 1] = e[m - 1] /\ longer[m] = groups[m]
        BY <2>3, <2>4, <4>1
      <4>3. e[m - 1] <= b /\ b < e[m]
        BY <4>2
      <4>4. BitAt(known, width - 1 - b) = groups[m][1]
        BY <1>3, <4>1, <4>3
      <4> QED
        BY <4>2, <4>4
    <3> QED
      BY <3>1, <3>2
  <2>7. \A m \in 1 .. N : longer[m][1] # longer[m + 1][1]
    <3> TAKE m \in 1 .. N
    <3>1. CASE m = N
      <4>1. groups # << >> /\ N \in 1 .. N
        BY <1>2
      <4>2. groups[N][1] # bit
        BY <1>5, <4>1
      <4> QED
        BY <2>3, <3>1, <4>1, <4>2
    <3>2. CASE m # N
      <4>1. m \in 1 .. N - 1 /\ m + 1 \in 1 .. N
        BY <1>2, <3>2
      <4> QED
        BY <1>2, <2>3, <4>1
    <3> QED
      BY <3>1, <3>2
  <2>8. N + 1 - 1 = N
    BY <1>2
  <2>9. EndsOf(known, width, n + 1, longer, f)
    BY <2>3, <2>4, <2>5, <2>6 DEF EndsOf
  <2> QED
    BY <2>3, <2>7, <2>8, <2>9 DEF GroupsOf, longer
<1> QED
  BY <1>4, <1>5

GroupsSoFar(known, width) ==
    CHOOSE f : f = [n \in 0 .. width |->
                       IF n = 0 THEN << >> ELSE Longer(f[n - 1], Extract(known, width, n - 1, 1, FALSE))]

(* The groups of equal bits cover the known operand.                          *)
LEMMA BitGroupsFacts ==
    ASSUME NEW width \in Nat, NEW known \in 0 .. Pow2[width] - 1
    PROVE  GroupsOf(known, width, width, BitGroups(known, width))
<1> DEFINE V == Seq(Group)
           bit(n) == Extract(known, width, n, 1, FALSE)
           label(n) == IF n < width THEN bit(n) ELSE 0
           step == [n \in Nat |-> [v \in V |-> Longer(v, label(n))]]
           D == 0 .. width
<1>1. \A n \in 0 .. width - 1 : bit(n) = BitAt(known, width - 1 - n) /\ bit(n) \in {0, 1}
  <2> TAKE n \in 0 .. width - 1
  <2>1. bit(n) = BitAt(known, width - n - 1)
    BY ExtractOne
  <2> DEFINE p == width - n - 1
  <2>2. p \in Nat /\ known \in Int /\ p = width - 1 - n
    BY PowRecursion
  <2> HIDE DEF p
  <2>3. BitAt(known, p) \in {0, 1}
    BY <2>2, BitType
  <2> QED
    BY <2>1, <2>2, <2>3 DEF p
<1>2. \A v \in V : \A b \in {0, 1} : Longer(v, b) \in V
  <2> TAKE v \in V
  <2> TAKE b \in {0, 1}
  <2>1. CASE v # << >> /\ v[Len(v)][1] = b
    <3> DEFINE N == Len(v)
               x == [v[N] EXCEPT ![2] = @ + 1]
    <3>1. N \in 1 .. N /\ v[N] \in Group
      BY <2>1
    <3>2. x \in Group
      BY <3>1 DEF Group
    <3>3. Longer(v, b) = [v EXCEPT ![N] = x]
      BY <2>1 DEF Longer
    <3> HIDE DEF x
    <3> QED
      BY <3>1, <3>2, <3>3
  <2>2. CASE ~(v # << >> /\ v[Len(v)][1] = b)
    <3>1. Longer(v, b) = Append(v, <<b, 1>>)
      BY <2>2 DEF Longer
    <3>2. <<b, 1>> \in Group
      BY DEF Group
    <3> QED
      BY <3>1, <3>2
  <2> QED
    BY <2>1, <2>2
<1>3. step \in [Nat -> [V -> V]] /\ << >> \in V
  <2>1. \A n \in Nat : label(n) \in {0, 1}
    <3> HIDE DEF bit
    <3> QED
      BY <1>1
  <2> HIDE DEF V, label
  <2>2. << >> \in V
    BY DEF V
  <2> QED
    BY <1>2, <2>1, <2>2
<1>4. PICK f \in [Nat -> V] : f[0] = << >> /\ \A n \in Nat : f[n + 1] = step[n][f[n]]
  <2> HIDE DEF step, V
  <2>1. Recursive(V, << >>, step)
    BY <1>3, RecursionExists
  <2> QED
    BY <2>1 DEF Recursive
<1> DEFINE g == [n \in D |-> f[n]]
           body(h, n) == IF n = 0 THEN << >> ELSE Longer(h[n - 1], bit(n - 1))
<1>5. g = [n \in D |-> body(g, n)]
  <2>1. ASSUME NEW n \in D PROVE g[n] = body(g, n)
    <3>1. CASE n = 0
      BY <1>4, <3>1
    <3>2. CASE n # 0
      <4> DEFINE k == n - 1
      <4>1. k \in Nat /\ k \in D /\ k < width /\ k + 1 = n
        BY <3>2
      <4>2. f[k + 1] = step[k][f[k]] /\ f[k] \in V
        <5> HIDE DEF k, step
        <5> QED
          BY <1>4, <4>1
      <4>3. step[k][f[k]] = Longer(f[k], bit(k))
        <5> HIDE DEF k, V
        <5> QED
          BY <4>1, <4>2
      <4>4. g[n] = f[n] /\ g[k] = f[k]
        BY <4>1
      <4> HIDE DEF g, step
      <4> QED
        BY <3>2, <4>1, <4>2, <4>3, <4>4
    <3> QED
      BY <3>1, <3>2
  <2>2. DOMAIN g = D /\ g = [n \in DOMAIN g |-> g[n]]
    OBVIOUS
  <2> HIDE DEF g, body, D
  <2> QED
    BY <2>1, <2>2
<1> DEFINE so == GroupsSoFar(known, width)
<1>6. so = [n \in D |-> body(so, n)]
  <2> HIDE DEF g
  <2> QED
    BY <1>5 DEF GroupsSoFar
<1> HIDE DEF so
<1> DEFINE T == {n \in Nat : n <= width => GroupsOf(known, width, n, so[n])}
<1>7. 0 \in T
  <2>1. so[0] = << >>
    BY <1>6
  <2>2. EndsOf(known, width, 0, << >>, [m \in 0 .. 0 |-> 0])
    BY DEF EndsOf
  <2>3. << >> \in Seq(Group) /\ \A m \in 1 .. Len(<< >>) - 1 : FALSE
    OBVIOUS
  <2>4. GroupsOf(known, width, 0, << >>)
    BY <2>2, <2>3 DEF GroupsOf
  <2> QED
    BY <2>1, <2>4
<1>8. ASSUME NEW n \in Nat, n \in T PROVE n + 1 \in T
  <2> SUFFICES ASSUME n + 1 <= width PROVE GroupsOf(known, width, n + 1, so[n + 1])
    OBVIOUS
  <2> DEFINE k == n + 1
             b == bit(n)
  <2>1. k \in D /\ k # 0 /\ k - 1 = n /\ n \in 0 .. width - 1 /\ n <= width
    OBVIOUS
  <2>2. so[k] = Longer(so[n], b)
    <3>1. so[k] = body(so, k)
      <4> HIDE DEF k, body
      <4> QED
        BY <1>6, <2>1
    <3> HIDE DEF k
    <3> QED
      BY <2>1, <3>1
  <2>3. GroupsOf(known, width, n, so[n])
    BY <1>8, <2>1
  <2>4. b \in {0, 1} /\ b = BitAt(known, width - 1 - n)
    BY <1>1, <2>1
  <2> HIDE DEF b
  <2>5. GroupsOf(known, width, n + 1, Longer(so[n], b))
    BY <2>3, <2>4, LongerFacts
  <2> QED
    BY <2>2, <2>5
<1> HIDE DEF T
<1>9. \A n \in Nat : n \in T
  BY <1>7, <1>8, Induction
<1>10. BitGroups(known, width) = GroupsSoFar(known, width)[width]
  BY DEF BitGroups, GroupsSoFar, Longer
<1> QED
  BY <1>9, <1>10 DEF T, so

(* The pass starts with every bit still to be accounted for.                  *)
LEMMA FirstPass ==
    ASSUME NEW width \in Nat, NEW unknown \in 0 .. Pow2[width] - 1, NEW known \in 0 .. Pow2[width] - 1
    PROVE  LET groups == BitGroups(known, width)
           IN  [groups |-> groups, i |-> 1, at |-> 0, sum |-> 0] \in Passing(unknown, known, width, Len(groups))
<1> DEFINE groups == BitGroups(known, width)
           N == Len(groups)
           s == [groups |-> groups, i |-> 1, at |-> 0, sum |-> 0]
           zero == 0
<1>1. GroupsOf(known, width, width, groups)
  BY BitGroupsFacts
<1> HIDE DEF groups
<1>2. PICK e : EndsOf(known, width, width, groups, e)
  BY <1>1 DEF GroupsOf
<1>3. groups \in Seq(Group) /\ N \in Nat /\ \A m \in 1 .. N - 1 : groups[m][1] # groups[m + 1][1]
  BY <1>1 DEF GroupsOf
<1>4. Situation(known, width, groups, 1, 0, 0, e)
  <2>1. e \in [1 - 1 .. N -> Nat] /\ e[1 - 1] = 0 /\ e[N] = width
    BY <1>2 DEF EndsOf
  <2>2. \A m \in 1 .. N : e[m] = e[m - 1] + groups[m][2]
    BY <1>2 DEF EndsOf
  <2>3. \A m \in 1 .. N : \A b \in Nat :
           e[m - 1] <= b /\ b < e[m] => BitAt(known, width - 1 - b) = groups[m][1]
    BY <1>2 DEF EndsOf
  <2>4. 1 \in 1 .. N + 1
    BY <1>3
  <2> QED
    BY <1>3, <2>1, <2>2, <2>3, <2>4 DEF Situation
<1>5. Covers(unknown, known, width, s, 0)
  <2> DEFINE F == Lowest("and", unknown, known)
             x == F[width]
  <2>1. "and" \in Kinds /\ unknown \in Int /\ known \in Int
    BY PowRecursion DEF Kinds
  <2>2. F \in [Nat -> Nat]
    BY <2>1, LowestRecursion
  <2>3. x \in Int
    <3> HIDE DEF F
    <3> QED
      BY <2>2
  <2>4. x - x = 0
    <3> HIDE DEF x
    <3> QED
      BY <2>3
  <2>5. width - 0 = width
    OBVIOUS
  <2> QED
    BY <2>4, <2>5 DEF Covers
<1>6. s \in Pass
  BY <1>3 DEF Pass
<1> QED
  BY <1>4, <1>5, <1>6 DEF Passing, groups

Passes(unknown, known, width, lookups, first) ==
    CHOOSE f : f = [n \in Nat |-> IF n = 0 THEN first ELSE AndPass(unknown, known, width, lookups, f[n - 1])]

(* And with a constant, for every choice of what to look up.                  *)
LEMMA AndKnownIsLowest ==
    ASSUME NEW width \in Nat, NEW unknown \in 0 .. Pow2[width] - 1, NEW known \in 0 .. Pow2[width] - 1,
           NEW lookups
    PROVE  AndKnown(unknown, known, width, lookups) = Lowest("and", unknown, known)[width]
<1> DEFINE groups == BitGroups(known, width)
           N == Len(groups)
           first == [groups |-> groups, i |-> 1, at |-> 0, sum |-> 0]
           V == Passing(unknown, known, width, N)
           pass(s) == AndPass(unknown, known, width, lookups, s)
           step == [n \in Nat |-> [s \in V |-> pass(s)]]
<1>1. N \in Nat
  <2>1. GroupsOf(known, width, width, groups)
    BY BitGroupsFacts
  <2>2. groups \in Seq(Group)
    BY <2>1 DEF GroupsOf
  <2> HIDE DEF groups
  <2> QED
    BY <2>2
<1>2. first \in V
  BY FirstPass
<1>a. first.groups = groups
  OBVIOUS
<1> HIDE DEF groups, first
<1>3. \A s \in V : pass(s) \in V /\ (s.at < width => pass(s).i >= s.i + 1) /\ (s.at >= width => pass(s) = s)
  BY <1>1, PassKeeps
<1>4. step \in [Nat -> [V -> V]]
  <2> HIDE DEF V, pass
  <2> QED
    BY <1>3
<1>5. PICK f \in [Nat -> V] : f[0] = first /\ \A n \in Nat : f[n + 1] = step[n][f[n]]
  <2> HIDE DEF step, V
  <2>1. Recursive(V, first, step)
    BY <1>2, <1>4, RecursionExists
  <2> QED
    BY <2>1 DEF Recursive
<1>6. f = [n \in Nat |-> IF n = 0 THEN first ELSE pass(f[n - 1])]
  <2>1. ASSUME NEW n \in Nat PROVE f[n] = IF n = 0 THEN first ELSE pass(f[n - 1])
    <3>1. CASE n = 0
      BY <1>5, <3>1
    <3>2. CASE n # 0
      <4> DEFINE k == n - 1
      <4>1. k \in Nat /\ k + 1 = n
        BY <3>2
      <4> HIDE DEF k
      <4>2. f[n] = step[k][f[k]] /\ f[k] \in V
        <5> HIDE DEF step, V
        <5> QED
          BY <1>5, <4>1
      <4>3. step[k][f[k]] = pass(f[k])
        <5> HIDE DEF V, pass
        <5> QED
          BY <4>1, <4>2
      <4> HIDE DEF pass, step
      <4> QED
        BY <3>2, <4>2, <4>3 DEF k
    <3> QED
      BY <3>1, <3>2
  <2>2. f = [n \in Nat |-> f[n]]
    BY <1>5
  <2> HIDE DEF pass, V
  <2> QED
    BY <2>1, <2>2
<1> DEFINE so == Passes(unknown, known, width, lookups, first)
<1>7. so = [n \in Nat |-> IF n = 0 THEN first ELSE pass(so[n - 1])]
  BY <1>6 DEF Passes
<1> HIDE DEF so
<1> DEFINE T == {n \in Nat : so[n] \in V /\ (so[n].at >= width \/ so[n].i >= n + 1)}
<1>8. 0 \in T
  <2>1. so[0] = first
    BY <1>7
  <2>2. first.i = 1
    BY DEF first
  <2> QED
    BY <1>2, <2>1, <2>2
<1>9. ASSUME NEW n \in Nat, n \in T PROVE n + 1 \in T
  <2> DEFINE s == so[n]
             t == so[n + 1]
  <2>1. t = pass(s)
    <3>1. n + 1 \in Nat /\ n + 1 # 0 /\ n + 1 - 1 = n
      OBVIOUS
    <3> HIDE DEF pass
    <3> QED
      BY <1>7, <3>1
  <2>2. s \in V /\ (s.at >= width \/ s.i >= n + 1)
    BY <1>9
  <2>3. t \in V /\ (s.at < width => t.i >= s.i + 1) /\ (s.at >= width => t = s)
    <3> HIDE DEF pass, s, t, V
    <3> QED
      BY <1>3, <2>1, <2>2
  <2>4. s.at \in Nat /\ s.i \in Nat /\ t.i \in Nat
    <3>1. s \in Pass /\ t \in Pass
      BY <2>2, <2>3 DEF Passing
    <3> HIDE DEF s, t
    <3> QED
      BY <3>1 DEF Pass
  <2>5. t.at >= width \/ t.i >= (n + 1) + 1
    <3> HIDE DEF s, t, V
    <3> QED
      BY <2>2, <2>3, <2>4
  <2> HIDE DEF V
  <2> QED
    BY <2>3, <2>5
<1> HIDE DEF T
<1>10. N \in T
  <2>1. \A n \in Nat : n \in T
    BY <1>8, <1>9, Induction
  <2> QED
    BY <1>1, <2>1
<1> DEFINE r == so[N]
<1>11. r.sum = Lowest("and", unknown, known)[width]
  <2>1. r \in V /\ (r.at >= width \/ r.i >= N + 1)
    BY <1>10 DEF T
  <2> HIDE DEF r
  <2>2. r.i \in Nat
    BY <2>1 DEF Passing, Pass
  <2>3. r.at >= width \/ r.i > N
    BY <1>1, <2>1, <2>2
  <2> QED
    BY <1>1, <2>1, <2>3, PassingFacts
<1>12. AndKnown(unknown, known, width, lookups) = so[N].sum
  BY <1>a DEF AndKnown, Passes, so, first, groups
<1> QED
  BY <1>11, <1>12

(* Or and xor with a constant.                                                *)
LEMMA OrKnownIsLowest ==
    ASSUME NEW width \in Nat, NEW unknown \in 0 .. Pow2[width] - 1, NEW known \in 0 .. Pow2[width] - 1,
           NEW lookups, NEW viaAnd \in BOOLEAN
    PROVE  OrKnown(unknown, known, width, lookups, viaAnd) = Lowest("or", unknown, known)[width]
<1>1. "or" \in Kinds /\ unknown \in Int /\ Pow2[width] \in Nat
  BY PowRecursion DEF Kinds
<1>2. CASE viaAnd
  <2> DEFINE rest == Pow2[width] - 1 - known
  <2>1. rest \in 0 .. Pow2[width] - 1
    BY <1>1
  <2>2. AndKnown(unknown, rest, width, lookups) = Lowest("and", unknown, rest)[width]
    <3> HIDE DEF rest
    <3> QED
      BY <2>1, AndKnownIsLowest
  <2>3. Lowest("or", unknown, known)[width] = Lowest("and", unknown, rest)[width] + known
    BY <1>1, OrByAnd
  <2> QED
    BY <1>2, <2>2, <2>3 DEF OrKnown
<1>3. CASE ~viaAnd
  BY <1>1, <1>3, LookupKnownIsLowest DEF OrKnown
<1> QED
  BY <1>2, <1>3

(* Xor with a known operand is right by either way the compiler has for it.   *)
LEMMA XorKnownIsLowest ==
    ASSUME NEW width \in Nat, NEW unknown \in 0 .. Pow2[width] - 1, NEW known \in 0 .. Pow2[width] - 1,
           NEW lookups, NEW viaAnd \in BOOLEAN
    PROVE  XorKnown(unknown, known, width, lookups, viaAnd) = Lowest("xor", unknown, known)[width]
<1> DEFINE A == Lowest("and", unknown, known)
           x == A[width]
<1>1. "xor" \in Kinds /\ "and" \in Kinds /\ unknown \in Int /\ known \in Int /\ Pow2[width] \in Nat \ {0}
  BY PowRecursion, PowPositive DEF Kinds
<1>2. x \in Int
  <2>1. A \in [Nat -> Nat]
    BY <1>1, LowestRecursion
  <2> HIDE DEF A
  <2> QED
    BY <2>1
<1>3. Lowest("xor", unknown, known)[width] = unknown + known - 2 * x
  <2>1. unknown % Pow2[width] = unknown /\ known % Pow2[width] = known
    <3> DEFINE p == Pow2[width]
    <3>1. p \in Nat \ {0} /\ unknown \in 0 .. p - 1 /\ known \in 0 .. p - 1
      BY <1>1
    <3> HIDE DEF p
    <3>2. unknown % p = unknown /\ known % p = known
      BY <3>1, Small
    <3> QED
      BY <3>2 DEF p
  <2>2. Lowest("xor", unknown, known)[width]
          = (unknown % Pow2[width]) + (known % Pow2[width]) - 2 * Lowest("and", unknown, known)[width]
    BY <1>1, XorByAnd
  <2> QED
    BY <2>1, <2>2
<1>4. CASE known = Pow2[width] - 1
  <2>1. x = unknown
    <3> DEFINE zero == 0
               G == Lowest("and", unknown, known)
    <3>1. \A i \in zero .. width - 1 : BitAt(known, i) = 1
      <4> TAKE i \in zero .. width - 1
      <4>1. BitAt(Pow2[width] - 1 - 0, i) = 1 - BitAt(0, i)
        <5> DEFINE v == 0
        <5>1. v \in 0 .. Pow2[width] - 1 /\ i \in Nat /\ i < width
          BY <1>1
        <5> HIDE DEF v
        <5>2. BitAt(Pow2[width] - 1 - v, i) = 1 - BitAt(v, i)
          BY <5>1, BitOfComplement
        <5> QED
          BY <5>2 DEF v
      <4>2. BitAt(0, i) = 0
        <5> DEFINE v == 0
                   n == 0
        <5>1. Pow2[n] = 1 /\ n \in Nat /\ v \in 0 .. Pow2[n] - 1 /\ i \in Nat /\ n <= i
          BY PowRecursion
        <5> HIDE DEF v, n
        <5>2. BitAt(v, i) = 0
          BY <5>1, BitAbove
        <5> QED
          BY <5>2 DEF v
      <4>3. Pow2[width] - 1 - 0 = known
        BY <1>1, <1>4
      <4> QED
        BY <4>1, <4>2, <4>3
    <3>2. G[width] - G[zero] = (unknown % Pow2[width]) - (unknown % Pow2[zero])
      <4>1. zero \in Nat /\ zero <= width
        OBVIOUS
      <4> HIDE DEF zero
      <4> QED
        BY <1>1, <3>1, <4>1, AndWithOnes
    <3>3. G[0] = 0 /\ Pow2[0] = 1
      BY <1>1, LowestRecursion, PowRecursion
    <3>4. unknown % Pow2[width] = unknown
      <4> DEFINE p == Pow2[width]
      <4>1. p \in Nat \ {0} /\ unknown \in 0 .. p - 1
        BY <1>1
      <4> HIDE DEF p
      <4>2. unknown % p = unknown
        BY <4>1, Small
      <4> QED
        BY <4>2 DEF p
    <3>5. unknown % 1 = 0
      BY <1>1
    <3>6. x - 0 = unknown - 0
      BY <3>2, <3>3, <3>4, <3>5
    <3> HIDE DEF x
    <3> QED
      BY <1>1, <1>2, <3>6
  <2>2. XorKnown(unknown, known, width, lookups, viaAnd) = known - unknown
    BY <1>4 DEF XorKnown
  <2> HIDE DEF x
  <2> QED
    BY <1>1, <1>3, <2>1, <2>2
<1>5. CASE known # Pow2[width] - 1 /\ viaAnd
  <2>1. XorKnown(unknown, known, width, lookups, viaAnd) = unknown - 2 * x + known
    BY <1>5, AndKnownIsLowest DEF XorKnown
  <2> HIDE DEF x
  <2> QED
    BY <1>1, <1>2, <1>3, <2>1
<1>6. CASE known # Pow2[width] - 1 /\ ~viaAnd
  BY <1>1, <1>6, LookupKnownIsLowest DEF XorKnown
<1> QED
  BY <1>4, <1>5, <1>6
=============================================================================
