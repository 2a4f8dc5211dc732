---------------------------- MODULE RegistersProofs ---------------------------
(* Registers proved for every width of integer, every operand and every       *)
(* size of part that a double has room for, where the code does not depart    *)
(* from LLVM in a way that Deviation names:                                   *)
(*   RegisterHolds      the invariant;                                        *)
(*   TypeCorrect        the parts are those of the type, each in its range;   *)
(*   NumberIsRight      together they are the number LLVM says;               *)
(*   ProductsAreExact   no product is rounded by the double it is in.         *)
(* The lemmas go up from numbers: digits and carries, parts of a number,      *)
(* division, bits, sums, shifts, products, comparisons, conversions; then     *)
(* what each instruction may leave (Outcomes), that it is right (IsExact),    *)
(* and the steps of Registers.                                                *)
EXTENDS Registers, BitMasksProofs, SequenceTheorems

(* The numbers of bits are such that a part, and a little more, fits a double. *)
LEMMA Positive ==
    /\ PartBits \in Nat \ {0} /\ DoubleBits \in Nat /\ PartBits + 3 <= DoubleBits
    /\ Pow2[PartBits] \in Nat \ {0}
BY BitsAssumption, PowPositive

(* The remainder of a number not far out of range.                            *)
LEMMA NearResidue ==
    ASSUME NEW m \in Nat \ {0}, NEW a \in Int, -m <= a, a < 2 * m
    PROVE  a % m = IF a < 0 THEN a + m ELSE IF a >= m THEN a - m ELSE a
<1>1. CASE a < 0
  <2> DEFINE x == a + m
             k == -1
  <2>1. x \in 0 .. m - 1 /\ k \in Int /\ x \in Int
    BY <1>1
  <2>2. x + m * k = a
    OBVIOUS
  <2> HIDE DEF x, k
  <2>3. (x + m * k) % m = x % m
    BY <2>1, SameRemainder
  <2>4. x % m = x
    BY <2>1, Small
  <2> QED
    BY <1>1, <2>2, <2>3, <2>4 DEF x
<1>2. CASE a >= m
  <2> DEFINE x == a - m
             k == 1
  <2>1. x \in 0 .. m - 1 /\ k \in Int /\ x \in Int
    BY <1>2
  <2>2. x + m * k = a
    OBVIOUS
  <2> HIDE DEF x, k
  <2>3. (x + m * k) % m = x % m
    BY <2>1, SameRemainder
  <2>4. x % m = x
    BY <2>1, Small
  <2> QED
    BY <1>2, <2>2, <2>3, <2>4 DEF x
<1>3. CASE 0 <= a /\ a < m
  <2>1. a \in 0 .. m - 1
    BY <1>3
  <2>2. a % m = a
    BY <2>1, Small
  <2> QED
    BY <1>3, <2>2
<1> QED
  BY <1>1, <1>2, <1>3

(* mod by a power of two is %.                                                *)
LEMMA ModIs ==
    ASSUME NEW a \in Int, NEW m \in Nat \ {0}
    PROVE  Mod(a, m) = a % m
BY DEF Mod

-----------------------------------------------------------------------------
(* Sums and differences of one part.                                         *)

LEMMA WrapIs ==
    ASSUME NEW op \in {"add", "sub"}, NEW m \in Nat \ {0}, NEW sum \in Int, NEW faster \in BOOLEAN,
           -m <= sum, sum < 2 * m, ~faster => (IF op = "add" THEN 0 <= sum ELSE sum < m)
    PROVE  Wrap(op, sum, m, faster) = sum % m
<1>1. sum % m = IF sum < 0 THEN sum + m ELSE IF sum >= m THEN sum - m ELSE sum
  BY NearResidue
<1> DEFINE r == sum % m
<1>2. r = IF sum < 0 THEN sum + m ELSE IF sum >= m THEN sum - m ELSE sum
  BY <1>1
<1>3. CASE faster
  BY <1>3, ModIs DEF Wrap
<1>4. CASE ~faster /\ op = "add"
  <2>1. Wrap(op, sum, m, faster) = sum - m * Number(sum > m - 1)
    BY <1>4 DEF Wrap
  <2>2. sum - m * Number(sum > m - 1) = r
    <3>1. CASE sum > m - 1
      <4>1. sum >= m /\ ~(sum < 0) /\ Number(sum > m - 1) = 1
        BY <3>1 DEF Number
      <4>2. sum - m * 1 = sum - m
        OBVIOUS
      <4> HIDE DEF r
      <4> QED
        BY <1>2, <4>1, <4>2
    <3>2. CASE ~(sum > m - 1)
      <4>1. ~(sum >= m) /\ ~(sum < 0) /\ Number(sum > m - 1) = 0
        BY <1>4, <3>2 DEF Number
      <4>2. sum - m * 0 = sum
        OBVIOUS
      <4> HIDE DEF r
      <4> QED
        BY <1>2, <4>1, <4>2
    <3> QED
      BY <3>1, <3>2
  <2> QED
    BY <2>1, <2>2
<1>5. CASE ~faster /\ op = "sub"
  <2>1. Wrap(op, sum, m, faster) = sum + m * Number(sum < 0)
    BY <1>5 DEF Wrap
  <2>2. sum + m * Number(sum < 0) = r
    <3>1. CASE sum < 0
      <4>1. Number(sum < 0) = 1
        BY <3>1 DEF Number
      <4>2. sum + m * 1 = sum + m
        OBVIOUS
      <4> HIDE DEF r
      <4> QED
        BY <1>2, <3>1, <4>1, <4>2
    <3>2. CASE ~(sum < 0)
      <4>1. ~(sum >= m) /\ Number(sum < 0) = 0
        BY <1>5, <3>2 DEF Number
      <4>2. sum + m * 0 = sum
        OBVIOUS
      <4> HIDE DEF r
      <4> QED
        BY <1>2, <3>2, <4>1, <4>2
    <3> QED
      BY <3>1, <3>2
  <2> QED
    BY <2>1, <2>2
<1> QED
  BY <1>3, <1>4, <1>5

(* Every form in which a constant is written gives the sum, but for an        *)
(* addition to a constant whose complement is shorter.                        *)
LEMMA SumDiffIs ==
    ASSUME NEW op \in {"add", "sub"}, NEW m \in Nat \ {0}, NEW l \in 0 .. m - 1, NEW r \in 0 .. m - 1,
           NEW known \in {"none", "left", "right"}, NEW faster \in BOOLEAN,
           ~(op = "add" /\ known = "left" /\ ShorterText(m - l, l))
    PROVE  SumDiff(op, l, r, m, known, faster) = Apply(op, l, r) % m
<1> DEFINE e == Minify(op, l, r, known, m, faster)
           a == Apply(op, l, r)
<1>1. a \in Int /\ -m <= a /\ a < 2 * m /\ (IF op = "add" THEN 0 <= a ELSE a < m)
  BY DEF Apply
<1>2. CASE e = <<op, l, r>>
  <2>1. SumDiff(op, l, r, m, known, faster) = Wrap(op, a, m, faster)
    BY <1>2 DEF SumDiff
  <2> HIDE DEF a
  <2> QED
    BY <1>1, <2>1, WrapIs DEF a
<1>3. CASE e # <<op, l, r>>
  <2>1. CASE op = "add" /\ known = "right"
    <3> DEFINE b == l - (m - r)
               sub == "sub"
    <3>1. e = <<"sub", l, m - r>>
      BY <1>3, <2>1 DEF Minify
    <3>2. SumDiff(op, l, r, m, known, faster) = Wrap(sub, b, m, faster)
      BY <3>1 DEF SumDiff, Apply
    <3>3. b \in Int /\ -m <= b /\ b < m /\ b < 2 * m /\ sub \in {"add", "sub"} /\ sub # "add"
      OBVIOUS
    <3>4. b + m * 1 = a
      BY <2>1 DEF Apply
    <3> HIDE DEF a, b, sub
    <3>5. Wrap(sub, b, m, faster) = b % m
      BY <3>3, WrapIs
    <3>6. (b + m * 1) % m = b % m
      <4> DEFINE k == 1
      <4>1. k \in Int
        OBVIOUS
      <4> HIDE DEF k
      <4>2. (b + m * k) % m = b % m
        BY <3>3, <4>1, SameRemainder
      <4> QED
        BY <4>2 DEF k
    <3> QED
      BY <3>2, <3>4, <3>5, <3>6 DEF a
  <2>2. CASE op = "sub" /\ known = "right"
    <3> DEFINE b == l + (m - r)
               add == "add"
    <3>1. e = <<"add", l, m - r>>
      BY <1>3, <2>2 DEF Minify
    <3>2. SumDiff(op, l, r, m, known, faster) = Wrap(add, b, m, faster)
      BY <3>1 DEF SumDiff, Apply
    <3>3. b \in Int /\ -m <= b /\ 0 <= b /\ b < 2 * m /\ add \in {"add", "sub"} /\ add = "add"
      OBVIOUS
    <3>4. a + m * 1 = b
      BY <2>2 DEF Apply
    <3> HIDE DEF a, b, add
    <3>5. Wrap(add, b, m, faster) = b % m
      BY <3>3, WrapIs
    <3>6. (a + m * 1) % m = a % m
      <4> DEFINE k == 1
      <4>1. k \in Int
        OBVIOUS
      <4> HIDE DEF k
      <4>2. (a + m * k) % m = a % m
        BY <1>1, <4>1, SameRemainder
      <4> QED
        BY <4>2 DEF k
    <3> QED
      BY <3>2, <3>4, <3>5, <3>6 DEF a
  <2>3. CASE op = "sub" /\ known = "left"
    <3> DEFINE b == (l - m) - r
    <3>0. ~ShorterText(l, l)
      <4> DEFINE n == Len(ToString(l))
      <4>1. ShorterText(l, l) <=> n < n
        BY DEF ShorterText
      <4> QED
        BY <4>1
    <3>a. faster
      BY <1>3, <2>3, <3>0 DEF Minify
    <3>1. e = <<"sub", l - m, r>>
      BY <1>3, <2>3, <3>0, <3>a DEF Minify
    <3>2. SumDiff(op, l, r, m, known, faster) = Mod(b, m)
      <4>1. SumDiff(op, l, r, m, known, faster) = Wrap("sub", b, m, faster)
        <5> HIDE DEF e
        <5>1. SumDiff(op, l, r, m, known, faster) = Wrap(e[1], Apply(e[1], e[2], e[3]), m, faster)
          BY DEF SumDiff, e
        <5>2. Apply("sub", l - m, r) = b
          BY DEF Apply
        <5> HIDE DEF b
        <5> QED
          BY <3>1, <5>1, <5>2
      <4> HIDE DEF b
      <4> QED
        BY <3>a, <4>1 DEF Wrap
    <3>3. b \in Int /\ b + m * 1 = a
      BY <2>3 DEF Apply
    <3> HIDE DEF a, b
    <3>4. Mod(b, m) = b % m
      BY <3>3, ModIs
    <3>5. (b + m * 1) % m = b % m
      <4> DEFINE k == 1
      <4>1. k \in Int
        OBVIOUS
      <4> HIDE DEF k
      <4>2. (b + m * k) % m = b % m
        BY <3>3, <4>1, SameRemainder
      <4> QED
        BY <4>2 DEF k
    <3> QED
      BY <3>2, <3>3, <3>4, <3>5 DEF a
  <2>4. CASE op = "add" /\ known = "left"
    <3>1. e = <<op, l, r>>
      BY <2>4 DEF Minify
    <3> QED
      BY <1>3, <3>1
  <2>5. CASE known = "none"
    <3>1. e = <<op, l, r>>
      BY <2>5 DEF Minify
    <3> QED
      BY <1>3, <3>1
  <2> QED
    BY <2>1, <2>2, <2>3, <2>4, <2>5
<1> QED
  BY <1>2, <1>3

-----------------------------------------------------------------------------
(* The sign of a number.                                                     *)

LEMMA SignedFacts ==
    ASSUME NEW w \in Nat \ {0}, NEW v \in 0 .. Pow2[w] - 1
    PROVE  /\ Pow2[w - 1] \in Nat \ {0} /\ Pow2[w] = 2 * Pow2[w - 1]
           /\ Signed(v, w) \in -Pow2[w - 1] .. Pow2[w - 1] - 1
           /\ Signed(v, w) = IF v < Pow2[w - 1] THEN v ELSE v - Pow2[w]
           /\ Signed(v, w) < 0 <=> ~(v < Pow2[w - 1])
           /\ Signed(v, w) % Pow2[w] = v
<1> DEFINE h == Pow2[w - 1]
           m == Pow2[w]
           s == Signed(v, w)
<1>1. h \in Nat \ {0} /\ m \in Nat \ {0} /\ m = 2 * h
  BY PowHalf
<1>2. s = IF v >= h THEN v - m ELSE v
  BY DEF Signed
<1>3. v \in 0 .. m - 1
  OBVIOUS
<1> HIDE DEF h, m, s
<1>4. /\ s \in -h .. h - 1
      /\ s = IF v < h THEN v ELSE v - m
      /\ s < 0 <=> ~(v < h)
      /\ s \in Int /\ -m <= s /\ s < 2 * m
  BY <1>1, <1>2, <1>3
<1>5. s % m = IF s < 0 THEN s + m ELSE IF s >= m THEN s - m ELSE s
  BY <1>1, <1>4, NearResidue
<1>6. s % m = v
  <2> DEFINE x == s % m
  <2>1. x = IF s < 0 THEN s + m ELSE IF s >= m THEN s - m ELSE s
    BY <1>5
  <2> HIDE DEF x
  <2>2. x = v
    BY <1>1, <1>2, <1>3, <1>4, <2>1
  <2> QED
    BY <2>2 DEF x
<1> QED
  BY <1>1, <1>4, <1>6 DEF h, m, s

(* mod by a negative number.                                                  *)
LEMMA NegativeMod ==
    ASSUME NEW m \in Nat \ {0}, NEW a \in 1 .. 2 * m
    PROVE  Mod(a, -m) = IF a <= m THEN a - m ELSE a - 2 * m
<1> DEFINE b == -a
           k == IF a <= m THEN 1 ELSE 2
           c == IF a <= m THEN m - a ELSE 2 * m - a
<1>1. Mod(a, -m) = -(b % m)
  <2>1. ~(-m > 0) /\ -(-m) = m
    OBVIOUS
  <2> QED
    BY <2>1 DEF Mod
<1>2. b \in Int /\ k \in Int /\ c \in 0 .. m - 1 /\ b + m * k = c
  <2>1. CASE a <= m
    BY <2>1
  <2>2. CASE ~(a <= m)
    BY <2>2
  <2> QED
    BY <2>1, <2>2
<1>3. -c = IF a <= m THEN a - m ELSE a - 2 * m
  OBVIOUS
<1> HIDE DEF b, k, c
<1>4. (b + m * k) % m = b % m
  BY <1>2, SameRemainder
<1>5. c % m = c
  BY <1>2, Small
<1> QED
  BY <1>1, <1>2, <1>3, <1>4, <1>5

(* The ways of telling the sign from the stored number.                       *)
LEMMA UndoIsSigned ==
    ASSUME NEW w \in Nat \ {0}, NEW v \in 0 .. Pow2[w] - 1
    PROVE  /\ Mod(v + Pow2[w - 1] + 1, -Pow2[w]) + Pow2[w - 1] - 1 = Signed(v, w)
           /\ Reversed(v, w) = 2 * (Signed(v, w) - Pow2[w - 1] + 1)
           /\ ReversedHalf(v, w) = Reversed(v, w) - 1
<1> DEFINE h == Pow2[w - 1]
           m == Pow2[w]
           m2 == Pow2[w + 1]
           s == Signed(v, w)
           a == v + h + 1
           c == 2 * v + m + 1
<1>1. h \in Nat \ {0} /\ m \in Nat \ {0} /\ m = 2 * h /\ m2 \in Nat \ {0} /\ m2 = 2 * m
  BY PowHalf, PowRecursion
<1>2. s = IF v < h THEN v ELSE v - m
  BY SignedFacts
<1>3. a \in 1 .. 2 * m /\ c \in 1 .. 2 * m2
  <2>1. v \in 0 .. m - 1
    OBVIOUS
  <2> HIDE DEF h, m, m2
  <2> QED
    BY <1>1, <2>1
<1>4. Reversed(v, w) = 2 * Mod(a, -m) /\ ReversedHalf(v, w) = Mod(c, -m2)
  BY DEF Reversed, ReversedHalf
<1> DEFINE x == Mod(a, -m)
           y == Mod(c, -m2)
<1>5. x = IF a <= m THEN a - m ELSE a - 2 * m
  <2> HIDE DEF a, m
  <2> QED
    BY <1>1, <1>3, NegativeMod
<1>6. y = IF c <= m2 THEN c - m2 ELSE c - 2 * m2
  <2> HIDE DEF c, m2
  <2> QED
    BY <1>1, <1>3, NegativeMod
<1>7. v \in 0 .. m - 1
  OBVIOUS
<1> HIDE DEF h, m, m2, s, x, y
<1>8. x + h - 1 = s /\ 2 * x = 2 * (s - h + 1) /\ y = 2 * x - 1
  BY <1>1, <1>2, <1>5, <1>6, <1>7
<1>9. Reversed(v, w) = 2 * x /\ ReversedHalf(v, w) = y
  BY <1>4 DEF x, y
<1>10. /\ x + h - 1 = s
       /\ Reversed(v, w) = 2 * (s - h + 1)
       /\ ReversedHalf(v, w) = Reversed(v, w) - 1
  BY <1>8, <1>9
<1> QED
  BY <1>10 DEF x, h, m, s

(* The comparisons of one part.                                               *)
LEMMA ICmpIs ==
    ASSUME NEW w \in Nat \ {0}, NEW l \in 0 .. Pow2[w] - 1, NEW r \in 0 .. Pow2[w] - 1, NEW cond \in Conds,
           NEW known \in {"none", "left", "right"}, NEW compilerOpt \in BOOLEAN
    PROVE  ICmp(cond, l, r, w, known, compilerOpt) <=> Compares(cond, l, r, w)
<1> DEFINE h == Pow2[w - 1]
           sl == Signed(l, w)
           sr == Signed(r, w)
           rl == Reversed(l, w)
           rr == Reversed(r, w)
           el == ReversedHalf(l, w)
           er == ReversedHalf(r, w)
<1>1. rl = 2 * (sl - h + 1) /\ rr = 2 * (sr - h + 1) /\ el = rl - 1 /\ er = rr - 1
  BY UndoIsSigned
<1>2. sl \in Int /\ sr \in Int /\ h \in Int /\ l \in Int /\ r \in Int
  BY SignedFacts, PowHalf
<1>3. CASE cond \in {"eq", "ne", "ugt", "ult", "uge", "ule"}
  BY <1>2, <1>3 DEF ICmp, Compares
<1>4. CASE cond \in {"sgt", "slt"}
  <2>1. ICmp(cond, l, r, w, known, compilerOpt) <=> (IF cond = "sgt" THEN rl > rr ELSE rl < rr)
    BY <1>4 DEF ICmp
  <2>2. Compares(cond, l, r, w) <=> (IF cond = "sgt" THEN sl > sr ELSE sl < sr)
    BY <1>4 DEF Compares
  <2> HIDE DEF h, sl, sr, rl, rr
  <2> QED
    BY <1>1, <1>2, <1>4, <2>1, <2>2
<1>5. CASE cond = "sge"
  <2>1. ICmp(cond, l, r, w, known, compilerOpt)
          <=> (IF known = "none" /\ compilerOpt THEN rl > er
               ELSE IF known = "left" THEN rl + 2 > rr
               ELSE IF known = "right" THEN rl > rr - 2 ELSE ~(rl < rr))
    BY <1>5 DEF ICmp
  <2>2. Compares(cond, l, r, w) <=> sl >= sr
    BY <1>5 DEF Compares
  <2> HIDE DEF h, sl, sr, rl, rr, er, el
  <2> QED
    BY <1>1, <1>2, <2>1, <2>2
<1>6. CASE cond = "sle"
  <2>1. ICmp(cond, l, r, w, known, compilerOpt)
          <=> (IF known = "none" /\ compilerOpt THEN el < rr
               ELSE IF known = "left" THEN rl - 2 < rr
               ELSE IF known = "right" THEN rl < rr + 2 ELSE ~(rl > rr))
    BY <1>6 DEF ICmp
  <2>2. Compares(cond, l, r, w) <=> sl <= sr
    BY <1>6 DEF Compares
  <2> HIDE DEF h, sl, sr, rl, rr, er, el
  <2> QED
    BY <1>1, <1>2, <2>1, <2>2
<1> QED
  BY <1>3, <1>4, <1>5, <1>6 DEF Conds, SignedConds, UnsignedConds

-----------------------------------------------------------------------------
(* Division.                                                                 *)

Magnitude(a) == IF a < 0 THEN -a ELSE a

(* Division that truncates, by the signs of the operands.                     *)
LEMMA TruncatedFacts ==
    ASSUME NEW a \in Int, NEW n \in Int, n # 0
    PROVE  /\ Truncated(a, n) = IF (a < 0) = (n < 0) THEN Magnitude(a) \div Magnitude(n)
                                ELSE -(Magnitude(a) \div Magnitude(n))
           /\ Truncated(a, n) \in Int
<1>1. Magnitude(a) \in Int /\ Magnitude(n) \in Nat \ {0}
  BY DEF Magnitude
<1>2. Truncated(a, n) = IF (a < 0) = (n < 0) THEN Magnitude(a) \div Magnitude(n)
                        ELSE -(Magnitude(a) \div Magnitude(n))
  BY DEF Truncated, Magnitude
<1>3. Magnitude(a) \div Magnitude(n) \in Int
  <2> DEFINE x == Magnitude(a)
             y == Magnitude(n)
  <2> HIDE DEF x, y
  <2>1. x \div y \in Int
    BY <1>1, Division DEF x, y
  <2> QED
    BY <2>1 DEF x, y
<1> DEFINE z == Magnitude(a) \div Magnitude(n)
<1> HIDE DEF z
<1>4. -z \in Int /\ z \in Int
  BY <1>3 DEF z
<1>5. Truncated(a, n) = IF (a < 0) = (n < 0) THEN z ELSE -z
  BY <1>2 DEF z
<1> QED
  BY <1>2, <1>4, <1>5

(* A number and its opposite divided, rounded to the nearer of the two sides. *)
LEMMA DividedRange ==
    ASSUME NEW a \in Nat, NEW n \in Nat \ {0}
    PROVE  a \div n \in Nat /\ a \div n <= a /\ (a < n => a \div n = 0)
<1> DEFINE q == a \div n
           r == a % n
<1>1. q \in Int /\ r \in 0 .. n - 1 /\ a = n * q + r
  BY Division
<1> HIDE DEF q, r
<1>2. q >= 0
  <2> SUFFICES ASSUME q <= -1 PROVE FALSE
    BY <1>1
  <2>1. n * q <= -n
    BY <1>1
  <2> QED
    BY <1>1, <2>1
<1>3. q <= a
  <2>1. n * q >= q
    BY <1>1, <1>2
  <2> DEFINE p == n * q
  <2>2. p \in Int /\ p >= q /\ a = p + r
    BY <1>1, <2>1
  <2> HIDE DEF p
  <2> QED
    BY <1>1, <2>2
<1>4. a < n => q = 0
  <2> SUFFICES ASSUME a < n, q >= 1 PROVE FALSE
    BY <1>1, <1>2
  <2>1. n * q >= n
    BY <1>1
  <2> DEFINE p == n * q
  <2>2. p \in Int /\ p >= n /\ a = p + r
    BY <1>1, <2>1
  <2> HIDE DEF p
  <2> QED
    BY <1>1, <2>2
<1> QED
  BY <1>1, <1>2, <1>3, <1>4 DEF q

(* Rounding down or up, as the signs ask for, truncates.                      *)
LEMMA RoundingIs ==
    ASSUME NEW a \in Int, NEW n \in Int, n # 0
    PROVE  /\ (a < 0) = (n < 0) => FloorDiv(a, n) = Truncated(a, n)
           /\ (a < 0) # (n < 0) => CeilDiv(a, n) = Truncated(a, n)
<1> DEFINE x == Magnitude(a)
           y == Magnitude(n)
           q == x \div y
<1>1. Truncated(a, n) = IF (a < 0) = (n < 0) THEN q ELSE -q
  BY TruncatedFacts
<1>2. CASE a < 0 /\ n < 0
  <2>1. x = -a /\ y = -n /\ ~(n > 0)
    BY <1>2 DEF Magnitude
  <2>2. FloorDiv(a, n) = q
    BY <2>1 DEF FloorDiv
  <2> QED
    BY <1>1, <1>2, <2>2
<1>3. CASE ~(a < 0) /\ ~(n < 0)
  <2>1. x = a /\ y = n /\ n > 0
    BY <1>3 DEF Magnitude
  <2>2. FloorDiv(a, n) = q
    BY <2>1 DEF FloorDiv
  <2> QED
    BY <1>1, <1>3, <2>2
<1>4. CASE a < 0 /\ ~(n < 0)
  <2>1. x = -a /\ y = n /\ n > 0
    BY <1>4 DEF Magnitude
  <2>2. CeilDiv(a, n) = -q
    BY <2>1 DEF FloorDiv, CeilDiv
  <2> QED
    BY <1>1, <1>4, <2>2
<1>5. CASE ~(a < 0) /\ n < 0
  <2>1. x = a /\ y = -n /\ ~(n > 0) /\ -(-a) = a
    BY <1>5 DEF Magnitude
  <2>2. CeilDiv(a, n) = -q
    BY <2>1 DEF FloorDiv, CeilDiv
  <2> QED
    BY <1>1, <1>5, <2>2
<1> QED
  BY <1>2, <1>3, <1>4, <1>5

(* What is left of a division has the sign of the dividend.                   *)
LEMMA RemainderIs ==
    ASSUME NEW a \in Int, NEW n \in Int, n # 0
    PROVE  /\ Magnitude(a) % Magnitude(n) \in 0 .. Magnitude(n) - 1
           /\ a - n * Truncated(a, n)
                = IF a < 0 THEN -(Magnitude(a) % Magnitude(n)) ELSE Magnitude(a) % Magnitude(n)
<1> DEFINE x == Magnitude(a)
           y == Magnitude(n)
           q == x \div y
           s == x % y
           t == Truncated(a, n)
<1>1. x \in Int /\ y \in Nat \ {0} /\ x = (IF a < 0 THEN -a ELSE a) /\ y = IF n < 0 THEN -n ELSE n
  BY DEF Magnitude
<1>2. q \in Int /\ s \in 0 .. y - 1 /\ x = y * q + s
  <2>1. x \in Int /\ y \in Nat \ {0}
    BY <1>1
  <2> HIDE DEF x, y
  <2> QED
    BY ONLY <2>1, Division
<1>3. t = IF (a < 0) = (n < 0) THEN q ELSE -q
  BY TruncatedFacts
<1> HIDE DEF x, y, q, s, t
<1> DEFINE p == y * q
<1>4. p \in Int
  BY <1>1, <1>2
<1>5. n * t = IF a < 0 THEN -p ELSE p
  <2>1. CASE a < 0 /\ n < 0
    <3>1. n = -y /\ t = q
      BY <1>1, <1>3, <2>1
    <3>2. (-y) * q = -(y * q)
      BY <1>1, <1>2
    <3> QED
      BY <2>1, <3>1, <3>2
  <2>2. CASE a < 0 /\ ~(n < 0)
    <3>1. n = y /\ t = -q
      BY <1>1, <1>3, <2>2
    <3>2. y * (-q) = -(y * q)
      BY <1>1, <1>2
    <3> QED
      BY <2>2, <3>1, <3>2
  <2>3. CASE ~(a < 0) /\ n < 0
    <3>1. n = -y /\ t = -q
      BY <1>1, <1>3, <2>3
    <3>2. (-y) * (-q) = y * q
      BY <1>1, <1>2
    <3> QED
      BY <2>3, <3>1, <3>2
  <2>4. CASE ~(a < 0) /\ ~(n < 0)
    <3>1. n = y /\ t = q
      BY <1>1, <1>3, <2>4
    <3> QED
      BY <2>4, <3>1
  <2> QED
    BY <2>1, <2>2, <2>3, <2>4
<1> DEFINE z == n * t
<1>6. z = (IF a < 0 THEN -p ELSE p) /\ x = p + s
  BY <1>2, <1>5
<1> HIDE DEF p, z
<1>7. a - z = IF a < 0 THEN -s ELSE s
  BY <1>1, <1>2, <1>4, <1>6
<1> QED
  BY <1>2, <1>7 DEF z, x, y, s, t

(* The signed operands of a division.                                         *)
LEMMA DivisionRange ==
    ASSUME NEW w \in Nat \ {0}, NEW l \in 0 .. Pow2[w] - 1, NEW r \in 0 .. Pow2[w] - 1, r # 0
    PROVE  LET sl == Signed(l, w)
               sr == Signed(r, w)
               t  == Truncated(sl, sr)
               rest == sl - sr * t
               h == Pow2[w - 1]
           IN  /\ sr # 0 /\ sr \in Int /\ sl \in Int /\ t \in Int /\ rest \in Int
               /\ -h <= t /\ t <= h /\ ((sl < 0) = (sr < 0) => 0 <= t) /\ ((sl < 0) # (sr < 0) => t <= 0)
               /\ -h < rest /\ rest < h
<1> DEFINE h == Pow2[w - 1]
           m == Pow2[w]
           sl == Signed(l, w)
           sr == Signed(r, w)
           t == Truncated(sl, sr)
           x == Magnitude(sl)
           y == Magnitude(sr)
           q == x \div y
           s == x % y
           rest == sl - sr * t
<1>1. /\ h \in Nat \ {0} /\ m = 2 * h /\ sl \in -h .. h - 1 /\ sr \in -h .. h - 1
      /\ sr = IF r < h THEN r ELSE r - m
  BY SignedFacts
<1>2. sr # 0
  <2>1. r \in 0 .. m - 1
    OBVIOUS
  <2> HIDE DEF h, m, sr
  <2> QED
    BY <1>1, <2>1
<1> HIDE DEF h, m, sl, sr
<1>3. x \in Nat /\ y \in Nat \ {0} /\ x <= h /\ y <= h
  BY <1>1, <1>2 DEF Magnitude
<1>4. q \in Nat /\ q <= x
  <2> HIDE DEF x, y
  <2> QED
    BY <1>3, DividedRange
<1>a. sl \in Int /\ sr \in Int
  BY <1>1
<1>5. t = (IF (sl < 0) = (sr < 0) THEN q ELSE -q) /\ t \in Int
  BY ONLY <1>2, <1>a, TruncatedFacts
<1>6. s \in 0 .. y - 1 /\ rest = IF sl < 0 THEN -s ELSE s
  BY ONLY <1>2, <1>a, RemainderIs
<1> HIDE DEF x, y, q, s, t, rest
<1>7. /\ -h <= t /\ t <= h /\ ((sl < 0) = (sr < 0) => 0 <= t) /\ ((sl < 0) # (sr < 0) => t <= 0)
      /\ -h < rest /\ rest < h /\ rest \in Int
  BY <1>1, <1>3, <1>4, <1>5, <1>6
<1> QED
  BY <1>1, <1>2, <1>5, <1>7 DEF h, sl, sr, t, rest

(* sdiv is right but where it gives a negative zero.                          *)
LEMMA SignedDivIs ==
    ASSUME NEW w \in Nat \ {0}, NEW l \in 0 .. Pow2[w] - 1, NEW r \in 0 .. Pow2[w] - 1, r # 0,
           ~(Truncated(Signed(l, w), Signed(r, w)) = 0 /\ (Signed(l, w) < 0) # (Signed(r, w) < 0))
    PROVE  SignedDiv(l, r, w) = Truncated(Signed(l, w), Signed(r, w)) % Pow2[w]
<1> DEFINE h == Pow2[w - 1]
           m == Pow2[w]
           sl == Signed(l, w)
           sr == Signed(r, w)
           t == Truncated(sl, sr)
<1>1. /\ h \in Nat \ {0} /\ m \in Nat \ {0} /\ m = 2 * h
      /\ sl = (IF l < h THEN l ELSE l - m) /\ sr = (IF r < h THEN r ELSE r - m)
      /\ (sl < 0 <=> ~(l < h)) /\ (sr < 0 <=> ~(r < h))
  BY SignedFacts, PowHalf
<1>2. /\ sr # 0 /\ sr \in Int /\ sl \in Int /\ t \in Int
      /\ -h <= t /\ t <= h /\ ((sl < 0) = (sr < 0) => 0 <= t) /\ ((sl < 0) # (sr < 0) => t <= 0)
  BY DivisionRange
<1>3. ((sl < 0) = (sr < 0) => FloorDiv(sl, sr) = t) /\ ((sl < 0) # (sr < 0) => CeilDiv(sl, sr) = t)
  BY <1>2, RoundingIs
<1>4. (sl < 0) # (sr < 0) => t # 0
  OBVIOUS
<1>5. SignedDiv(l, r, w)
        = IF l < h
          THEN IF r < h THEN FloorDiv(l, r) ELSE CeilDiv(l, r - m) + m
          ELSE IF r < h THEN CeilDiv(l - m, r) + m ELSE FloorDiv(l - m, r - m)
  BY DEF SignedDiv
<1> HIDE DEF h, m, sl, sr, t
<1>6. t % m = IF t < 0 THEN t + m ELSE IF t >= m THEN t - m ELSE t
  <2>1. m \in Nat \ {0} /\ t \in Int /\ -m <= t /\ t < 2 * m
    BY <1>1, <1>2
  <2> QED
    BY ONLY <2>1, NearResidue
<1> DEFINE z == t % m
<1>7. z = IF t < 0 THEN t + m ELSE IF t >= m THEN t - m ELSE t
  BY <1>6
<1> HIDE DEF z
<1>8. z = IF (sl < 0) = (sr < 0) THEN t ELSE t + m
  BY <1>1, <1>2, <1>4, <1>7
<1>9. SignedDiv(l, r, w) = z
  <2>1. CASE l < h /\ r < h
    BY <1>1, <1>3, <1>5, <1>8, <2>1
  <2>2. CASE l < h /\ ~(r < h)
    BY <1>1, <1>3, <1>5, <1>8, <2>2
  <2>3. CASE ~(l < h) /\ r < h
    BY <1>1, <1>3, <1>5, <1>8, <2>3
  <2>4. CASE ~(l < h) /\ ~(r < h)
    BY <1>1, <1>3, <1>5, <1>8, <2>4
  <2> QED
    BY <2>1, <2>2, <2>3, <2>4
<1> QED
  BY <1>9 DEF z, t, sl, sr, m

(* An exact sdiv is right without rounding.                                   *)
LEMMA SignedDivExactIs ==
    ASSUME NEW w \in Nat \ {0}, NEW l \in 0 .. Pow2[w] - 1, NEW r \in 0 .. Pow2[w] - 1, r # 0,
           (Signed(l, w) - Signed(r, w) * Truncated(Signed(l, w), Signed(r, w))) % Pow2[w] = 0
    PROVE  SignedDivExact(l, r, w) = Truncated(Signed(l, w), Signed(r, w)) % Pow2[w]
<1> DEFINE h == Pow2[w - 1]
           m == Pow2[w]
           sl == Signed(l, w)
           sr == Signed(r, w)
           t == Truncated(sl, sr)
           rest == sl - sr * t
<1>1. h \in Nat \ {0} /\ m \in Nat \ {0} /\ m = 2 * h
  BY PowHalf
<1>2. /\ sr # 0 /\ sr \in Int /\ sl \in Int /\ t \in Int /\ rest \in Int /\ -h < rest /\ rest < h
  BY DivisionRange
<1>3. rest % m = 0
  OBVIOUS
<1>4. SignedDivExact(l, r, w) = Mod(FloorDiv(sl, sr), m)
  <2>1. /\ Mod(l + Pow2[w - 1] + 1, -Pow2[w]) + Pow2[w - 1] - 1 = sl
        /\ Mod(r + Pow2[w - 1] + 1, -Pow2[w]) + Pow2[w - 1] - 1 = sr
    BY UndoIsSigned
  <2> HIDE DEF sl, sr
  <2> QED
    BY <2>1 DEF SignedDivExact
<1>5. rest = 0
  <2> HIDE DEF rest, m, h
  <2>1. m \in Nat \ {0} /\ rest \in Int /\ -m < rest /\ rest < m /\ -m <= rest /\ rest < 2 * m
    BY <1>1, <1>2
  <2>2. rest % m = IF rest < 0 THEN rest + m ELSE IF rest >= m THEN rest - m ELSE rest
    BY ONLY <2>1, NearResidue
  <2> DEFINE z == rest % m
  <2>3. z = 0 /\ z = IF rest < 0 THEN rest + m ELSE IF rest >= m THEN rest - m ELSE rest
    BY <1>3, <2>2
  <2> HIDE DEF z
  <2> QED
    BY ONLY <2>1, <2>3
<1> HIDE DEF m, h, sl, sr, t
<1>6. sl = sr * t
  <2> DEFINE p == sr * t
  <2>1. p \in Int /\ sl - p = 0
    BY <1>2, <1>5
  <2> HIDE DEF p
  <2>2. sl = p
    BY <1>2, <2>1
  <2> QED
    BY <2>2 DEF p
<1>7. FloorDiv(sl, sr) = t
  <2> DEFINE zero == 0
  <2>1. CASE sr > 0
    <3>1. sr \in Nat \ {0} /\ zero \in 0 .. sr - 1
      BY <1>2, <2>1
    <3>2. sr * t + zero = sl
      BY <1>2, <1>6
    <3> HIDE DEF zero
    <3>3. (sr * t + zero) \div sr = t
      BY <1>2, <3>1, Quotient
    <3> QED
      BY <2>1, <3>2, <3>3 DEF FloorDiv
  <2>2. CASE ~(sr > 0)
    <3> DEFINE n == -sr
    <3>1. n \in Nat \ {0} /\ zero \in 0 .. n - 1
      BY <1>2, <2>2
    <3>2. n * t + zero = -sl
      <4>1. (-sr) * t = -(sr * t)
        BY <1>2
      <4> QED
        BY <1>2, <1>6, <4>1
    <3> HIDE DEF zero, n
    <3>3. (n * t + zero) \div n = t
      BY <1>2, <3>1, Quotient
    <3>4. FloorDiv(sl, sr) = (-sl) \div n
      BY <2>2 DEF FloorDiv, n
    <3> QED
      BY <3>2, <3>3, <3>4
  <2> QED
    BY <2>1, <2>2
<1> QED
  BY <1>1, <1>2, <1>4, <1>7, ModIs DEF t, sl, sr, m

(* srem is right but for the signs where Scratch's mod differs.               *)
LEMMA SignedRemIs ==
    ASSUME NEW w \in Nat \ {0}, NEW l \in 0 .. Pow2[w] - 1, NEW r \in 0 .. Pow2[w] - 1, r # 0,
           ~(Signed(r, w) < 0 /\ Signed(l, w) >= 0),
           Signed(l, w) < 0 =>
               (Signed(l, w) - Signed(r, w) * Truncated(Signed(l, w), Signed(r, w))) % Pow2[w] # 0
    PROVE  SignedRem(l, r, w)
             = (Signed(l, w) - Signed(r, w) * Truncated(Signed(l, w), Signed(r, w))) % Pow2[w]
<1> DEFINE h == Pow2[w - 1]
           m == Pow2[w]
           sl == Signed(l, w)
           sr == Signed(r, w)
           rest == sl - sr * Truncated(sl, sr)
           x == Magnitude(sl)
           y == Magnitude(sr)
           s == x % y
           z == rest % m
<1>1. /\ h \in Nat \ {0} /\ m \in Nat \ {0} /\ m = 2 * h
      /\ sl = (IF l < h THEN l ELSE l - m) /\ sr = (IF r < h THEN r ELSE r - m)
      /\ (sl < 0 <=> ~(l < h)) /\ (sr < 0 <=> ~(r < h))
  BY SignedFacts, PowHalf
<1>2. sr # 0 /\ sr \in Int /\ sl \in Int /\ rest \in Int /\ -h < rest /\ rest < h
  BY DivisionRange
<1>3. s \in 0 .. y - 1 /\ rest = IF sl < 0 THEN -s ELSE s
  BY <1>2, RemainderIs
<1>4. ~(sr < 0 /\ sl >= 0) /\ (sl < 0 => z # 0)
  OBVIOUS
<1>5. SignedRem(l, r, w)
        = IF l < h
          THEN IF r < h THEN Mod(l, r) ELSE Mod(l, r) - r
          ELSE IF r < h THEN Mod(l - m, r) - r + m ELSE Mod(l - m, r - m) + m
  BY DEF SignedRem
<1>6. x = (IF sl < 0 THEN -sl ELSE sl) /\ y = IF sr < 0 THEN -sr ELSE sr
  BY DEF Magnitude
<1> HIDE DEF h, m, sl, sr, rest, x, y
<1>7. z = IF rest < 0 THEN rest + m ELSE IF rest >= m THEN rest - m ELSE rest
  <2>1. m \in Nat \ {0} /\ rest \in Int /\ -m <= rest /\ rest < 2 * m
    BY <1>1, <1>2
  <2> QED
    BY ONLY <2>1, NearResidue
<1> HIDE DEF z
<1>8. x \in Int /\ y \in Nat \ {0} /\ s \in Int
  BY <1>2, <1>3, <1>6
<1>9. z = IF sl < 0 THEN m - s ELSE s
  <2> HIDE DEF s
  <2> QED
    BY <1>1, <1>2, <1>3, <1>4, <1>7, <1>8
<1>10. sl < 0 => s # 0
  <2> HIDE DEF s
  <2> QED
    BY <1>1, <1>2, <1>3, <1>4, <1>7, <1>8
<1>11. CASE l < h
  <2>1. ~(sl < 0) /\ ~(sr < 0) /\ r < h
    BY <1>1, <1>2, <1>4, <1>11
  <2>2. x = l /\ y = r
    BY <1>1, <1>6, <1>11, <2>1
  <2>3. SignedRem(l, r, w) = Mod(x, y)
    BY <1>5, <1>11, <2>1, <2>2
  <2>4. Mod(x, y) = s
    BY <1>8, ModIs
  <2> QED
    BY <1>9, <2>1, <2>3, <2>4 DEF z, rest, sl, sr, m
<1>12. CASE ~(l < h) /\ r < h
  <2>1. sl < 0 /\ ~(sr < 0) /\ sl = l - m /\ sr = r /\ y = r /\ x = -sl
    BY <1>1, <1>2, <1>6, <1>12
  <2>2. SignedRem(l, r, w) = Mod(sl, y) - y + m
    BY <1>5, <1>12, <2>1
  <2>3. Mod(sl, y) = y - s
    <3> DEFINE q == x \div y
               k == -q - 1
               c == y - s
    <3>1. q \in Int /\ x = y * q + s
      BY <1>8, Division
    <3> HIDE DEF s, q
    <3>2. c \in 0 .. y - 1 /\ k \in Int
      BY <1>3, <1>8, <1>10, <2>1, <3>1
    <3>3. y * k + c = sl
      <4> DEFINE p == y * q
      <4>1. y * k = -p - y
        BY <1>8, <3>1
      <4>2. p \in Int /\ x = p + s
        BY <1>8, <3>1
      <4> HIDE DEF p, k
      <4> QED
        BY <1>2, <1>8, <2>1, <4>1, <4>2
    <3> HIDE DEF k, c
    <3>4. (y * k + c) % y = c
      BY <1>8, <3>2, Quotient
    <3>5. Mod(sl, y) = sl % y
      BY <1>2, <1>8, ModIs
    <3> QED
      BY <3>3, <3>4, <3>5 DEF c
  <2>4. (y - s) - y + m = m - s
    <3> HIDE DEF s
    <3> QED
      BY <1>1, <1>8
  <2> QED
    BY <1>9, <2>1, <2>2, <2>3, <2>4 DEF z, rest, sl, sr, m
<1>13. CASE ~(l < h) /\ ~(r < h)
  <2>1. sl < 0 /\ sr < 0 /\ sl = l - m /\ sr = r - m /\ y = -sr /\ x = -sl
    BY <1>1, <1>2, <1>6, <1>13
  <2>2. SignedRem(l, r, w) = Mod(sl, sr) + m
    BY <1>5, <1>13, <2>1
  <2>3. Mod(sl, sr) = -s
    <3>1. ~(sr > 0)
      BY <1>2, <2>1
    <3> QED
      BY <2>1, <3>1 DEF Mod
  <2>4. -s + m = m - s
    <3> HIDE DEF s
    <3> QED
      BY <1>1, <1>8
  <2> QED
    BY <1>9, <2>1, <2>2, <2>3, <2>4 DEF z, rest, sl, sr, m
<1> QED
  BY <1>11, <1>12, <1>13

-----------------------------------------------------------------------------
(* Numbers of several parts.                                                 *)

(* Where a part begins.                                                       *)
Offset(i) == PartBits * (i - 1)

(* The parts of a type come one after another and cover it.                   *)
LEMMA PartFacts ==
    ASSUME NEW w \in Nat \ {0}
    PROVE  /\ Parts(w) \in Nat \ {0}
           /\ \A i \in 1 .. Parts(w) :
                  /\ Offset(i) \in Nat /\ PartWidth(w, i) \in 1 .. PartBits
                  /\ Offset(i) + PartWidth(w, i) <= w
                  /\ i < Parts(w) => PartWidth(w, i) = PartBits
                  /\ Offset(i + 1) = Offset(i) + PartBits /\ Offset(i + 1) \in Nat
           /\ Offset(Parts(w)) + PartWidth(w, Parts(w)) = w
           /\ Offset(1) = 0
<1> DEFINE N == Parts(w)
           b == PartBits
           a == w + b - 1
           top == b * (N - 1)
           rest == a % b
           x == rest + 1
<1>0. b \in Nat \ {0} /\ a \in Nat
  BY Positive
<1>1. N = a \div b
  BY DEF Parts
<1>2. N \in Int /\ rest \in 0 .. b - 1 /\ a = b * N + rest
  <2> HIDE DEF a, b, N
  <2> QED
    BY <1>0, <1>1, Division DEF rest
<1>3. N \in Nat \ {0} /\ top + b = b * N /\ top \in Nat
  <2> HIDE DEF b, N, top, rest
  <2>1. a = w + b - 1
    BY DEF a
  <2>2. b * N >= w
    <3> HIDE DEF a
    <3> QED
      BY <1>0, <1>2, <2>1
  <2>3. N > 0
    <3>1. CASE N <= 0
      <4>1. b * N <= 0
        BY <1>0, <1>2, <3>1
      <4> DEFINE q == b * N
      <4>2. q \in Int /\ q >= w /\ q <= 0
        BY <1>0, <1>2, <2>2, <4>1
      <4> HIDE DEF q
      <4> QED
        BY <4>2
    <3> QED
      BY <1>2, <3>1
  <2>4. b * (N - 1) + b = b * N /\ b * (N - 1) \in Nat
    BY <1>0, <1>2, <2>3
  <2> QED
    BY <1>2, <2>3, <2>4 DEF top
<1>4. w = top + x /\ x \in 1 .. b
  <2> DEFINE q == b * N
  <2>1. a = q + rest /\ top + b = q /\ a = w + b - 1 /\ q \in Int
    BY <1>0, <1>2, <1>3
  <2>2. x = rest + 1
    OBVIOUS
  <2> HIDE DEF a, b, N, top, rest, q, x
  <2> QED
    BY <1>0, <1>2, <1>3, <2>1, <2>2
<1>5. w % b = IF x = b THEN 0 ELSE x
  <2>1. CASE x = b
    <3> DEFINE z == 0
    <3>1. w = b * N + z /\ z \in 0 .. b - 1
      <4> DEFINE q == b * N
      <4>1. w = q + z /\ q \in Int
        BY <1>0, <1>2, <1>3, <1>4, <2>1
      <4> QED
        BY <1>0, <4>1
    <3> HIDE DEF b, N, x, z
    <3>2. (b * N + z) % b = z
      BY <1>0, <1>2, <3>1, Quotient
    <3> QED
      BY <2>1, <3>1, <3>2 DEF z
  <2>2. CASE x # b
    <3> DEFINE k == N - 1
    <3>1. w = b * k + x /\ x \in 0 .. b - 1 /\ k \in Int
      <4>1. top = b * k /\ k \in Int
        BY <1>2
      <4> HIDE DEF top, x, b, k
      <4> QED
        BY <1>0, <1>3, <1>4, <2>2, <4>1
    <3> HIDE DEF b, N, x, k
    <3>2. (b * k + x) % b = x
      BY <1>0, <3>1, Quotient
    <3> QED
      BY <2>2, <3>1, <3>2
  <2> QED
    BY <2>1, <2>2
<1>6. PartWidth(w, N) = x
  <2>1. PartWidth(w, N) = IF N < N \/ w % b = 0 THEN b ELSE w % b
    BY DEF PartWidth
  <2> DEFINE m == w % b
  <2>2. m = IF x = b THEN 0 ELSE x
    BY <1>5
  <2>3. PartWidth(w, N) = IF m = 0 THEN b ELSE m
    BY <1>3, <2>1
  <2> HIDE DEF m, N, x, b
  <2> QED
    BY <1>0, <1>4, <2>2, <2>3
<1>7. \A i \in 1 .. N : i < N => PartWidth(w, i) = b
  BY DEF PartWidth
<1>8. ASSUME NEW i \in 1 .. N
      PROVE  /\ Offset(i) \in Nat /\ Offset(i + 1) = Offset(i) + b /\ Offset(i + 1) \in Nat
             /\ i < N => Offset(i) + b <= w
  <2> HIDE DEF b, N
  <2>1. i \in Nat \ {0} /\ b * (i - 1) \in Nat /\ b * ((i + 1) - 1) = b * (i - 1) + b
    BY <1>0, <1>3
  <2>2. ASSUME i < N PROVE b * (i - 1) + b <= top
    <3>1. i <= N - 1 /\ b * i <= b * (N - 1)
      BY <1>0, <1>3, <2>1, <2>2
    <3>2. b * (i - 1) + b = b * i
      BY <1>0, <2>1
    <3> QED
      BY <3>1, <3>2
  <2>3. ASSUME i < N PROVE b * (i - 1) + b <= w
    <3> DEFINE q == b * (i - 1)
    <3>1. q + b <= top /\ q \in Nat
      BY <2>1, <2>2, <2>3
    <3> HIDE DEF q, top, x
    <3> QED
      BY <1>0, <1>3, <1>4, <3>1 DEF q
  <2> DEFINE q == b * (i - 1)
  <2>4. Offset(i) = q /\ Offset(i + 1) = b * ((i + 1) - 1)
    BY DEF Offset, b
  <2> HIDE DEF q
  <2> QED
    BY <1>0, <2>1, <2>3, <2>4 DEF q
<1>9. Offset(N) = top /\ Offset(1) = 0
  <2>1. Offset(1) = b * (1 - 1) /\ Offset(N) = b * (N - 1)
    BY DEF Offset
  <2> QED
    BY <1>0, <2>1
<1>10. ASSUME NEW i \in 1 .. N
       PROVE  PartWidth(w, i) \in 1 .. b /\ Offset(i) + PartWidth(w, i) <= w
  <2> HIDE DEF b, N, top, x
  <2>1. CASE i < N
    BY <1>0, <1>7, <1>8, <2>1
  <2>2. CASE i = N
    BY <1>0, <1>3, <1>4, <1>6, <1>9, <2>2
  <2> QED
    BY <1>3, <2>1, <2>2
<1> QED
  BY <1>3, <1>4, <1>6, <1>7, <1>8, <1>9, <1>10 DEF b, N

(* A number of one part is its part.                                          *)
LEMMA OnePart ==
    ASSUME NEW w \in Nat \ {0}
    PROVE  /\ Parts(w) = 1 <=> w <= PartBits
           /\ Parts(w) = 1 => PartWidth(w, 1) = w
<1>1. CASE Parts(w) = 1
  <2>1. Offset(1) + PartWidth(w, 1) = w /\ Offset(1) = 0 /\ PartWidth(w, 1) \in 1 .. PartBits
    BY <1>1, PartFacts
  <2> QED
    BY <1>1, <2>1, Positive
<1>2. CASE Parts(w) # 1
  <2>1. Parts(w) \in Nat /\ 1 < Parts(w)
    BY <1>2, PartFacts
  <2> DEFINE one == 1
             two == 2
  <2>2. one \in 1 .. Parts(w) /\ two \in 1 .. Parts(w) /\ one + 1 = two
    BY <2>1
  <2> HIDE DEF one, two
  <2>3. Offset(one + 1) = Offset(one) + PartBits /\ Offset(one) \in Nat
    BY <2>2, PartFacts
  <2>4. Offset(two) + PartWidth(w, two) <= w /\ PartWidth(w, two) \in 1 .. PartBits
    BY <2>2, PartFacts
  <2> QED
    BY <1>2, <2>2, <2>3, <2>4, Positive
<1> QED
  BY <1>1, <1>2

(* The parts of a number reduced to the width.                                *)
LEMMA SplitOfRemainder ==
    ASSUME NEW w \in Nat \ {0}, NEW x \in Int
    PROVE  Split(x % Pow2[w], w)
             = [i \in 1 .. Parts(w) |-> (x \div Pow2[Offset(i)]) % Pow2[PartWidth(w, i)]]
<1> DEFINE n == x % Pow2[w]
<1>1. SUFFICES ASSUME NEW i \in 1 .. Parts(w)
               PROVE  (n \div Pow2[Offset(i)]) % Pow2[PartBits] = (x \div Pow2[Offset(i)]) % Pow2[PartWidth(w, i)]
  BY <1>1 DEF Split, Offset
<1> DEFINE o == Offset(i)
           k == PartWidth(w, i)
           p == Pow2[o]
           above == Pow2[w - o]
           size == Pow2[k]
           q == x \div p
<1>2. o \in Nat /\ k \in Nat /\ k <= PartBits /\ w - o \in Nat /\ k <= w - o /\ w \in Nat
      /\ (i < Parts(w) => k = PartBits) /\ (i = Parts(w) => w - o = k) /\ (i < Parts(w) \/ i = Parts(w))
  <2>1. o \in Nat /\ k \in 1 .. PartBits /\ o + k <= w /\ (i < Parts(w) => k = PartBits)
    BY PartFacts
  <2>2. Parts(w) \in Nat /\ (i = Parts(w) => o + k = w)
    BY PartFacts
  <2> HIDE DEF o, k
  <2> QED
    BY <2>1, <2>2, Positive
<1>3. p \in Nat \ {0} /\ above \in Nat \ {0} /\ size \in Nat \ {0} /\ Pow2[w] = p * above
  <2>1. o + (w - o) = w
    BY <1>2
  <2> QED
    BY <1>2, <2>1, PowPositive, PowSum
<1>4. n \div p = q % above
  <2> HIDE DEF p, above
  <2> QED
    BY <1>3, DigitOfRemainder
<1>5. q \in Int
  <2> HIDE DEF p
  <2> QED
    BY <1>3, Division
<1>6. CASE i < Parts(w)
  <2> DEFINE rest == Pow2[w - o - k]
  <2>1. above = size * rest /\ rest \in Nat \ {0} /\ size = Pow2[PartBits]
    <3> DEFINE z == w - o - k
    <3>1. z \in Nat /\ k + z = w - o /\ k = PartBits /\ k \in Nat
      BY <1>2, <1>6
    <3> HIDE DEF z, k, o
    <3>2. Pow2[k + z] = Pow2[k] * Pow2[z] /\ Pow2[z] \in Nat \ {0}
      BY <3>1, PowPositive, PowSum
    <3> QED
      BY <3>1, <3>2 DEF z
  <2> HIDE DEF q, above, size, rest
  <2>2. (q % (size * rest)) % size = q % size
    BY <1>3, <1>5, <2>1, RemainderOfRemainder
  <2> QED
    BY <1>4, <2>1, <2>2 DEF q, size
<1>7. CASE i = Parts(w)
  <2>1. above = size
    BY <1>2, <1>7
  <2>2. q % size \in 0 .. size - 1
    <3> HIDE DEF q, size
    <3> QED
      BY <1>3, <1>5, Division
  <2>3. size <= Pow2[PartBits] /\ Pow2[PartBits] \in Nat \ {0}
    BY <1>2, Positive, PowMonotone
  <2> DEFINE y == q % size
             full == Pow2[PartBits]
  <2>4. y \in 0 .. full - 1
    <3> HIDE DEF full, size, y
    <3>1. y \in 0 .. size - 1
      BY <2>2 DEF y
    <3> QED
      BY <1>3, <2>3, <3>1 DEF full
  <2>5. y % full = y
    <3> HIDE DEF full, y
    <3> QED
      BY <2>3, <2>4, Small DEF full
  <2> QED
    BY <1>4, <2>1, <2>5
<1> QED
  BY <1>2, <1>6, <1>7

(* The parts of a number are its digits.                                      *)
LEMMA SplitFacts ==
    ASSUME NEW w \in Nat \ {0}, NEW n \in 0 .. Pow2[w] - 1
    PROVE  /\ Split(n, w) = [i \in 1 .. Parts(w) |-> (n \div Pow2[Offset(i)]) % Pow2[PartWidth(w, i)]]
           /\ Len(Split(n, w)) = Parts(w)
           /\ \A i \in 1 .. Parts(w) : Split(n, w)[i] \in 0 .. Pow2[PartWidth(w, i)] - 1
           /\ Parts(w) = 1 => Split(n, w) = <<n>>
<1> DEFINE m == Pow2[w]
<1>1. m \in Nat \ {0} /\ n % m = n /\ n \in Int
  <2>1. m \in Nat \ {0} /\ n \in 0 .. m - 1
    BY PowPositive
  <2> HIDE DEF m
  <2>2. n % m = n
    BY <2>1, Small
  <2> QED
    BY <2>1, <2>2
<1>2. Split(n, w) = [i \in 1 .. Parts(w) |-> (n \div Pow2[Offset(i)]) % Pow2[PartWidth(w, i)]]
  BY <1>1, SplitOfRemainder
<1>3. Len(Split(n, w)) = Parts(w)
  BY <1>2, PartFacts
<1>4. ASSUME NEW i \in 1 .. Parts(w)
      PROVE  Split(n, w)[i] \in 0 .. Pow2[PartWidth(w, i)] - 1
  <2> DEFINE p == Pow2[Offset(i)]
             k == Pow2[PartWidth(w, i)]
             q == n \div p
  <2>1. p \in Nat \ {0} /\ k \in Nat \ {0}
    BY PartFacts, PowPositive
  <2>2. q \in Int
    <3> HIDE DEF p
    <3> QED
      BY <1>1, <2>1, Division
  <2>3. q % k \in 0 .. k - 1
    <3> HIDE DEF q, k
    <3> QED
      BY <2>1, <2>2, Division
  <2> QED
    BY <1>2, <2>3
<1>5. ASSUME Parts(w) = 1 PROVE Split(n, w) = <<n>>
  <2> DEFINE one == 1
  <2>1. (n \div Pow2[Offset(one)]) % Pow2[PartWidth(w, one)] = n
    <3>1. Pow2[Offset(1)] = 1 /\ PartWidth(w, 1) = w
      BY <1>5, PartFacts, OnePart, PowRecursion
    <3>2. n \div 1 = n
      BY <1>1
    <3> QED
      BY <1>1, <3>1, <3>2
  <2>2. Split(n, w) = [i \in 1 .. 1 |-> (n \div Pow2[Offset(i)]) % Pow2[PartWidth(w, i)]]
    BY <1>2, <1>5
  <2>3. \A i \in 1 .. 1 : i = 1
    OBVIOUS
  <2>4. Split(n, w) = [i \in 1 .. 1 |-> n]
    BY <2>1, <2>2, <2>3
  <2> HIDE DEF one
  <2> QED
    BY <2>4
<1> QED
  BY <1>2, <1>3, <1>4, <1>5

(* What is below a part.                                                      *)
Lower(n, i) == n % Pow2[Offset(i)]

(* What is below a part: the number itself, once past the last part.          *)
LEMMA LowerFacts ==
    ASSUME NEW w \in Nat \ {0}, NEW n \in 0 .. Pow2[w] - 1
    PROVE  /\ Lower(n, 1) = 0
           /\ Lower(n, Parts(w) + 1) = n
           /\ \A i \in 1 .. Parts(w) + 1 : Lower(n, i) \in 0 .. Pow2[Offset(i)] - 1 /\ Pow2[Offset(i)] \in Nat \ {0}
           /\ \A i \in 1 .. Parts(w) : Lower(n, i + 1) = Lower(n, i) + Pow2[Offset(i)] * Split(n, w)[i]
<1> DEFINE N == Parts(w)
<1>1. N \in Nat \ {0} /\ n \in Int /\ Pow2[w] \in Nat \ {0}
  BY PartFacts, PowPositive
<1>2. \A i \in 1 .. N + 1 : Offset(i) \in Nat
  <2> SUFFICES ASSUME NEW i \in 1 .. N + 1 PROVE Offset(i) \in Nat
    OBVIOUS
  <2>1. CASE i <= N
    BY <2>1, PartFacts
  <2>2. CASE i = N + 1
    BY <1>1, <2>2, PartFacts
  <2> QED
    BY <1>1, <2>1, <2>2
<1>3. ASSUME NEW i \in 1 .. N + 1
      PROVE  Lower(n, i) \in 0 .. Pow2[Offset(i)] - 1 /\ Pow2[Offset(i)] \in Nat \ {0}
  <2> DEFINE p == Pow2[Offset(i)]
  <2>1. p \in Nat \ {0}
    BY <1>2, PowPositive
  <2> HIDE DEF p
  <2>2. n % p \in 0 .. p - 1
    BY <1>1, <2>1, Division
  <2> QED
    BY <2>1, <2>2 DEF Lower, p
<1>4. Lower(n, 1) = 0
  <2>0. Offset(1) = 0
    BY PartFacts
  <2>1. Pow2[Offset(1)] = 1 /\ 1 \in 1 .. N + 1
    BY <1>1, <2>0, PowRecursion
  <2>2. Lower(n, 1) \in 0 .. 1 - 1
    BY <1>3, <2>1
  <2> QED
    BY <2>2
<1>5. Lower(n, N + 1) = n
  <2> DEFINE p == Pow2[Offset(N + 1)]
  <2>1. Offset(N + 1) = Offset(N) + PartBits /\ Offset(N) + PartWidth(w, N) = w /\ PartWidth(w, N) \in 1 .. PartBits
        /\ Offset(N) \in Nat /\ Offset(N + 1) \in Nat
    BY <1>1, PartFacts
  <2>2. Pow2[w] <= p /\ p \in Nat \ {0}
    BY <2>1, Positive, PowMonotone, PowPositive
  <2>3. n \in 0 .. p - 1
    <3> DEFINE m == Pow2[w]
    <3>1. n \in 0 .. m - 1 /\ m <= p /\ m \in Nat
      BY <1>1, <2>2
    <3> HIDE DEF p, m
    <3> QED
      BY <2>2, <3>1
  <2> HIDE DEF p
  <2>4. n % p = n
    BY <2>2, <2>3, Small
  <2> QED
    BY <2>4 DEF Lower, p
<1>6. ASSUME NEW i \in 1 .. N
      PROVE  Lower(n, i + 1) = Lower(n, i) + Pow2[Offset(i)] * Split(n, w)[i]
  <2> DEFINE p == Pow2[Offset(i)]
             m == Pow2[PartBits]
             q == n \div p
  <2>1. Offset(i) \in Nat /\ Offset(i + 1) = Offset(i) + PartBits
    BY PartFacts
  <2>2. p \in Nat \ {0} /\ m \in Nat \ {0} /\ Pow2[Offset(i + 1)] = p * m
    BY <2>1, Positive, PowPositive, PowSum
  <2>3. Split(n, w)[i] = q % m
    BY DEF Split, Offset
  <2>4. n % (p * m) = p * (q % m) + (n % p)
    <3> HIDE DEF p, m
    <3> QED
      BY <1>1, <2>2, RemainderByProduct
  <2>5. p * (q % m) + (n % p) = (n % p) + p * (q % m)
    <3> DEFINE a == p * (q % m)
               b == n % p
    <3>1. a \in Int /\ b \in Int
      <4>1. q \in Int
        <5> HIDE DEF p
        <5> QED
          BY <1>1, <2>2, Division
      <4>2. q % m \in Int
        <5> HIDE DEF q, m
        <5> QED
          BY <2>2, <4>1, Division
      <4>3. b \in Int
        <5> HIDE DEF p
        <5> QED
          BY <1>1, <2>2, Division
      <4> DEFINE c == q % m
      <4>4. c \in Int
        BY <4>2
      <4> HIDE DEF c, p
      <4>5. p * c \in Int
        BY <2>2, <4>4
      <4> QED
        BY <4>3, <4>5 DEF c
    <3> HIDE DEF a, b
    <3>2. a + b = b + a
      BY <3>1
    <3> QED
      BY <3>2 DEF a, b
  <2> QED
    BY <2>2, <2>3, <2>4, <2>5 DEF Lower
<1> QED
  BY <1>3, <1>4, <1>5, <1>6

-----------------------------------------------------------------------------
(* And, or and xor.                                                          *)

LEMMA LowestSwapped ==
    ASSUME NEW kind \in Kinds, NEW l \in Int, NEW r \in Int
    PROVE  \A n \in Nat : Lowest(kind, l, r)[n] = Lowest(kind, r, l)[n]
<1> DEFINE f == Lowest(kind, l, r)
           g == Lowest(kind, r, l)
           S == {n \in Nat : f[n] = g[n]}
<1>1. f[0] = 0 /\ g[0] = 0
  BY LowestRecursion
<1>2. ASSUME NEW n \in Nat, f[n] = g[n] PROVE f[n + 1] = g[n + 1]
  <2>1. f[n + 1] = f[n] + Pow2[n] * BitOf(kind, BitAt(l, n), BitAt(r, n))
        /\ g[n + 1] = g[n] + Pow2[n] * BitOf(kind, BitAt(r, n), BitAt(l, n))
    BY LowestRecursion
  <2> DEFINE a == BitAt(l, n)
             b == BitAt(r, n)
  <2>2. a \in {0, 1} /\ b \in {0, 1}
    BY BitType
  <2> HIDE DEF a, b
  <2>3. BitOf(kind, a, b) = BitOf(kind, b, a)
    BY <2>2 DEF Kinds, BitOf
  <2> HIDE DEF f, g
  <2> QED
    BY <1>2, <2>1, <2>3 DEF a, b
<1> HIDE DEF f, g
<1>3. 0 \in S /\ \A n \in Nat : n \in S => n + 1 \in S
  BY <1>1, <1>2
<1> HIDE DEF S
<1>4. \A n \in Nat : n \in S
  BY <1>3, Induction
<1> QED
  BY <1>4 DEF S, f, g

(* The blocks for two parts, the constant being the second.                   *)
LEMMA BinopIs ==
    ASSUME NEW kind \in Kinds, NEW w \in Nat \ {0}, NEW l \in 0 .. Pow2[w] - 1, NEW r \in 0 .. Pow2[w] - 1,
           NEW isKnown \in BOOLEAN, NEW lookups, NEW viaAnd \in BOOLEAN,
           ~(kind = "xor" /\ w = 1 /\ isKnown /\ r = 0)
    PROVE  Binop(kind, l, r, w, isKnown, lookups, viaAnd) = Lowest(kind, l, r)[w]
<1>1. CASE w = 1
  <2>1. Binop(kind, l, r, w, isKnown, lookups, viaAnd) = BinopBit(kind, l, r, isKnown)
    BY <1>1 DEF Binop
  <2>2. Pow2[1] = 2 /\ Pow2[0] = 1
    <3>1. Pow2[0 + 1] = 2 * Pow2[0]
      BY PowRecursion
    <3> QED
      BY <3>1, PowRecursion
  <2>3. l \in {0, 1} /\ r \in {0, 1}
    BY <1>1, <2>2
  <2>4. BitAt(l, 0) = l /\ BitAt(r, 0) = r
    <3>1. BitAt(l, 0) = (l \div 1) % 2 /\ BitAt(r, 0) = (r \div 1) % 2
      BY <2>2 DEF BitAt
    <3> QED
      BY <2>3, <3>1
  <2>5. Lowest(kind, l, r)[1] = BitOf(kind, l, r)
    <3>1. Lowest(kind, l, r)[0 + 1] = Lowest(kind, l, r)[0] + Pow2[0] * BitOf(kind, BitAt(l, 0), BitAt(r, 0))
      BY LowestRecursion
    <3>2. Lowest(kind, l, r)[0] = 0
      BY LowestRecursion
    <3>3. BitOf(kind, l, r) \in {0, 1}
      BY <2>3, BitOfType
    <3> QED
      BY <2>2, <2>4, <3>1, <3>2, <3>3
  <2>6. BinopBit(kind, l, r, isKnown) = BitOf(kind, l, r)
    <3>1. isKnown /\ kind = "xor" => r = 1
      BY <1>1, <2>3
    <3> QED
      BY <2>3, <3>1 DEF BinopBit, BitOf, Kinds
  <2> QED
    BY <1>1, <2>1, <2>5, <2>6
<1>2. CASE w # 1 /\ ~isKnown
  BY <1>2, LookupAllIsLowest DEF Binop
<1>3. CASE w # 1 /\ isKnown
  BY <1>3, AndKnownIsLowest, OrKnownIsLowest, XorKnownIsLowest DEF Binop, Kinds
<1> QED
  BY <1>1, <1>2, <1>3

(* A part of the result is made of the parts of the operands.                 *)
LEMMA PartOfLowest ==
    ASSUME NEW kind \in Kinds, NEW l \in Int, NEW r \in Int, NEW w \in Nat, NEW o \in Nat, NEW k \in Nat,
           o + k <= w, NEW l2 \in Int, NEW r2 \in Int,
           l2 = (l \div Pow2[o]) % Pow2[k], r2 = (r \div Pow2[o]) % Pow2[k]
    PROVE  (Lowest(kind, l, r)[w] \div Pow2[o]) % Pow2[k] = Lowest(kind, l2, r2)[k]
<1> DEFINE x == Lowest(kind, l, r)[w]
           p == Pow2[o]
           m == Pow2[k]
           low == Lowest(kind, l, r)[o]
           part == Lowest(kind, l2, r2)[k]
<1>1. p \in Nat \ {0} /\ m \in Nat \ {0} /\ Pow2[o + k] = p * m
  BY PowPositive, PowSum
<1>2. x \in Int /\ low \in 0 .. p - 1 /\ part \in Int
  <2>1. low \in 0 .. Pow2[o] - 1
    BY LowestRange
  <2>2. x \in Int /\ part \in Int
    BY LowestRecursion
  <2> QED
    BY <2>1, <2>2
<1>3. x % (p * m) = low + p * part
  <2>1. x % Pow2[o + k] = Lowest(kind, l, r)[o + k]
    BY LowestRemainder
  <2>2. ASSUME NEW v \in Int, NEW i \in 0 .. k - 1
        PROVE  BitAt((v \div Pow2[o]) % Pow2[k], i) = BitAt(v, o + i)
    <3> DEFINE q == v \div p
    <3>1. q \in Int
      <4> HIDE DEF p
      <4> QED
        BY <1>1, Division
    <3> HIDE DEF q
    <3>2. BitAt(q % Pow2[k], i) = BitAt(q, i)
      BY <3>1, BitOfRemainder
    <3>3. BitAt(q, i) = BitAt(v, o + i)
      BY BitOfQuotient DEF q
    <3> QED
      BY <3>2, <3>3 DEF q
  <2>3. \A i \in 0 .. k - 1 : BitAt(l2, i) = BitAt(l, o + i) /\ BitAt(r2, i) = BitAt(r, o + i)
    BY <2>2
  <2>4. Lowest(kind, l, r)[o + k] = low + p * part
    BY <2>3, LowestShifted
  <2> QED
    BY <1>1, <2>1, <2>4
<1>4. (x % (p * m)) \div p = (x \div p) % m
  <2> HIDE DEF x, p, m
  <2> QED
    BY <1>1, <1>2, DigitOfRemainder
<1>5. (p * part + low) \div p = part
  <2> HIDE DEF p, part, low
  <2> QED
    BY <1>1, <1>2, Quotient
<1>6. p * part + low = low + p * part
  <2> HIDE DEF p, part, low
  <2>1. p * part \in Int
    BY <1>1, <1>2
  <2> QED
    BY <1>2, <2>1
<1> QED
  BY <1>3, <1>4, <1>5, <1>6

(* and, or and xor, part by part, are right for a number of several parts.    *)
LEMMA BitwiseIs ==
    ASSUME NEW op \in Bitwise2, NEW w \in Nat \ {0}, NEW l \in 0 .. Pow2[w] - 1, NEW r \in 0 .. Pow2[w] - 1,
           NEW known \in {"none", "left", "right"}, NEW lookups, NEW viaAnd \in BOOLEAN,
           ~(op = "xor" /\ w = 1 /\ known # "none" /\ (IF known = "left" THEN l ELSE r) = 0)
    PROVE  /\ Bit(op, l, r, w) \in 0 .. Pow2[w] - 1
           /\ BitwiseParts(op, Split(l, w), Split(r, w), w, known, lookups, viaAnd) = Split(Bit(op, l, r, w), w)
<1> DEFINE x == Lowest(op, l, r)[w]
           pl == Split(l, w)
           pr == Split(r, w)
<1>0. op \in Kinds /\ l \in Int /\ r \in Int /\ w \in Nat /\ Pow2[w] \in Nat \ {0}
  BY PowPositive DEF Bitwise2, Kinds
<1>1. Bit(op, l, r, w) = x /\ x \in 0 .. Pow2[w] - 1
  BY <1>0, BitIsLowest, LowestRange
<1>2. /\ Len(pl) = Parts(w) /\ \A i \in 1 .. Parts(w) : pl[i] \in 0 .. Pow2[PartWidth(w, i)] - 1
      /\ pl = [i \in 1 .. Parts(w) |-> (l \div Pow2[Offset(i)]) % Pow2[PartWidth(w, i)]]
  BY SplitFacts
<1>3. /\ Len(pr) = Parts(w) /\ \A i \in 1 .. Parts(w) : pr[i] \in 0 .. Pow2[PartWidth(w, i)] - 1
      /\ pr = [i \in 1 .. Parts(w) |-> (r \div Pow2[Offset(i)]) % Pow2[PartWidth(w, i)]]
  BY SplitFacts
<1>4. Split(x, w) = [i \in 1 .. Parts(w) |-> (x \div Pow2[Offset(i)]) % Pow2[PartWidth(w, i)]]
  BY <1>1, SplitFacts
<1> DEFINE unknown == IF known = "left" THEN pr ELSE pl
           other == IF known = "left" THEN pl ELSE pr
<1>5. BitwiseParts(op, pl, pr, w, known, lookups, viaAnd)
        = [i \in 1 .. Parts(w) |-> Binop(op, unknown[i], other[i], w, known # "none", lookups, viaAnd)]
  <2> HIDE DEF pl, pr
  <2> QED
    BY <1>2 DEF BitwiseParts
<1>6. ASSUME NEW i \in 1 .. Parts(w)
      PROVE  Binop(op, unknown[i], other[i], w, known # "none", lookups, viaAnd)
               = (x \div Pow2[Offset(i)]) % Pow2[PartWidth(w, i)]
  <2> DEFINE k == PartWidth(w, i)
             o == Offset(i)
             u == unknown[i]
             v == other[i]
             isKnown == known # "none"
             li == pl[i]
             ri == pr[i]
  <2>1. o \in Nat /\ k \in Nat \ {0} /\ o + k <= w /\ k <= w
    <3>1. o \in Nat /\ k \in 1 .. PartBits /\ o + k <= w
      BY PartFacts
    <3> HIDE DEF o, k
    <3> QED
      BY <3>1, <1>0, Positive
  <2>2. li \in 0 .. Pow2[k] - 1 /\ ri \in 0 .. Pow2[k] - 1 /\ Pow2[k] <= Pow2[w] /\ Pow2[k] \in Nat \ {0}
        /\ u = (IF known = "left" THEN ri ELSE li) /\ v = (IF known = "left" THEN li ELSE ri)
        /\ li = (l \div Pow2[o]) % Pow2[k] /\ ri = (r \div Pow2[o]) % Pow2[k]
    BY <1>0, <1>2, <1>3, <2>1, PowMonotone, PowPositive
  <2> HIDE DEF u, v, li, ri, o, k
  <2>3. u \in 0 .. Pow2[k] - 1 /\ v \in 0 .. Pow2[k] - 1 /\ u \in 0 .. Pow2[w] - 1 /\ v \in 0 .. Pow2[w] - 1
        /\ isKnown \in BOOLEAN
    <3> DEFINE a == Pow2[k]
               b == Pow2[w]
    <3>1. a \in Nat /\ b \in Nat /\ a <= b /\ li \in 0 .. a - 1 /\ ri \in 0 .. a - 1
      BY <1>0, <2>2
    <3> HIDE DEF a, b
    <3>2. li \in 0 .. b - 1 /\ ri \in 0 .. b - 1
      BY <3>1
    <3> QED
      BY <2>2, <3>1, <3>2 DEF a, b
  <2>4. ~(op = "xor" /\ w = 1 /\ isKnown /\ v = 0)
    <3> SUFFICES ASSUME w = 1 PROVE v = IF known = "left" THEN l ELSE r
      OBVIOUS
    <3>1. Parts(w) = 1
      <4>1. w <= PartBits
        BY Positive
      <4> QED
        BY <4>1, OnePart
    <3>2. pl = <<l>> /\ pr = <<r>> /\ i = 1
      BY <3>1, SplitFacts
    <3> QED
      BY <2>2, <3>2 DEF li, ri
  <2> HIDE DEF isKnown
  <2>5. Binop(op, u, v, w, isKnown, lookups, viaAnd) = Lowest(op, u, v)[w]
    BY <1>0, <2>3, <2>4, BinopIs
  <2>6. Lowest(op, u, v)[w] = Lowest(op, u, v)[k]
    BY <1>0, <2>1, <2>3, LowestOfSmall
  <2>7. Lowest(op, u, v)[k] = Lowest(op, li, ri)[k]
    <3>1. li \in Int /\ ri \in Int /\ k \in Nat
      BY <2>1, <2>2
    <3>2. Lowest(op, li, ri)[k] = Lowest(op, ri, li)[k]
      BY <1>0, <3>1, LowestSwapped
    <3> QED
      BY <2>2, <3>2
  <2>8. (x \div Pow2[o]) % Pow2[k] = Lowest(op, li, ri)[k]
    <3>1. li \in Int /\ ri \in Int /\ k \in Nat
      BY <2>1, <2>2
    <3> QED
      BY <1>0, <2>1, <2>2, <3>1, PartOfLowest
  <2> QED
    BY <2>5, <2>6, <2>7, <2>8 DEF u, v, isKnown, o, k
<1> HIDE DEF unknown, other, x, pl, pr
<1>7. BitwiseParts(op, pl, pr, w, known, lookups, viaAnd) = Split(x, w)
  BY <1>4, <1>5, <1>6
<1> QED
  BY <1>1, <1>7 DEF pl, pr

-----------------------------------------------------------------------------
(* Sums and differences of several parts.                                    *)

(* What a part takes from the ones below it, and the sum of two parts before  *)
(* it is reduced.                                                             *)
Carry(op, l, r, i) ==
    IF op = "add" THEN Lower(l, i) + Lower(r, i) >= Pow2[Offset(i)] ELSE Lower(l, i) < Lower(r, i)

PartSum(op, l, r, w, i) ==
    Apply(op, Apply(op, Split(l, w)[i], Split(r, w)[i]), Number(Carry(op, l, r, i)))

(* A carry shows in the lowest digits already.                                *)
LEMMA OutOfRange ==
    ASSUME NEW p \in Nat \ {0}, NEW m \in Nat \ {0}, NEW s \in 0 .. p - 1, NEW e \in Int
    PROVE  (s + p * e >= p * m <=> e > m - 1) /\ (s + p * e < 0 <=> e < 0)
<1> DEFINE x == p * e
           y == p * m
<1>0. x \in Int /\ y \in Int
  OBVIOUS
<1>1. ASSUME e > m - 1 PROVE x >= y
  <2>1. e >= m
    BY <1>1
  <2> QED
    BY <2>1
<1>2. ASSUME ~(e > m - 1) PROVE x <= y - p
  <2>1. e <= m - 1
    BY <1>2
  <2>2. p * e <= p * (m - 1) /\ p * (m - 1) = p * m - p
    BY <2>1
  <2> QED
    BY <2>2
<1>3. ASSUME e < 0 PROVE x <= -p
  <2>1. e <= -1
    BY <1>3
  <2>2. p * e <= p * (-1) /\ p * (-1) = -p
    BY <2>1
  <2> QED
    BY <2>2
<1>4. ASSUME ~(e < 0) PROVE x >= 0
  BY <1>4
<1> HIDE DEF x, y
<1>5. (s + x >= y <=> e > m - 1) /\ (s + x < 0 <=> e < 0)
  BY <1>0, <1>1, <1>2, <1>3, <1>4
<1> QED
  BY <1>5 DEF x, y

(* The sum of what is below a part, with the carry taken off.                 *)
LEMMA CarryRest ==
    ASSUME NEW op \in {"add", "sub"}, NEW w \in Nat \ {0}, NEW l \in 0 .. Pow2[w] - 1,
           NEW r \in 0 .. Pow2[w] - 1, NEW i \in 1 .. Parts(w) + 1
    PROVE  \E s \in 0 .. Pow2[Offset(i)] - 1 :
               Apply(op, Lower(l, i), Lower(r, i))
                 = s + Pow2[Offset(i)] * Apply(op, 0, Number(Carry(op, l, r, i)))
<1> DEFINE a == Lower(l, i)
           b == Lower(r, i)
           p == Pow2[Offset(i)]
           c == Carry(op, l, r, i)
<1>1. a \in 0 .. p - 1 /\ p \in Nat \ {0}
  BY LowerFacts
<1>2. b \in 0 .. p - 1
  BY LowerFacts
<1>3. (c <=> IF op = "add" THEN a + b >= p ELSE a < b) /\ Number(c) = (IF c THEN 1 ELSE 0)
      /\ p * 1 = p /\ p * 0 = 0 /\ p * (-1) = -p
  BY <1>1 DEF Carry, Number
<1> HIDE DEF a, b, p, c
<1> SUFFICES \E s \in 0 .. p - 1 : Apply(op, a, b) = s + p * Apply(op, 0, Number(c))
  BY DEF a, b, p, c
<1>4. CASE op = "add" /\ c
  <2> DEFINE s == a + b - p
  <2>1. Apply(op, 0, Number(c)) = 1 /\ Apply(op, a, b) = a + b
    BY <1>3, <1>4 DEF Apply
  <2>2. s \in 0 .. p - 1 /\ a + b = s + p * 1
    BY <1>1, <1>2, <1>3, <1>4
  <2> QED
    BY <2>1, <2>2
<1>5. CASE op = "add" /\ ~c
  <2> DEFINE s == a + b
  <2>1. Apply(op, 0, Number(c)) = 0 /\ Apply(op, a, b) = a + b
    BY <1>3, <1>5 DEF Apply
  <2>2. s \in 0 .. p - 1 /\ a + b = s + p * 0
    BY <1>1, <1>2, <1>3, <1>5
  <2> QED
    BY <2>1, <2>2
<1>6. CASE op = "sub" /\ c
  <2> DEFINE s == a - b + p
  <2>1. Apply(op, 0, Number(c)) = -1 /\ Apply(op, a, b) = a - b
    BY <1>3, <1>6 DEF Apply
  <2>2. s \in 0 .. p - 1 /\ a - b = s + p * (-1)
    BY <1>1, <1>2, <1>3, <1>6
  <2> QED
    BY <2>1, <2>2
<1>7. CASE op = "sub" /\ ~c
  <2> DEFINE s == a - b
  <2>1. Apply(op, 0, Number(c)) = 0 /\ Apply(op, a, b) = a - b
    <3>1. Number(c) = 0 /\ op # "add"
      BY <1>3, <1>7
    <3>2. Apply(op, 0, 0) = 0 - 0 /\ Apply(op, a, b) = a - b
      BY <3>1 DEF Apply
    <3> QED
      BY <3>1, <3>2
  <2>2. s \in 0 .. p - 1 /\ a - b = s + p * 0
    BY <1>1, <1>2, <1>3, <1>7
  <2> QED
    BY <2>1, <2>2
<1> QED
  BY <1>3, <1>4, <1>5, <1>6, <1>7

(* The carry shows in the sum of the part below.                              *)
LEMMA CarryNext ==
    ASSUME NEW op \in {"add", "sub"}, NEW w \in Nat \ {0}, NEW l \in 0 .. Pow2[w] - 1,
           NEW r \in 0 .. Pow2[w] - 1, NEW i \in 1 .. Parts(w)
    PROVE  /\ PartSum(op, l, r, w, i) \in Int
           /\ Carry(op, l, r, i + 1) <=> IF op = "add" THEN PartSum(op, l, r, w, i) > Pow2[PartBits] - 1
                                         ELSE PartSum(op, l, r, w, i) < 0
<1> DEFINE a == Lower(l, i)
           b == Lower(r, i)
           p == Pow2[Offset(i)]
           m == Pow2[PartBits]
           c == Number(Carry(op, l, r, i))
           x == Split(l, w)[i]
           y == Split(r, w)[i]
           e == PartSum(op, l, r, w, i)
           d == Apply(op, 0, c)
<1>0. Parts(w) \in Nat \ {0} /\ i \in 1 .. Parts(w) + 1 /\ c \in {0, 1} /\ m \in Nat \ {0}
  BY PartFacts, Positive DEF Number
<1>1. a \in 0 .. p - 1 /\ p \in Nat \ {0} /\ Lower(l, i + 1) = a + p * x
  BY <1>0, LowerFacts
<1>2. b \in 0 .. p - 1 /\ Lower(r, i + 1) = b + p * y
  BY <1>0, LowerFacts
<1>3. x \in Int /\ y \in Int
  <2>1. x \in 0 .. Pow2[PartWidth(w, i)] - 1
    BY SplitFacts
  <2>2. y \in 0 .. Pow2[PartWidth(w, i)] - 1
    BY SplitFacts
  <2>3. Pow2[PartWidth(w, i)] \in Nat
    BY PartFacts, PowPositive
  <2> QED
    BY <2>1, <2>2, <2>3
<1>4. PICK s \in 0 .. p - 1 : Apply(op, a, b) = s + p * d
  BY <1>0, CarryRest
<1>5. Pow2[Offset(i + 1)] = p * m
  <2>1. Offset(i) \in Nat /\ Offset(i + 1) = Offset(i) + PartBits
    BY PartFacts
  <2> QED
    BY <2>1, Positive, PowSum
<1>6. e = Apply(op, Apply(op, x, y), c)
  BY DEF PartSum
<1>7. Carry(op, l, r, i + 1) <=> IF op = "add" THEN (a + p * x) + (b + p * y) >= p * m
                                ELSE a + p * x < b + p * y
  BY <1>1, <1>2, <1>5 DEF Carry
<1> HIDE DEF a, b, p, m, c, x, y, e
<1>8. e \in Int /\ e = Apply(op, x, y) + d /\ d \in Int
  BY <1>0, <1>3, <1>6 DEF Apply
<1>9. (s + p * e >= p * m <=> e > m - 1) /\ (s + p * e < 0 <=> e < 0)
  BY <1>0, <1>1, <1>4, <1>8, OutOfRange
<1>10. s + p * e = Apply(op, a, b) + p * Apply(op, x, y)
  <2>1. p * e = p * Apply(op, x, y) + p * d
    <3> DEFINE z == Apply(op, x, y)
    <3>1. z \in Int /\ e = z + d
      BY <1>3, <1>8 DEF Apply
    <3> HIDE DEF z, d
    <3>2. p * (z + d) = p * z + p * d
      BY <1>1, <1>8, <3>1
    <3> QED
      BY <3>1, <3>2 DEF z
  <2> DEFINE u == p * Apply(op, x, y)
             v == p * d
  <2>2. u \in Int /\ v \in Int
    BY <1>1, <1>3, <1>8 DEF Apply
  <2> HIDE DEF u, v
  <2>3. p * e = u + v /\ Apply(op, a, b) = s + v
    BY <1>4, <2>1 DEF u, v
  <2>4. s + p * e = Apply(op, a, b) + u
    BY <2>2, <2>3, <1>1, <1>4
  <2> QED
    BY <2>4 DEF u
<1>11. CASE op = "add"
  <2>1. (a + p * x) + (b + p * y) = s + p * e
    <3>1. Apply(op, a, b) = a + b /\ Apply(op, x, y) = x + y
      BY <1>11 DEF Apply
    <3>2. p * (x + y) = p * x + p * y
      BY <1>1, <1>3
    <3> DEFINE u == p * x
               v == p * y
    <3>3. u \in Int /\ v \in Int /\ s + p * e = (a + b) + (u + v)
      BY <1>1, <1>3, <1>10, <3>1, <3>2
    <3> HIDE DEF u, v
    <3>4. (a + u) + (b + v) = (a + b) + (u + v)
      BY <1>1, <1>2, <3>3
    <3> QED
      BY <3>3, <3>4 DEF u, v
  <2> QED
    BY <1>7, <1>8, <1>9, <1>11, <2>1 DEF e, m
<1>12. CASE op = "sub"
  <2>1. a + p * x < b + p * y <=> s + p * e < 0
    <3>1. Apply(op, a, b) = a - b /\ Apply(op, x, y) = x - y
      BY <1>12 DEF Apply
    <3>2. p * (x - y) = p * x - p * y
      BY <1>1, <1>3
    <3> DEFINE u == p * x
               v == p * y
               t == s + p * e
    <3>3. u \in Int /\ v \in Int /\ t = (a - b) + (u - v)
      BY <1>1, <1>3, <1>10, <3>1, <3>2
    <3> HIDE DEF u, v, t
    <3>4. a + u < b + v <=> t < 0
      BY <1>1, <1>2, <3>3
    <3> QED
      BY <3>3, <3>4 DEF u, v, t
  <2> QED
    BY <1>7, <1>8, <1>9, <1>12, <2>1 DEF e
<1> QED
  BY <1>8, <1>11, <1>12 DEF e

(* A part of the sum, with its carry taken off, is a digit of the sum.        *)
LEMMA PartOfSum ==
    ASSUME NEW op \in {"add", "sub"}, NEW w \in Nat \ {0}, NEW l \in 0 .. Pow2[w] - 1,
           NEW r \in 0 .. Pow2[w] - 1, NEW i \in 1 .. Parts(w)
    PROVE  PartSum(op, l, r, w, i) % Pow2[PartWidth(w, i)]
             = (Apply(op, l, r) \div Pow2[Offset(i)]) % Pow2[PartWidth(w, i)]
<1> DEFINE a == Lower(l, i)
           b == Lower(r, i)
           p == Pow2[Offset(i)]
           m == Pow2[PartWidth(w, i)]
           c == Number(Carry(op, l, r, i))
           d == Apply(op, 0, c)
           x == Split(l, w)[i]
           y == Split(r, w)[i]
           q1 == l \div p
           q2 == r \div p
           k1 == q1 \div m
           k2 == q2 \div m
           e == PartSum(op, l, r, w, i)
           t == Apply(op, q1, q2) + d
<1>0. Parts(w) \in Nat \ {0} /\ i \in 1 .. Parts(w) + 1 /\ c \in {0, 1} /\ m \in Nat \ {0} /\ p \in Nat \ {0}
      /\ l \in Int /\ r \in Int /\ d \in Int
  <2>1. Parts(w) \in Nat \ {0} /\ Pow2[w] \in Nat
    BY PartFacts, PowPositive
  <2>2. Offset(i) \in Nat /\ PartWidth(w, i) \in Nat
    BY PartFacts
  <2> QED
    BY <2>1, <2>2, PowPositive DEF Number, Apply
<1>1. PICK s \in 0 .. p - 1 : Apply(op, a, b) = s + p * d
  BY <1>0, CarryRest
<1>2. x = q1 % m /\ y = q2 % m
  BY SplitFacts
<1>3. l = p * q1 + a /\ q1 \in Int /\ a \in Int
  <2> HIDE DEF p
  <2>1. l \div p \in Int /\ l % p \in 0 .. p - 1 /\ l = p * (l \div p) + (l % p)
    BY <1>0, Division
  <2> QED
    BY <1>0, <2>1 DEF Lower, p
<1>4. r = p * q2 + b /\ q2 \in Int /\ b \in Int
  <2> HIDE DEF p
  <2>1. r \div p \in Int /\ r % p \in 0 .. p - 1 /\ r = p * (r \div p) + (r % p)
    BY <1>0, Division
  <2> QED
    BY <1>0, <2>1 DEF Lower, p
<1>5. q1 = m * k1 + x /\ k1 \in Int /\ x \in Int
  <2> HIDE DEF m, q1
  <2>1. q1 \div m \in Int /\ q1 % m \in 0 .. m - 1 /\ q1 = m * (q1 \div m) + (q1 % m)
    BY <1>0, <1>3, Division
  <2> HIDE DEF x
  <2> QED
    BY <1>0, <1>2, <2>1
<1>6. q2 = m * k2 + y /\ k2 \in Int /\ y \in Int
  <2> HIDE DEF m, q2
  <2>1. q2 \div m \in Int /\ q2 % m \in 0 .. m - 1 /\ q2 = m * (q2 \div m) + (q2 % m)
    BY <1>0, <1>4, Division
  <2> HIDE DEF y
  <2> QED
    BY <1>0, <1>2, <2>1
<1>7. e = Apply(op, Apply(op, x, y), c)
  BY DEF PartSum
<1> HIDE DEF a, b, p, m, c, x, y, q1, q2, k1, k2, e
<1>8. e \in Int /\ e = Apply(op, x, y) + d
  BY <1>0, <1>5, <1>6, <1>7 DEF Apply
<1>9. t \in Int /\ Apply(op, l, r) = p * t + s
  <2> DEFINE z == Apply(op, q1, q2)
             u == p * q1
             v == p * q2
             f == p * d
  <2>0. z \in Int /\ u \in Int /\ v \in Int /\ f \in Int
    BY <1>0, <1>3, <1>4 DEF Apply
  <2>1. p * z = Apply(op, u, v)
    <3>1. CASE op = "add"
      BY <1>0, <1>3, <1>4, <3>1 DEF Apply
    <3>2. CASE op = "sub"
      BY <1>0, <1>3, <1>4, <3>2 DEF Apply
    <3> QED
      BY <3>1, <3>2
  <2> HIDE DEF d
  <2>2. p * t = p * z + p * d
    <3>1. t = z + d /\ d \in Int
      BY <1>0 DEF d
    <3> HIDE DEF z, t
    <3>2. p * (z + d) = p * z + p * d
      BY <1>0, <2>0, <3>1
    <3> QED
      BY <3>1, <3>2
  <2> HIDE DEF z, u, v, f
  <2>3. p * t = Apply(op, u, v) + f /\ l = u + a /\ r = v + b /\ Apply(op, a, b) = s + f
    BY <1>1, <1>3, <1>4, <2>1, <2>2 DEF u, v, f
  <2>4. Apply(op, l, r) = Apply(op, u, v) + Apply(op, a, b)
    BY <1>3, <1>4, <2>0, <2>3 DEF Apply
  <2>5. Apply(op, u, v) \in Int
    BY <2>0 DEF Apply
  <2>6. Apply(op, l, r) = p * t + s
    BY <1>1, <1>0, <2>0, <2>3, <2>4, <2>5
  <2> QED
    BY <1>0, <2>0, <2>6 DEF z
<1>10. Apply(op, l, r) \div p = t
  <2> HIDE DEF t
  <2>1. (p * t + s) \div p = t
    BY <1>0, <1>1, <1>9, Quotient
  <2> QED
    BY <1>9, <2>1
<1> DEFINE k == Apply(op, k1, k2)
<1>11. k \in Int /\ t = e + m * k
  <2> DEFINE u == m * k1
             v == m * k2
  <2>0. k \in Int /\ u \in Int /\ v \in Int
    BY <1>0, <1>5, <1>6 DEF Apply
  <2>1. m * k = Apply(op, u, v)
    <3>1. CASE op = "add"
      BY <1>0, <1>5, <1>6, <3>1 DEF Apply
    <3>2. CASE op = "sub"
      BY <1>0, <1>5, <1>6, <3>2 DEF Apply
    <3> QED
      BY <3>1, <3>2
  <2>2. q1 = u + x /\ q2 = v + y
    BY <1>5, <1>6
  <2> HIDE DEF u, v, k, d
  <2>3. t = e + m * k
    BY <1>0, <1>5, <1>6, <1>8, <2>0, <2>1, <2>2 DEF Apply
  <2> QED
    BY <2>0, <2>3
<1> HIDE DEF t, k
<1>12. (e + m * k) % m = e % m
  BY <1>0, <1>8, <1>11, SameRemainder
<1> QED
  BY <1>10, <1>11, <1>12 DEF e, m, p

(* The sum of a part as it is made from the sum below it.                     *)
LEMMA NextPartSum ==
    ASSUME NEW op \in {"add", "sub"}, NEW w \in Nat \ {0}, NEW l \in 0 .. Pow2[w] - 1,
           NEW r \in 0 .. Pow2[w] - 1, NEW i \in 1 .. Parts(w), i # 1
    PROVE  PartSum(op, l, r, w, i)
             = PartialSumDiff(op, Split(l, w)[i], Split(r, w)[i], PartSum(op, l, r, w, i - 1))
<1> DEFINE k == i - 1
           s == PartSum(op, l, r, w, k)
           c == Carry(op, l, r, i)
<1>1. k \in 1 .. Parts(w) /\ k + 1 = i
  BY PartFacts
<1> HIDE DEF k
<1>2. Carry(op, l, r, k + 1) <=> IF op = "add" THEN s > Pow2[PartBits] - 1 ELSE s < 0
  BY <1>1, CarryNext
<1>3. c <=> IF op = "add" THEN s > Pow2[PartBits] - 1 ELSE s < 0
  BY <1>1, <1>2
<1> DEFINE d == IF op = "add" THEN s > Pow2[PartBits] - 1 ELSE s < 0
<1>4. Number(c) = Number(d)
  BY <1>3 DEF Number
<1>5. PartialSumDiff(op, Split(l, w)[i], Split(r, w)[i], s)
        = Apply(op, Apply(op, Split(l, w)[i], Split(r, w)[i]), Number(d))
  BY DEF PartialSumDiff
<1>6. PartSum(op, l, r, w, i) = Apply(op, Apply(op, Split(l, w)[i], Split(r, w)[i]), Number(c))
  BY DEF PartSum
<1> QED
  BY <1>4, <1>5, <1>6 DEF s, k

(* The first part of a sum has no carry to add.                               *)
LEMMA FirstPartSum ==
    ASSUME NEW op \in {"add", "sub"}, NEW w \in Nat \ {0}, NEW l \in 0 .. Pow2[w] - 1,
           NEW r \in 0 .. Pow2[w] - 1
    PROVE  PartSum(op, l, r, w, 1) = Apply(op, Split(l, w)[1], Split(r, w)[1])
<1> DEFINE one == 1
           x == Split(l, w)[one]
           y == Split(r, w)[one]
           c == Carry(op, l, r, one)
<1>1. one \in 1 .. Parts(w)
  BY PartFacts
<1>2. x \in Int /\ y \in Int
  <2>1. Pow2[PartWidth(w, one)] \in Nat
    BY <1>1, PartFacts, PowPositive
  <2>2. x \in 0 .. Pow2[PartWidth(w, one)] - 1
    BY <1>1, SplitFacts
  <2>3. y \in 0 .. Pow2[PartWidth(w, one)] - 1
    BY <1>1, SplitFacts
  <2> QED
    BY <2>1, <2>2, <2>3
<1>3. Number(c) = 0
  <2>1. Lower(l, one) = 0
    BY LowerFacts
  <2>2. Lower(r, one) = 0
    BY LowerFacts
  <2>3. Pow2[Offset(one)] = 1
    BY PartFacts, PowRecursion
  <2> QED
    BY <2>1, <2>2, <2>3 DEF Carry, Number
<1>4. PartSum(op, l, r, w, one) = Apply(op, Apply(op, x, y), 0)
  BY <1>3 DEF PartSum
<1> HIDE DEF x, y
<1>5. Apply(op, Apply(op, x, y), 0) = Apply(op, x, y)
  <2>1. CASE op = "add"
    <3>1. (x + y) + 0 = x + y
      BY <1>2
    <3> QED
      BY <2>1, <3>1 DEF Apply
  <2>2. CASE op = "sub"
    <3>1. (x - y) - 0 = x - y
      BY <1>2
    <3> QED
      BY <2>2, <3>1 DEF Apply
  <2> QED
    BY <2>1, <2>2
<1> QED
  BY <1>4, <1>5 DEF x, y, one

(* The carry handed on from part to part is what the lower parts leave.       *)
LEMMA CarriedIs ==
    ASSUME NEW op \in {"add", "sub"}, NEW w \in Nat \ {0}, NEW l \in 0 .. Pow2[w] - 1,
           NEW r \in 0 .. Pow2[w] - 1, NEW start \in 1 .. Parts(w)
    PROVE  \A i \in start .. Parts(w) :
               Carried(op, Split(l, w), Split(r, w), start, PartSum(op, l, r, w, start))[i]
                 = PartSum(op, l, r, w, i)
<1> DEFINE N == Parts(w)
           pl == Split(l, w)
           pr == Split(r, w)
           E(i) == PartSum(op, l, r, w, i)
           first == E(start)
           D == start .. N
           g == [i \in D |-> E(i)]
           f == Carried(op, pl, pr, start, first)
<1>1. N \in Nat /\ start \in Nat \ {0} /\ Len(pl) = N
  BY PartFacts, SplitFacts
<1>2. ASSUME NEW i \in D PROVE g[i] = IF i = start THEN first ELSE PartialSumDiff(op, pl[i], pr[i], g[i - 1])
  <2>1. CASE i = start
    BY <2>1
  <2>2. CASE i # start
    <3>1. i \in 1 .. N /\ i # 1 /\ i - 1 \in D
      BY <1>1, <2>2
    <3>2. E(i) = PartialSumDiff(op, pl[i], pr[i], E(i - 1))
      <4> HIDE DEF E, D, g
      <4> QED
        BY <3>1, NextPartSum DEF E
    <3>3. g[i - 1] = E(i - 1) /\ g[i] = E(i)
      BY <3>1
    <3> HIDE DEF E, g
    <3> QED
      BY <2>2, <3>2, <3>3
  <2> QED
    BY <2>1, <2>2
<1>3. g = [i \in D |-> IF i = start THEN first ELSE PartialSumDiff(op, pl[i], pr[i], g[i - 1])]
  <2>1. DOMAIN g = D /\ g = [i \in DOMAIN g |-> g[i]]
    OBVIOUS
  <2> HIDE DEF g, D, first, pl, pr
  <2> QED
    BY <1>2, <2>1
<1>4. f = [i \in D |-> IF i = start THEN first ELSE PartialSumDiff(op, pl[i], pr[i], f[i - 1])]
  <2> DEFINE D2 == start .. Len(pl)
  <2>1. D2 = D
    BY <1>1
  <2> HIDE DEF D
  <2>2. g = [i \in D2 |-> IF i = start THEN first ELSE PartialSumDiff(op, pl[i], pr[i], g[i - 1])]
    BY <1>3, <2>1
  <2> HIDE DEF g, first, pl, pr
  <2>3. f = [i \in D2 |-> IF i = start THEN first ELSE PartialSumDiff(op, pl[i], pr[i], f[i - 1])]
    BY <2>2 DEF Carried
  <2> HIDE DEF f, D2
  <2> QED
    BY <2>1, <2>3
<1> HIDE DEF f
<1> DEFINE T == {n \in Nat : start + n <= N => f[start + n] = g[start + n]}
<1>5. 0 \in T
  <2>1. start + 0 = start /\ start \in D
    BY <1>1
  <2>2. f[start] = first /\ g[start] = first
    <3> HIDE DEF g, first, D, E
    <3> QED
      BY <1>2, <1>4, <2>1
  <2> QED
    BY <2>1, <2>2
<1>6. ASSUME NEW n \in Nat, n \in T PROVE n + 1 \in T
  <2> SUFFICES ASSUME start + (n + 1) <= N PROVE f[start + (n + 1)] = g[start + (n + 1)]
    OBVIOUS
  <2> DEFINE k == start + (n + 1)
  <2>1. k \in D /\ k - 1 = start + n /\ start + n <= N /\ k # start
    BY <1>1
  <2>2. f[k - 1] = g[k - 1]
    BY <1>6, <2>1
  <2>3. f[k] = PartialSumDiff(op, pl[k], pr[k], f[k - 1]) /\ g[k] = PartialSumDiff(op, pl[k], pr[k], g[k - 1])
    <3> HIDE DEF g, D, first, pl, pr, k, E
    <3> QED
      BY <1>2, <1>4, <2>1
  <2> HIDE DEF g, pl, pr
  <2> QED
    BY <2>2, <2>3
<1> HIDE DEF T
<1>7. \A n \in Nat : n \in T
  BY <1>5, <1>6, Induction
<1>8. ASSUME NEW i \in D PROVE f[i] = E(i)
  <2> DEFINE n == i - start
  <2>1. n \in Nat /\ start + n = i /\ i <= N
    BY <1>1
  <2>2. f[i] = g[i]
    BY <1>7, <2>1 DEF T
  <2> QED
    BY <2>2
<1> QED
  BY <1>8 DEF f

(* The sums of the parts are right wherever the carry is put in a variable.   *)
LEMMA RawSumsAre ==
    ASSUME NEW op \in {"add", "sub"}, NEW w \in Nat \ {0}, NEW l \in 0 .. Pow2[w] - 1,
           NEW r \in 0 .. Pow2[w] - 1, NEW checkpoints \in SUBSET (2 .. Parts(w))
    PROVE  \A i \in 1 .. Parts(w) :
               RawSums(op, Split(l, w), Split(r, w), checkpoints)[i] = PartSum(op, l, r, w, i)
<1> DEFINE N == Parts(w)
           pl == Split(l, w)
           pr == Split(r, w)
           E(i) == PartSum(op, l, r, w, i)
           start(i) == Max({1} \cup {k \in checkpoints : k < i})
           D == 1 .. N
           g == [i \in D |-> E(i)]
           f == RawSums(op, pl, pr, checkpoints)
<1>1. N \in Nat \ {0} /\ Len(pl) = N
  BY PartFacts, SplitFacts
<1>2. ASSUME NEW i \in D, i # 1 PROVE start(i) \in D /\ start(i) < i
  <2> DEFINE S == {1} \cup {k \in checkpoints : k < i}
  <2>1. S \subseteq 1 .. i - 1 /\ 1 \in S /\ i \in Nat
    <3>1. i \in Nat /\ 1 < i
      BY <1>1, <1>2
    <3>2. \A k \in checkpoints : k \in 2 .. N
      OBVIOUS
    <3>3. \A k \in checkpoints : k < i => k \in 1 .. i - 1
      BY <1>1, <3>1, <3>2
    <3> HIDE DEF N
    <3>4. 1 \in 1 .. i - 1
      BY <3>1
    <3>5. \A y \in S : y \in 1 .. i - 1
      BY <3>3, <3>4
    <3> QED
      BY <3>1, <3>5
  <2>2. \E x \in S : \A y \in S : y <= x
    <3> DEFINE T == {n \in Nat : \A y \in S : y <= n}
    <3>1. i \in T
      BY <2>1
    <3>2. PICK x \in T : \A y \in T : x <= y
      <4> HIDE DEF T
      <4>1. T \in SUBSET Nat /\ T # {}
        BY <3>1 DEF T
      <4> QED
        BY <4>1, LeastElement
    <3>3. x \in Nat /\ \A y \in S : y <= x
      BY <3>2
    <3>4. x \in S
      <4> SUFFICES ASSUME x \notin S PROVE FALSE
        OBVIOUS
      <4>1. x >= 1 /\ x - 1 \in Nat
        BY <2>1, <3>3
      <4>2. \A y \in S : y <= x - 1
        <5> SUFFICES ASSUME NEW y \in S PROVE y <= x - 1
          OBVIOUS
        <5>1. y <= x /\ y # x /\ y \in Int
          BY <2>1, <3>3
        <5> QED
          BY <3>3, <5>1
      <4>3. x - 1 \in T
        BY <4>1, <4>2
      <4>4. x <= x - 1
        BY <3>2, <4>3
      <4> QED
        BY <3>3, <4>4
    <3> QED
      BY <3>3, <3>4
  <2>3. PICK x \in S : \A y \in S : y <= x
    BY <2>2
  <2>4. Max(S) = x
    <3>1. S \in SUBSET Int
      BY <2>1
    <3> HIDE DEF S
    <3> QED
      BY <2>3, <3>1, MaxIs
  <2>5. x \in 1 .. i - 1
    BY <2>1, <2>3
  <2> QED
    BY <1>1, <2>4, <2>5
<1> HIDE DEF start
<1>3. ASSUME NEW i \in D
      PROVE  g[i] = IF i = 1 THEN Apply(op, pl[1], pr[1])
                    ELSE Carried(op, pl, pr, start(i), g[start(i)])[i]
  <2>1. CASE i = 1
    <3>1. E(1) = Apply(op, pl[1], pr[1])
      BY FirstPartSum
    <3> HIDE DEF E, pl, pr
    <3> QED
      BY <2>1, <3>1
  <2>2. CASE i # 1
    <3> DEFINE s == start(i)
    <3>1. s \in 1 .. N /\ i \in s .. N
      BY <1>1, <1>2, <2>2
    <3> HIDE DEF s
    <3>2. Carried(op, pl, pr, s, E(s))[i] = E(i)
      BY <3>1, CarriedIs
    <3>3. g[s] = E(s) /\ g[i] = E(i)
      BY <3>1
    <3> HIDE DEF E, g
    <3> QED
      BY <2>2, <3>2, <3>3 DEF s
  <2> QED
    BY <2>1, <2>2
<1>4. g = [i \in D |-> IF i = 1 THEN Apply(op, pl[1], pr[1])
                       ELSE Carried(op, pl, pr, start(i), g[start(i)])[i]]
  <2>1. DOMAIN g = D /\ g = [i \in DOMAIN g |-> g[i]]
    OBVIOUS
  <2> HIDE DEF g, D, pl, pr
  <2> QED
    BY <1>3, <2>1
<1>5. f = [i \in D |-> IF i = 1 THEN Apply(op, pl[1], pr[1])
                       ELSE Carried(op, pl, pr, start(i), f[start(i)])[i]]
  <2> DEFINE D2 == 1 .. Len(pl)
  <2>1. D2 = D
    BY <1>1
  <2> HIDE DEF D
  <2>2. g = [i \in D2 |-> IF i = 1 THEN Apply(op, pl[1], pr[1])
                          ELSE Carried(op, pl, pr, start(i), g[start(i)])[i]]
    BY <1>4, <2>1
  <2> HIDE DEF g, pl, pr
  <2>3. f = [i \in D2 |-> IF i = 1 THEN Apply(op, pl[1], pr[1])
                          ELSE Carried(op, pl, pr, start(i), f[start(i)])[i]]
    BY <2>2 DEF RawSums, start
  <2> HIDE DEF f, D2
  <2> QED
    BY <2>1, <2>3
<1> HIDE DEF f
<1> DEFINE T == {n \in Nat : \A i \in D : i <= n => f[i] = g[i]}
<1>6. 0 \in T
  BY <1>1
<1>7. ASSUME NEW n \in Nat, n \in T PROVE n + 1 \in T
  <2> SUFFICES ASSUME NEW i \in D, i <= n + 1 PROVE f[i] = g[i]
    OBVIOUS
  <2>1. CASE i = 1
    <3> HIDE DEF g, D, pl, pr
    <3> QED
      BY <1>3, <1>5, <2>1
  <2>2. CASE i # 1
    <3> DEFINE s == start(i)
    <3>1. s \in D /\ s <= n
      BY <1>1, <1>2, <2>2
    <3>2. f[s] = g[s]
      BY <1>7, <3>1
    <3>3. f[i] = Carried(op, pl, pr, s, f[s])[i] /\ g[i] = Carried(op, pl, pr, s, g[s])[i]
      <4> HIDE DEF g, D, pl, pr
      <4> QED
        BY <1>3, <1>5, <2>2
    <3> HIDE DEF g, pl, pr, s
    <3> QED
      BY <3>2, <3>3
  <2> QED
    BY <2>1, <2>2
<1> HIDE DEF T
<1>8. \A n \in Nat : n \in T
  BY <1>6, <1>7, Induction
<1>9. ASSUME NEW i \in D PROVE f[i] = E(i)
  <2>1. f[i] = g[i]
    BY <1>1, <1>8 DEF T
  <2> QED
    BY <2>1
<1> QED
  BY <1>9 DEF f

(* Whichever sums are kept, the parts of the result are those of the sum.     *)
LEMMA WideSumDiffIs ==
    ASSUME NEW op \in {"add", "sub"}, NEW w \in Nat \ {0}, NEW l \in 0 .. Pow2[w] - 1,
           NEW r \in 0 .. Pow2[w] - 1, NEW checkpoints \in SUBSET (2 .. Parts(w))
    PROVE  WideSumDiff(op, Split(l, w), Split(r, w), w, checkpoints)
             = Split(Apply(op, l, r) % Pow2[w], w)
<1> DEFINE N == Parts(w)
           pl == Split(l, w)
           raw == RawSums(op, pl, Split(r, w), checkpoints)
           a == Apply(op, l, r)
<1>1. a \in Int /\ Len(pl) = N
  <2>1. Pow2[w] \in Nat
    BY PowPositive
  <2>2. l \in Int /\ r \in Int
    BY <2>1
  <2> QED
    BY <2>2, SplitFacts DEF Apply
<1>2. ASSUME NEW i \in 1 .. N
      PROVE  Mod(raw[i], Pow2[PartWidth(w, i)]) = (a \div Pow2[Offset(i)]) % Pow2[PartWidth(w, i)]
  <2> DEFINE e == PartSum(op, l, r, w, i)
             m == Pow2[PartWidth(w, i)]
  <2>1. raw[i] = e
    BY RawSumsAre
  <2>2. e \in Int /\ m \in Nat \ {0}
    <3>1. e \in Int
      BY CarryNext
    <3>2. PartWidth(w, i) \in Nat
      BY PartFacts
    <3> QED
      BY <3>1, <3>2, PowPositive
  <2>3. e % m = (a \div Pow2[Offset(i)]) % m
    BY PartOfSum
  <2> HIDE DEF raw, e, m
  <2>4. Mod(e, m) = e % m
    BY <2>2, ModIs
  <2> QED
    BY <2>1, <2>3, <2>4 DEF m
<1>3. Split(a % Pow2[w], w) = [i \in 1 .. N |-> (a \div Pow2[Offset(i)]) % Pow2[PartWidth(w, i)]]
  BY <1>1, SplitOfRemainder
<1>4. WideSumDiff(op, pl, Split(r, w), w, checkpoints)
        = [i \in 1 .. N |-> Mod(raw[i], Pow2[PartWidth(w, i)])]
  <2> HIDE DEF pl
  <2> QED
    BY <1>1 DEF WideSumDiff, raw
<1> HIDE DEF raw, a
<1> QED
  BY <1>2, <1>3, <1>4 DEF a

-----------------------------------------------------------------------------
(* Shifts.                                                                   *)

LEMMA AddBelow ==
    ASSUME NEW n \in Nat \ {0}, NEW m \in Nat \ {0}, NEW a \in Int, NEW c \in 0 .. n - 1
    PROVE  ((n * a) % (n * m)) + c = (n * a + c) % (n * m)
<1> DEFINE x == n * a + c
<1>1. x \in Int /\ x \div n = a /\ x % n = c
  <2>1. (n * a + c) \div n = a /\ (n * a + c) % n = c
    BY Quotient
  <2> QED
    BY <2>1
<1>2. (n * a) % (n * m) = n * (a % m)
  BY CommonFactor
<1> HIDE DEF x
<1>3. x % (n * m) = n * ((x \div n) % m) + (x % n)
  BY <1>1, RemainderByProduct
<1> QED
  BY <1>1, <1>2, <1>3 DEF x

(* Two parts of a number.                                                     *)
LEMMA TwoParts ==
    ASSUME NEW w \in Nat \ {0}, Parts(w) = 2, NEW l \in 0 .. Pow2[w] - 1
    PROVE  \E p1 \in 0 .. Pow2[PartBits] - 1, p2 \in 0 .. Pow2[PartWidth(w, 2)] - 1 :
               /\ Split(l, w)[1] = p1 /\ Split(l, w)[2] = p2 /\ Len(Split(l, w)) = 2
               /\ l = Pow2[PartBits] * p2 + p1
<1> DEFINE b == Pow2[PartBits]
           m == Pow2[PartWidth(w, 2)]
           p1 == Split(l, w)[1]
           p2 == Split(l, w)[2]
           one == 1
           two == 2
<1>1. one \in 1 .. Parts(w) /\ two \in 1 .. Parts(w) /\ one < Parts(w) /\ Len(Split(l, w)) = 2
      /\ two \in 1 .. Parts(w) + 1 /\ one + 1 = two /\ two + 1 = Parts(w) + 1
  <2>1. Len(Split(l, w)) = Parts(w)
    BY SplitFacts
  <2> QED
    BY <2>1
<1>2. p1 \in 0 .. b - 1 /\ p2 \in 0 .. m - 1
  <2> HIDE DEF one, two
  <2>1. PartWidth(w, one) = PartBits
    BY <1>1, PartFacts
  <2>2. Split(l, w)[one] \in 0 .. Pow2[PartWidth(w, one)] - 1
    BY <1>1, SplitFacts
  <2>3. Split(l, w)[two] \in 0 .. Pow2[PartWidth(w, two)] - 1
    BY <1>1, SplitFacts
  <2> QED
    BY <2>1, <2>2, <2>3 DEF one, two
<1>3. Pow2[Offset(one)] = 1 /\ Pow2[Offset(two)] = b
  <2>0. Offset(1) = 0
    BY PartFacts
  <2> HIDE DEF one, two
  <2>1. Offset(one + 1) = Offset(one) + PartBits
    BY <1>1, PartFacts
  <2>2. Offset(one) = 0
    BY <2>0 DEF one
  <2>3. Offset(two) = PartBits
    BY <1>1, <2>1, <2>2, Positive
  <2> QED
    BY <2>2, <2>3, PowRecursion
<1>4. l = b * p2 + p1
  <2>1. Lower(l, one) = 0 /\ Lower(l, Parts(w) + 1) = l
    BY LowerFacts
  <2>2. Lower(l, one + 1) = Lower(l, one) + Pow2[Offset(one)] * Split(l, w)[one]
    BY <1>1, LowerFacts
  <2>3. Lower(l, two + 1) = Lower(l, two) + Pow2[Offset(two)] * Split(l, w)[two]
    BY <1>1, LowerFacts
  <2>4. b \in Nat /\ m \in Nat
    <3>1. PartWidth(w, two) \in Nat
      BY <1>1, PartFacts
    <3> QED
      BY <3>1, Positive, PowPositive
  <2> DEFINE u == Lower(l, two)
             v == b * p2
  <2>5. u = 0 + 1 * p1 /\ l = u + v /\ p1 \in Int /\ p2 \in Int
    BY <1>1, <1>2, <1>3, <2>1, <2>2, <2>3, <2>4
  <2>6. v \in Int
    BY <2>4, <2>5
  <2> HIDE DEF u, v, p1, p2, b, m
  <2> QED
    BY <2>5, <2>6 DEF v
<1> QED
  BY <1>1, <1>2, <1>4

(* The parts of a number that has two.                                        *)
LEMMA SplitInTwo ==
    ASSUME NEW w \in Nat \ {0}, Parts(w) = 2, NEW x \in Int
    PROVE  Split(x % Pow2[w], w)
             = <<x % Pow2[PartBits], (x \div Pow2[PartBits]) % Pow2[PartWidth(w, 2)]>>
<1>1. Split(x % Pow2[w], w)
        = [i \in 1 .. Parts(w) |-> (x \div Pow2[Offset(i)]) % Pow2[PartWidth(w, i)]]
  BY SplitOfRemainder
<1> DEFINE one == 1
           two == 2
<1>2. one \in 1 .. Parts(w) /\ one < Parts(w) /\ one + 1 = two
  OBVIOUS
<1>3. Offset(one) = 0 /\ PartWidth(w, one) = PartBits /\ Offset(two) = PartBits
  <2>0. Offset(1) = 0
    BY PartFacts
  <2> HIDE DEF one, two
  <2>1. Offset(one + 1) = Offset(one) + PartBits /\ PartWidth(w, one) = PartBits
    BY <1>2, PartFacts
  <2>2. Offset(one) = 0
    BY <2>0 DEF one
  <2> QED
    BY <1>2, <2>1, <2>2, Positive
<1>4. x \div Pow2[0] = x
  <2>1. Pow2[0] = 1 /\ x \div 1 = x
    BY PowRecursion
  <2> QED
    BY <2>1
<1> DEFINE y(i) == (x \div Pow2[Offset(i)]) % Pow2[PartWidth(w, i)]
<1>5. y(1) = x % Pow2[PartBits] /\ y(2) = (x \div Pow2[PartBits]) % Pow2[PartWidth(w, 2)]
  BY <1>3, <1>4
<1>6. Split(x % Pow2[w], w) = [i \in 1 .. 2 |-> y(i)]
  BY <1>1
<1> HIDE DEF y
<1>7. [i \in 1 .. 2 |-> y(i)] = <<y(1), y(2)>>
  OBVIOUS
<1> QED
  BY <1>5, <1>6, <1>7

(* shl is right over one or two parts.                                        *)
LEMMA ShiftLeftIs ==
    ASSUME NEW w \in Nat \ {0}, NEW l \in 0 .. Pow2[w] - 1, NEW r \in 0 .. PartBits, r < w, NEW out \in BOOLEAN,
           Parts(w) <= 2, Parts(w) = 2 => r <= PartWidth(w, 2) /\ out,
           ~out => l * Pow2[r] < Pow2[w]
    PROVE  BitShift("left", Split(l, w), r, w, out) = Split((l * Pow2[r]) % Pow2[w], w)
<1> DEFINE S == Pow2[r]
           x == l * S
           m == Pow2[w]
           pl == Split(l, w)
           N == Parts(w)
<1>1. S \in Nat \ {0} /\ m \in Nat \ {0} /\ l \in Nat /\ N \in Nat \ {0} /\ x \in Nat /\ N \in {1, 2}
  <2>1. S \in Nat \ {0} /\ m \in Nat \ {0} /\ N \in Nat \ {0}
    BY Positive, PowPositive, PartFacts
  <2>2. l \in Nat
    BY <2>1
  <2> HIDE DEF S, N
  <2>3. x \in Nat
    BY <2>1, <2>2
  <2> QED
    BY <2>1, <2>2, <2>3 DEF N
<1>2. CASE N = 1
  <2>1. pl = <<l>> /\ PartWidth(w, 1) = w
    BY <1>2, SplitFacts, OnePart
  <2>2. ShiftPart("left", l, r, m, out) = x % m
    <3> HIDE DEF S, m
    <3>1. CASE out
      <4> HIDE DEF x
      <4>1. Mod(x, m) = x % m
        <5>1. x \in Int
          BY <1>1
        <5> QED
          BY <1>1, <5>1, ModIs
      <4> QED
        BY <3>1, <4>1 DEF ShiftPart, x, S
    <3>2. CASE ~out
      <4> HIDE DEF x
      <4>1. x \in 0 .. m - 1
        BY <1>1, <3>2 DEF x, S, m
      <4>2. x % m = x
        BY <1>1, <4>1, Small
      <4> QED
        BY <3>2, <4>2 DEF ShiftPart, x, S
    <3> QED
      BY <3>1, <3>2
  <2> DEFINE y == x % m
  <2>3. y \in 0 .. m - 1
    <3> HIDE DEF x, m
    <3>1. x \in Int
      BY <1>1
    <3> QED
      BY <1>1, <3>1, Division
  <2>4. Split(y, w) = <<y>>
    <3> HIDE DEF y
    <3> QED
      BY <1>2, <2>3, SplitFacts
  <2>5. BitShift("left", pl, r, w, out) = <<ShiftPart("left", l, r, m, out)>>
    <3> HIDE DEF pl
    <3> QED
      BY <2>1 DEF BitShift
  <2> QED
    BY <2>2, <2>4, <2>5
<1>3. CASE N = 2
  <2> DEFINE b == Pow2[PartBits]
             k == PartWidth(w, 2)
             m2 == Pow2[k]
  <2>1. PICK p1 \in 0 .. b - 1, p2 \in 0 .. m2 - 1 :
            pl[1] = p1 /\ pl[2] = p2 /\ Len(pl) = 2 /\ l = b * p2 + p1
    BY <1>3, TwoParts
  <2> DEFINE T == Pow2[PartBits - r]
             T2 == Pow2[k - r]
  <2>2. k \in Nat /\ PartBits - r \in Nat /\ k - r \in Nat /\ r \in Nat /\ out
    <3> DEFINE two == 2
    <3>1. two \in 1 .. N
      BY <1>3
    <3> HIDE DEF two, N
    <3>2. PartWidth(w, two) \in 1 .. PartBits
      BY <3>1, PartFacts DEF N
    <3>3. k \in 1 .. PartBits
      BY <3>2 DEF two
    <3> HIDE DEF k
    <3> QED
      BY <1>3, <3>3, Positive DEF k, N
  <2>3. b = S * T /\ m2 = S * T2 /\ T \in Nat \ {0} /\ T2 \in Nat \ {0} /\ b \in Nat \ {0} /\ m2 \in Nat \ {0}
    <3> DEFINE u == PartBits - r
               v == k - r
    <3>1. r + u = PartBits /\ r + v = k /\ u \in Nat /\ v \in Nat
      BY <2>2, Positive
    <3> HIDE DEF u, v
    <3>2. Pow2[r + u] = Pow2[r] * Pow2[u] /\ Pow2[r + v] = Pow2[r] * Pow2[v]
      BY <2>2, <3>1, PowSum
    <3> QED
      BY <2>2, <3>1, <3>2, Positive, PowPositive DEF u, v
  <2> DEFINE c == p1 \div T
  <2>4. BitShift("left", pl, r, w, out) = <<(p1 * S) % b, ((p2 * S) % m2) + c>>
    <3>1. PartWidth(w, 1) = PartBits
      <4> DEFINE one == 1
      <4>1. one \in 1 .. N /\ one < N
        BY <1>3
      <4> HIDE DEF one, N
      <4>2. PartWidth(w, one) = PartBits
        BY <4>1, PartFacts DEF N
      <4> QED
        BY <4>2 DEF one
    <3> HIDE DEF pl
    <3>2. BitShift("left", pl, r, w, out)
            = <<ShiftPart("left", pl[1], r, Pow2[PartWidth(w, 1)], TRUE),
                ShiftPart("left", pl[2], r, Pow2[PartWidth(w, 2)], out)
                  + ShiftPart("right", pl[1], PartBits - r, Pow2[PartBits], TRUE)>>
      BY <2>1 DEF BitShift
    <3>3. ShiftPart("left", p1, r, b, TRUE) = (p1 * S) % b
      <4> DEFINE z == p1 * S
      <4>1. z \in Int
        <5> HIDE DEF S, b
        <5> QED
          BY <1>1, <2>1
      <4> HIDE DEF z, b
      <4>2. Mod(z, b) = z % b
        BY <2>3, <4>1, ModIs
      <4> QED
        BY <4>2 DEF ShiftPart, z
    <3>4. ShiftPart("left", p2, r, m2, TRUE) = (p2 * S) % m2
      <4> DEFINE z == p2 * S
      <4>1. z \in Int
        <5> HIDE DEF S, m2
        <5> QED
          BY <1>1, <2>1
      <4> HIDE DEF z, m2
      <4>2. Mod(z, m2) = z % m2
        BY <2>3, <4>1, ModIs
      <4> QED
        BY <4>2 DEF ShiftPart, z
    <3>5. ShiftPart("right", p1, PartBits - r, Pow2[PartBits], TRUE) = c
      BY DEF ShiftPart
    <3> HIDE DEF c
    <3> QED
      BY <2>1, <2>2, <3>1, <3>2, <3>3, <3>4, <3>5
  <2>5. p1 \in Int /\ p2 \in Int /\ c \in 0 .. S - 1
    <3> HIDE DEF b, m2, S, T
    <3>1. p1 \in 0 .. T * S - 1
      <4>1. T * S = S * T
        BY <1>1, <2>3
      <4> QED
        BY <2>1, <2>3, <4>1
    <3>2. p1 \div T \in 0 .. S - 1
      BY <1>1, <2>3, <3>1, QuotientRange
    <3> QED
      BY <2>1, <2>3, <3>2
  <2>6. (p1 * S) \div b = c
    <3> HIDE DEF S, T
    <3>1. (S * p1) \div (S * T) = p1 \div T
      BY <1>1, <2>3, <2>5, CommonFactor
    <3>2. p1 * S = S * p1
      BY <1>1, <2>5
    <3> QED
      BY <2>3, <3>1, <3>2
  <2> DEFINE y == p1 * S
             z == p2 * S
  <2>7. x = b * z + y /\ y \in Int /\ z \in Int
    <3> HIDE DEF S, b
    <3>1. (b * p2 + p1) * S = b * (p2 * S) + p1 * S
      BY <1>1, <2>3, <2>5
    <3> QED
      BY <1>1, <2>1, <2>5, <3>1
  <2>8. x % b = y % b
    <3> HIDE DEF y, z, b, x
    <3>1. (y + b * z) % b = y % b
      BY <2>3, <2>7, SameRemainder
    <3>2. y + b * z = x
      <4> DEFINE u == b * z
      <4>1. u \in Int
        BY <2>3, <2>7
      <4> HIDE DEF u
      <4> QED
        BY <2>7, <4>1 DEF u
    <3> QED
      BY <3>1, <3>2
  <2>9. x \div b = z + c
    <3> HIDE DEF y, z, b, x
    <3>1. (y + b * z) \div b = (y \div b) + z
      BY <2>3, <2>7, AddMultiple
    <3>2. y + b * z = x
      <4> DEFINE u == b * z
      <4>1. u \in Int
        BY <2>3, <2>7
      <4> HIDE DEF u
      <4> QED
        BY <2>7, <4>1 DEF u
    <3>3. y \div b = c
      BY <2>6 DEF y
    <3> HIDE DEF c
    <3>4. c + z = z + c
      BY <1>1, <2>5, <2>7
    <3> QED
      BY <3>1, <3>2, <3>3, <3>4
  <2>10. (z % m2) + c = (z + c) % m2
    <3> HIDE DEF S, c, T2
    <3>1. ((S * p2) % (S * T2)) + c = (S * p2 + c) % (S * T2)
      BY ZenonT(60), <1>1, <2>3, <2>5, AddBelow
    <3>2. S * p2 = z
      BY <1>1, <2>5
    <3> QED
      BY <2>3, <3>1, <3>2
  <2>11. Split(x % m, w) = <<x % b, (x \div b) % m2>>
    <3> HIDE DEF x
    <3> QED
      BY <1>1, <1>3, SplitInTwo
  <2> HIDE DEF c, x, y, z, b, m2, pl, m
  <2>12. BitShift("left", pl, r, w, out) = <<y % b, (z % m2) + c>>
    BY <2>4 DEF y, z
  <2>13. BitShift("left", pl, r, w, out) = Split(x % m, w)
    BY <2>8, <2>9, <2>10, <2>11, <2>12
  <2> QED
    BY <2>13 DEF pl, x, m
<1> QED
  BY <1>1, <1>2, <1>3

(* lshr is right over one or two parts.                                       *)
LEMMA ShiftRightIs ==
    ASSUME NEW w \in Nat \ {0}, NEW l \in 0 .. Pow2[w] - 1, NEW r \in 0 .. PartBits, NEW out \in BOOLEAN,
           Parts(w) <= 2
    PROVE  /\ l \div Pow2[r] \in 0 .. Pow2[w] - 1
           /\ BitShift("right", Split(l, w), r, w, out) = Split(l \div Pow2[r], w)
<1> DEFINE S == Pow2[r]
           x == l \div S
           m == Pow2[w]
           pl == Split(l, w)
           N == Parts(w)
<1>1. S \in Nat \ {0} /\ m \in Nat \ {0} /\ l \in Nat /\ l \in Int /\ N \in Nat \ {0} /\ N \in {1, 2}
  <2>1. S \in Nat \ {0} /\ m \in Nat \ {0} /\ N \in Nat \ {0}
    BY Positive, PowPositive, PartFacts
  <2>2. l \in Nat
    BY <2>1
  <2> QED
    BY <2>1, <2>2
<1>2. x \in 0 .. m - 1
  <2>1. l \in 0 .. m - 1
    OBVIOUS
  <2> HIDE DEF S, m
  <2>2. l \div S \in Nat /\ l \div S <= l
    BY <1>1, DividedRange
  <2> HIDE DEF x
  <2> QED
    BY <1>1, <2>1, <2>2 DEF x
<1>3. CASE N = 1
  <2>1. pl = <<l>>
    BY <1>3, SplitFacts
  <2>2. BitShift("right", pl, r, w, out) = <<ShiftPart("right", l, r, Pow2[PartWidth(w, 1)], out)>>
    <3> HIDE DEF pl
    <3> QED
      BY <2>1 DEF BitShift
  <2>3. Split(x, w) = <<x>>
    <3> HIDE DEF x
    <3> QED
      BY <1>2, <1>3, SplitFacts
  <2> QED
    BY <1>2, <2>2, <2>3 DEF ShiftPart
<1>4. CASE N = 2
  <2> DEFINE b == Pow2[PartBits]
             m2 == Pow2[PartWidth(w, 2)]
  <2>1. PICK p1 \in 0 .. b - 1, p2 \in 0 .. m2 - 1 :
            pl[1] = p1 /\ pl[2] = p2 /\ Len(pl) = 2 /\ l = b * p2 + p1
    BY <1>4, TwoParts
  <2> DEFINE u == PartBits - r
             T == Pow2[u]
             c == p1 \div S
  <2>2. u \in Nat /\ r + u = PartBits /\ r \in Nat
    BY Positive
  <2>3. b = T * S /\ T \in Nat \ {0} /\ b \in Nat \ {0}
    <3> HIDE DEF u
    <3>1. Pow2[r + u] = Pow2[r] * Pow2[u] /\ T \in Nat \ {0}
      BY <2>2, PowSum, PowPositive
    <3>2. b \in Nat \ {0} /\ b = S * T
      BY <2>2, <3>1, Positive
    <3> HIDE DEF b, S, T
    <3>3. S * T = T * S
      BY <1>1, <3>1
    <3> QED
      BY <3>1, <3>2, <3>3
  <2>4. m2 \in Nat \ {0}
    <3> DEFINE two == 2
    <3>1. two \in 1 .. N
      BY <1>4
    <3> HIDE DEF two, N
    <3>2. PartWidth(w, two) \in Nat
      BY <3>1, PartFacts DEF N
    <3> QED
      BY <3>2, PowPositive DEF two
  <2>5. p1 \in Int /\ p2 \in Nat /\ p2 \in Int /\ c \in 0 .. T - 1
    <3> HIDE DEF b, m2, S, T
    <3>1. p1 \in 0 .. S * T - 1
      <4>1. T * S = S * T
        BY <1>1, <2>3
      <4> QED
        BY <2>1, <2>3, <4>1
    <3>2. p1 \div S \in 0 .. T - 1
      BY <1>1, <2>3, <3>1, QuotientRange
    <3> QED
      BY <2>1, <2>3, <2>4, <3>2
  <2>6. BitShift("right", pl, r, w, out) = <<c + ((p2 * T) % b), p2 \div S>>
    <3> HIDE DEF pl
    <3>1. BitShift("right", pl, r, w, out)
            = <<ShiftPart("right", pl[1], r, Pow2[PartWidth(w, 1)], out)
                  + ShiftPart("left", pl[2], PartBits - r, Pow2[PartBits], TRUE),
                ShiftPart("right", pl[2], r, Pow2[PartWidth(w, 2)], TRUE)>>
      BY <2>1 DEF BitShift
    <3>2. ShiftPart("left", p2, u, b, TRUE) = (p2 * T) % b
      <4> DEFINE z == p2 * T
      <4>1. z \in Int
        <5> HIDE DEF T, b
        <5> QED
          BY <2>3, <2>5
      <4> HIDE DEF z, b
      <4>2. Mod(z, b) = z % b
        BY <2>3, <4>1, ModIs
      <4> QED
        BY <4>2 DEF ShiftPart, z
    <3>3. ShiftPart("right", pl[1], r, Pow2[PartWidth(w, 1)], out) = c
          /\ ShiftPart("right", pl[2], r, Pow2[PartWidth(w, 2)], TRUE) = p2 \div S
      BY <2>1 DEF ShiftPart
    <3> HIDE DEF c, T, b
    <3>4. ShiftPart("left", pl[2], PartBits - r, Pow2[PartBits], TRUE) = (p2 * T) % b
      BY <2>1, <3>2 DEF b, u
    <3> HIDE DEF S, u
    <3> QED
      BY <3>1, <3>3, <3>4
  <2>7. l \div b = p2
    <3> HIDE DEF b
    <3>0. p1 \in 0 .. b - 1 /\ p2 \in Int /\ b \in Nat \ {0}
      BY <2>3, <2>5
    <3>1. (b * p2 + p1) \div b = p2
      BY <3>0, Quotient
    <3> QED
      BY <2>1, <3>1
  <2>8. x = T * p2 + c
    <3> HIDE DEF S, b, T
    <3> DEFINE k == T * p2
    <3>1. l = p1 + S * k /\ k \in Int
      <4>1. k \in Int
        BY <2>3, <2>5
      <4>2. (T * S) * p2 = S * (T * p2)
        BY <1>1, <2>3, <2>5
      <4> DEFINE j == S * k
      <4>3. j \in Int /\ l = j + p1
        BY <1>1, <2>1, <2>3, <4>1, <4>2
      <4> HIDE DEF j, k
      <4>4. l = p1 + j
        BY <2>5, <4>3
      <4> QED
        BY <4>1, <4>4 DEF j
    <3> HIDE DEF k
    <3>2. (p1 + S * k) \div S = (p1 \div S) + k
      BY ZenonT(60), <1>1, <2>5, <3>1, AddMultiple
    <3>3. x = c + k
      BY <3>1, <3>2
    <3> HIDE DEF c, x
    <3> QED
      BY <2>3, <2>5, <3>1, <3>3 DEF k
  <2>9. x % b = ((p2 * T) % b) + c
    <3> HIDE DEF S, b, T, c, x
    <3>1. ((T * p2) % (T * S)) + c = (T * p2 + c) % (T * S)
      BY <1>1, <2>3, <2>5, AddBelow
    <3>2. p2 * T = T * p2
      BY <2>3, <2>5
    <3> QED
      BY <2>3, <2>8, <3>1, <3>2
  <2>10. ((p2 * T) % b) \in Int
    <3> HIDE DEF T, b
    <3>1. p2 * T \in Int
      BY <2>3, <2>5
    <3> DEFINE z == p2 * T
    <3> HIDE DEF z
    <3>2. z % b \in 0 .. b - 1
      BY <2>3, <3>1, Division DEF z
    <3> QED
      BY <2>3, <3>2 DEF z
  <2>11. (x \div b) % m2 = p2 \div S
    <3>1. x \div b = p2 \div S
      <4> HIDE DEF S, b, T
      <4>1. l \div (S * b) = (l \div S) \div b
        BY ZenonT(60), <1>1, <2>3, QuotientByProduct
      <4>2. l \div (b * S) = (l \div b) \div S
        BY ZenonT(60), <1>1, <2>3, QuotientByProduct
      <4>3. S * b = b * S
        BY <1>1, <2>3
      <4> QED
        BY <2>7, <4>1, <4>2, <4>3
    <3>2. p2 \div S \in 0 .. m2 - 1
      <4> HIDE DEF S, m2
      <4>1. p2 \div S \in Nat /\ p2 \div S <= p2
        BY <1>1, <2>5, DividedRange
      <4> DEFINE q == p2 \div S
      <4> HIDE DEF q
      <4>2. q \in 0 .. m2 - 1
        BY <2>1, <2>4, <4>1 DEF q
      <4> QED
        BY <4>2 DEF q
    <3> DEFINE q == p2 \div S
    <3> HIDE DEF q, m2
    <3>3. q % m2 = q
      BY <2>4, <3>2, Small DEF q
    <3> QED
      BY <3>1, <3>3 DEF q
  <2>12. Split(x % m, w) = <<x % b, (x \div b) % m2>>
    <3>1. x \in Int
      BY <1>2
    <3> HIDE DEF x
    <3> QED
      BY <1>4, <3>1, SplitInTwo
  <2>13. x % m = x
    <3> HIDE DEF x, m
    <3> QED
      BY <1>1, <1>2, Small
  <2>14. c + ((p2 * T) % b) = ((p2 * T) % b) + c
    <3> DEFINE z == (p2 * T) % b
    <3>1. z \in Int /\ c \in Int
      BY <2>3, <2>5, <2>10
    <3> HIDE DEF z, c
    <3>2. c + z = z + c
      BY <3>1
    <3> QED
      BY <3>2 DEF z
  <2> HIDE DEF x, c, T, S, b, m2, pl
  <2>15. BitShift("right", pl, r, w, out) = Split(x, w)
    BY <2>6, <2>9, <2>11, <2>12, <2>13, <2>14
  <2> QED
    BY <1>2, <2>15 DEF pl, x, S
<1>5. N = 1 \/ N = 2
  BY <1>1
<1> HIDE DEF N
<1> QED
  BY <1>3, <1>4, <1>5

(* The quotient of a negative number, where nothing is shifted out.           *)
LEMMA AShrIs ==
    ASSUME NEW w \in Nat \ {0}, NEW l \in 0 .. Pow2[w] - 1, NEW r \in Nat, r < w,
           ~(Signed(l, w) < 0 /\ l % Pow2[r] # 0)
    PROVE  AShr(l, r, w) = (Signed(l, w) \div Pow2[r]) % Pow2[w]
<1> DEFINE S == Pow2[r]
           m == Pow2[w]
           h == Pow2[w - 1]
           s == Signed(l, w)
<1>1. S \in Nat \ {0} /\ m \in Nat \ {0} /\ h \in Nat \ {0} /\ m = 2 * h /\ l \in 0 .. m - 1
  BY PowPositive, PowHalf
<1>2. s = (IF l < h THEN l ELSE l - m) /\ s \in Int
  BY <1>1, SignedFacts
<1>3. CASE l < h
  <2>1. AShr(l, r, w) = l \div S /\ s = l
    BY <1>2, <1>3 DEF AShr
  <2> DEFINE q == l \div S
  <2>2. q \in 0 .. m - 1
    <3> HIDE DEF S, m
    <3>1. l \in Nat /\ l < m
      BY <1>1
    <3>2. l \div S \in Nat /\ l \div S <= l
      BY <1>1, <3>1, DividedRange
    <3> HIDE DEF q
    <3>3. q \in Nat /\ q <= l
      BY <3>2 DEF q
    <3> QED
      BY <1>1, <3>1, <3>3
  <2>3. q % m = q
    <3> HIDE DEF q, m
    <3> QED
      BY <1>1, <2>2, Small
  <2> QED
    BY <2>1, <2>3
<1>4. CASE ~(l < h)
  <2> DEFINE q == l \div S
             k == Pow2[w - r]
             t == k - q
  <2>1. m = S * k /\ k \in Nat \ {0}
    <3> DEFINE u == w - r
    <3>1. u \in Nat /\ r + u = w
      OBVIOUS
    <3> HIDE DEF u
    <3>2. Pow2[r + u] = Pow2[r] * Pow2[u] /\ Pow2[u] \in Nat \ {0}
      BY <3>1, PowSum, PowPositive
    <3> QED
      BY <3>1, <3>2 DEF u
  <2>2. l % S = 0
    BY <1>1, <1>2, <1>4
  <2>3. l = S * q /\ q \in 0 .. k - 1
    <3> HIDE DEF S, k
    <3>1. l \in 0 .. S * k - 1 /\ l \in Int
      BY <1>1, <2>1
    <3>2. l \div S \in Int /\ l % S \in 0 .. S - 1 /\ l = S * (l \div S) + (l % S)
      BY <1>1, <3>1, Division
    <3>3. l \div S \in 0 .. k - 1
      BY <1>1, <2>1, <3>1, QuotientRange
    <3> HIDE DEF q
    <3>4. l = S * q + 0 /\ q \in Int /\ q \in 0 .. k - 1
      BY <2>2, <3>2, <3>3 DEF q
    <3>5. S * q \in Int
      BY <1>1, <3>4
    <3> DEFINE x == S * q
    <3> HIDE DEF x
    <3>6. l = x
      BY <3>4, <3>5 DEF x
    <3> QED
      BY <3>4, <3>6 DEF x
  <2> HIDE DEF q, k
  <2>4. t \in 1 .. k /\ -s = S * t /\ s = S * (-t) /\ s < 0
    <3> DEFINE x == S * q
               y == S * k
    <3>1. S * (k - q) = S * k - S * q /\ S * (-(k - q)) = S * q - S * k
      BY <1>1, <2>1, <2>3
    <3>2. x \in Int /\ y \in Int /\ l = x /\ m = y
      BY <1>1, <2>1, <2>3
    <3> HIDE DEF x, y, m, h, s
    <3>3. s = l - m /\ s < 0
      BY <1>1, <1>2, <1>4
    <3>4. -s = y - x /\ s = x - y
      BY <3>2, <3>3
    <3>5. t \in 1 .. k
      BY <2>1, <2>3
    <3> QED
      BY <3>1, <3>3, <3>4, <3>5 DEF x, y
  <2> HIDE DEF t
  <2>5. FloorDiv(-s, S) = t
    <3> DEFINE z == 0
    <3>1. t \in Int /\ z \in 0 .. S - 1 /\ S * t + z = S * t
      BY <1>1, <2>1, <2>4
    <3> HIDE DEF z, S
    <3>2. (S * t + z) \div S = t
      BY <1>1, <3>1, Quotient
    <3> HIDE DEF s
    <3>3. (-s) \div S = t
      BY <2>4, <3>1, <3>2
    <3> QED
      BY <1>1, <3>3 DEF FloorDiv
  <2>6. s \div S = -t
    <3> DEFINE z == 0
               n == -t
    <3>1. n \in Int /\ z \in 0 .. S - 1 /\ S * n + z = S * n
      BY <1>1, <2>1, <2>4
    <3>2. s = S * n
      BY <2>4
    <3> HIDE DEF z, S, n, s
    <3>3. (S * n + z) \div S = n
      BY <1>1, <3>1, Quotient
    <3> QED
      BY <3>1, <3>2, <3>3 DEF n
  <2>7. AShr(l, r, w) = -t + m
    <3>1. AShr(l, r, w) = CeilDiv(l - m, S) + m
      BY <1>4 DEF AShr
    <3>2. CeilDiv(l - m, S) = -t
      <4>1. l - m = s
        BY <1>2, <1>4
      <4> HIDE DEF s, S, m
      <4> QED
        BY <2>5, <4>1 DEF CeilDiv
    <3> QED
      BY <3>1, <3>2
  <2> DEFINE n == -t
  <2>8. n \in Int /\ -m <= n /\ n < 0
    <3>1. k <= m
      <4> HIDE DEF S, m
      <4>1. S * k >= 1 * k
        BY <1>1, <2>1
      <4> QED
        BY <1>1, <2>1, <4>1
    <3> HIDE DEF m
    <3> QED
      BY <1>1, <2>1, <2>4, <3>1
  <2>9. n % m = n + m
    <3> HIDE DEF n, m
    <3>1. n < 2 * m
      BY <1>1, <2>8
    <3>2. n % m = IF n < 0 THEN n + m ELSE IF n >= m THEN n - m ELSE n
      BY <1>1, <2>8, <3>1, NearResidue
    <3> QED
      BY <2>8, <3>2
  <2> QED
    BY <2>6, <2>7, <2>9
<1> QED
  BY <1>3, <1>4

-----------------------------------------------------------------------------
(* Products.                                                                 *)

LEMMA ProductMonotone ==
    ASSUME NEW a \in Nat, NEW b \in Nat, NEW c \in Nat, NEW d \in Nat, a <= c, b <= d
    PROVE  a * b <= c * d /\ a * b \in Nat
<1>1. a * b <= c * b
  BY Z3
<1>2. c * b <= c * d
  BY Z3
<1> DEFINE x == a * b
           y == c * b
           z == c * d
<1>3. x \in Nat /\ y \in Nat /\ z \in Nat /\ x <= y /\ y <= z
  BY <1>1, <1>2
<1> HIDE DEF x, y, z
<1>4. x <= z /\ x \in Nat
  BY <1>3
<1> QED
  BY <1>4 DEF x, z

(* The halves of a number.                                                    *)
LEMMA Halves ==
    ASSUME NEW w \in Nat \ {0}
    PROVE  /\ w \div 2 \in Nat /\ (w + 1) \div 2 \in Nat /\ w \div 2 + (w + 1) \div 2 = w
           /\ w \div 2 <= (w + 1) \div 2 /\ (w + 1) \div 2 <= w \div 2 + 1
           /\ (w % 2 = 0 => w \div 2 = (w + 1) \div 2)
OBVIOUS

(* What the products that need no reduction, or one, leave of a double.       *)
LEMMA Limits ==
    /\ ProductBits \in Nat /\ 2 * ProductBits <= DoubleBits - 1
    /\ UnreducedBits \in Nat /\ (DoubleBits - 2) \div 3 \in Nat /\ UnreducedBits = 2 * ((DoubleBits - 2) \div 3)
    /\ 3 * ((DoubleBits - 2) \div 3) <= DoubleBits - 2
<1> DEFINE D == DoubleBits
<1>1. D \in Nat /\ D >= 4
  BY Positive
<1> HIDE DEF D
<1>2. (D - 1) \div 2 \in Nat /\ 2 * ((D - 1) \div 2) <= D - 1
  BY <1>1
<1>3. (D - 2) \div 3 \in Nat /\ 3 * ((D - 2) \div 3) <= D - 2
  BY <1>1
<1> DEFINE x == (D - 1) \div 2
           y == (D - 2) \div 3
<1>4. ProductBits = x /\ UnreducedBits = 2 * y
  BY DEF ProductBits, UnreducedBits, D
<1> HIDE DEF x, y
<1>5. x \in Nat /\ 2 * x <= D - 1 /\ y \in Nat /\ 3 * y <= D - 2
  BY <1>2, <1>3 DEF x, y
<1>6. UnreducedBits \in Nat
  BY <1>4, <1>5
<1> QED
  BY <1>4, <1>5, <1>6 DEF y, D

(* The two halves, of h and g bits, their cross products and the last sum.    *)
Factors(l, r, w, H, G, l0, l1, r0, r1) ==
    /\ H = Pow2[w \div 2] /\ G = Pow2[(w + 1) \div 2] /\ Pow2[w] = H * G
    /\ H \in Nat \ {0} /\ G \in Nat \ {0} /\ H <= G
    /\ l0 = l % H /\ l1 = l \div H /\ r0 = r % H /\ r1 = r \div H
    /\ l0 \in 0 .. H - 1 /\ r0 \in 0 .. H - 1 /\ l1 \in 0 .. G - 1 /\ r1 \in 0 .. G - 1
    /\ l = H * l1 + l0 /\ r = H * r1 + r0

(* The halves of the operands of a product.                                   *)
LEMMA FactorsExist ==
    ASSUME NEW w \in Nat \ {0}, NEW l \in 0 .. Pow2[w] - 1, NEW r \in 0 .. Pow2[w] - 1
    PROVE  Factors(l, r, w, Pow2[w \div 2], Pow2[(w + 1) \div 2],
                   l % Pow2[w \div 2], l \div Pow2[w \div 2], r % Pow2[w \div 2], r \div Pow2[w \div 2])
<1> DEFINE h == w \div 2
           g == (w + 1) \div 2
           H == Pow2[h]
           G == Pow2[g]
<1>1. h \in Nat /\ g \in Nat /\ h + g = w /\ h <= g
  BY Halves
<1> HIDE DEF h, g
<1>2. H \in Nat \ {0} /\ G \in Nat \ {0} /\ Pow2[w] = H * G /\ H <= G
  BY <1>1, PowPositive, PowSum, PowMonotone
<1>3. ASSUME NEW n \in 0 .. Pow2[w] - 1
      PROVE  n % H \in 0 .. H - 1 /\ n \div H \in 0 .. G - 1 /\ n = H * (n \div H) + (n % H)
  <2> HIDE DEF H, G
  <2>1. n \in 0 .. H * G - 1 /\ n \in Int
    BY <1>2
  <2>2. n \div H \in 0 .. G - 1
    BY <1>2, <2>1, QuotientRange
  <2>3. n \div H \in Int /\ n % H \in 0 .. H - 1 /\ n = H * (n \div H) + (n % H)
    BY <1>2, <2>1, Division
  <2> QED
    BY <2>2, <2>3
<1> HIDE DEF H, G
<1>4. Factors(l, r, w, H, G, l % H, l \div H, r % H, r \div H)
  BY <1>2, <1>3 DEF Factors, H, G, h, g
<1> QED
  BY <1>4 DEF H, G, h, g

(* A sequence of three.                                                       *)
LEMMA ThreeSteps ==
    ASSUME NEW a \in Int, NEW b \in Int, NEW c \in Int
    PROVE  <<a, b>> \o <<c>> = <<a, b, c>>
<1> DEFINE s == <<a, b>>
           t == <<c>>
           u == s \o t
           v == <<a, b, c>>
<1>1. s \in Seq(Int) /\ t \in Seq(Int) /\ Len(s) = 2 /\ Len(t) = 1 /\ v \in Seq(Int) /\ Len(v) = 3
      /\ s[1] = a /\ s[2] = b /\ t[1] = c /\ v[1] = a /\ v[2] = b /\ v[3] = c
  OBVIOUS
<1> HIDE DEF s, t, v
<1>2. u \in Seq(Int) /\ Len(u) = 3 /\ \A i \in 1 .. 3 : u[i] = IF i <= 2 THEN s[i] ELSE t[i - 2]
  <2>1. /\ s \o t \in Seq(Int) /\ Len(s \o t) = Len(s) + Len(t)
        /\ \A i \in 1 .. Len(s) + Len(t) : (s \o t)[i] = IF i <= Len(s) THEN s[i] ELSE t[i - Len(s)]
    BY <1>1, ConcatProperties
  <2>2. u \in Seq(Int) /\ Len(u) = Len(s) + Len(t)
        /\ \A i \in 1 .. Len(s) + Len(t) : u[i] = IF i <= Len(s) THEN s[i] ELSE t[i - Len(s)]
    BY <2>1
  <2> HIDE DEF u
  <2> QED
    BY <1>1, <2>2
<1> HIDE DEF u
<1>3. u[1] = a /\ u[2] = b /\ u[3] = c
  BY <1>1, <1>2
<1>4. \A i \in 1 .. 3 : u[i] = v[i]
  <2>1. \A i \in 1 .. 3 : i = 1 \/ i = 2 \/ i = 3
    OBVIOUS
  <2> QED
    BY <1>1, <1>3, <2>1
<1>5. u = v
  <2>1. u = [i \in 1 .. 3 |-> u[i]] /\ v = [i \in 1 .. 3 |-> v[i]]
    BY <1>1, <1>2
  <2> QED
    BY <1>4, <2>1
<1> QED
  BY <1>5 DEF u, s, t, v

(* The products of the halves are exact in a double.                          *)
LEMMA CrossBound ==
    ASSUME NEW H \in Nat \ {0}, NEW G \in Nat \ {0}, NEW l0 \in 0 .. H - 1, NEW r0 \in 0 .. H - 1,
           NEW l1 \in 0 .. G - 1, NEW r1 \in 0 .. G - 1
    PROVE  /\ l0 * r1 + r0 * l1 \in Nat
           /\ l0 * r1 + r0 * l1 <= 2 * (H * G) - 2 * H
           /\ l0 * r0 \in Nat /\ l0 * r0 <= H * H - 1
<1> DEFINE G1 == G - 1
           H1 == H - 1
<1>1. G1 \in Nat /\ H1 \in Nat /\ H \in Nat /\ l0 \in Nat /\ r0 \in Nat /\ l1 \in Nat /\ r1 \in Nat
      /\ l0 <= H /\ r0 <= H /\ l1 <= G1 /\ r1 <= G1 /\ l0 <= H1 /\ r0 <= H1
  OBVIOUS
<1>2. H * G1 = H * G - H /\ H1 * H1 = H * H - 2 * H + 1
  OBVIOUS
<1> HIDE DEF G1, H1
<1>3. l0 * r1 <= H * G1 /\ l0 * r1 \in Nat
  BY <1>1, ProductMonotone
<1>4. r0 * l1 <= H * G1 /\ r0 * l1 \in Nat
  BY <1>1, ProductMonotone
<1>5. l0 * r0 <= H1 * H1 /\ l0 * r0 \in Nat
  BY <1>1, ProductMonotone
<1> DEFINE a == l0 * r1
           b == r0 * l1
           c == l0 * r0
           x == H * G
           y == H * H
<1>6. x \in Int /\ y \in Int
  OBVIOUS
<1> HIDE DEF a, b, c, x, y
<1>7. a \in Nat /\ b \in Nat /\ c \in Nat /\ a <= x - H /\ b <= x - H /\ c <= y - 2 * H + 1
  BY <1>2, <1>3, <1>4, <1>5 DEF a, b, c, x, y
<1>8. a + b \in Nat /\ a + b <= 2 * x - 2 * H /\ c \in Nat /\ c <= y - 1
  BY <1>6, <1>7
<1> QED
  BY <1>8 DEF a, b, c, x, y

(* The numbers on the way to a product of more than ProductBits bits.         *)
LEMMA StepsAre ==
    ASSUME NEW w \in Nat \ {0}, NEW l \in 0 .. Pow2[w] - 1, NEW r \in 0 .. Pow2[w] - 1, ~(w <= ProductBits),
           NEW H, NEW G, NEW l0, NEW l1, NEW r0, NEW r1, Factors(l, r, w, H, G, l0, l1, r0, r1)
    PROVE  LET c1 == l0 * r1 + r0 * l1
               c2 == IF w > UnreducedBits THEN c1 % G ELSE c1
           IN  ProductSteps(l, r, w) = <<c1, c2, c2 * H + l0 * r0>>
<1> DEFINE c1 == l0 * r1 + r0 * l1
           c2 == IF w > UnreducedBits THEN c1 % G ELSE c1
           last == c2 * H + l0 * r0
<1> USE DEF Factors
<1>1. c1 \in Int
  <2>1. l0 \in Int /\ l1 \in Int /\ r0 \in Int /\ r1 \in Int
    OBVIOUS
  <2> QED
    BY <2>1
<1>2. Mod(c1, G) = c1 % G
  <2> HIDE DEF c1
  <2> QED
    BY <1>1, ModIs
<1>3. CrossProducts(l, r, w) = <<c1, c2>>
  <2>1. CrossProducts(l, r, w) = IF w > UnreducedBits THEN <<c1, Mod(c1, G)>> ELSE <<c1, c1>>
    BY DEF CrossProducts
  <2> HIDE DEF c1, Factors
  <2> QED
    BY <1>2, <2>1
<1>4. ProductSteps(l, r, w) = <<c1, c2>> \o <<last>>
  <2>1. ProductSteps(l, r, w)
          = CrossProducts(l, r, w) \o <<CrossProducts(l, r, w)[2] * Pow2[w \div 2]
                                         + (l % Pow2[w \div 2]) * (r % Pow2[w \div 2])>>
    BY DEF ProductSteps
  <2> HIDE DEF c1, c2
  <2>2. CrossProducts(l, r, w)[2] = c2
    BY <1>3
  <2> QED
    BY <1>3, <2>1, <2>2
<1>a. c2 \in Int /\ last \in Int
  <2>1. c2 \in Int
    <3>1. c1 % G \in 0 .. G - 1
      <4> HIDE DEF c1
      <4> QED
        BY <1>1, Division
    <3> HIDE DEF c1
    <3> QED
      BY <1>1, <3>1
  <2> HIDE DEF c2
  <2>2. l0 \in Int /\ r0 \in Int /\ H \in Int
    OBVIOUS
  <2> HIDE DEF Factors
  <2> QED
    BY <2>1, <2>2
<1> HIDE DEF c1, c2, last, Factors
<1>5. <<c1, c2>> \o <<last>> = <<c1, c2, last>>
  BY <1>1, <1>a, ThreeSteps
<1> QED
  BY <1>4, <1>5 DEF c1, c2, last

(* A product of two numbers of w bits.                                        *)
LEMMA ProductRange ==
    ASSUME NEW w \in Nat, NEW l \in 0 .. Pow2[w] - 1, NEW r \in 0 .. Pow2[w] - 1
    PROVE  l * r \in Nat /\ l * r < Pow2[2 * w]
<1> DEFINE m == Pow2[w]
           k == m - 1
           v == 2 * w
<1>1. m \in Nat \ {0} /\ k \in Nat /\ l \in Nat /\ r \in Nat /\ l <= k /\ r <= k
  <2>1. m \in Nat \ {0} /\ l \in 0 .. m - 1 /\ r \in 0 .. m - 1
    BY PowPositive
  <2> HIDE DEF m
  <2> QED
    BY <2>1
<1>2. Pow2[v] = m * m
  <2>1. w + w = v
    OBVIOUS
  <2> QED
    BY <2>1, PowSum
<1> HIDE DEF k, v
<1>3. l * r <= k * k /\ l * r \in Nat
  BY <1>1, ProductMonotone
<1>4. k * k < m * m
  <2> HIDE DEF m
  <2>1. k * k = m * m - 2 * m + 1
    BY <1>1 DEF k
  <2> DEFINE x == m * m
             y == k * k
  <2>2. x \in Int /\ y = x - 2 * m + 1
    BY <1>1, <2>1
  <2> HIDE DEF x, y
  <2>3. y < x
    BY <1>1, <2>2
  <2> QED
    BY <2>3 DEF x, y
<1> DEFINE x == l * r
           y == k * k
           z == m * m
<1>5. x \in Nat /\ x <= y /\ y < z /\ y \in Int /\ z \in Int
  BY <1>1, <1>3, <1>4
<1> HIDE DEF x, y, z
<1>6. x \in Nat /\ x < z
  BY <1>5
<1> QED
  BY <1>2, <1>6 DEF x, z, v

(* No step on the way to a product leaves the integers of a double.           *)
LEMMA StepsAreExact ==
    ASSUME NEW w \in Nat \ {0}, NEW l \in 0 .. Pow2[w] - 1, NEW r \in 0 .. Pow2[w] - 1, w <= SplitBits
    PROVE  \A i \in 1 .. 4 : i <= Len(ProductSteps(l, r, w)) => ProductSteps(l, r, w)[i] < Pow2[DoubleBits]
<1> DEFINE D == DoubleBits
           d == Pow2[D]
<1>0. D \in Nat /\ w \in Nat /\ w <= D - 3 /\ d \in Nat
  <2>1. D \in Nat /\ w <= D - 3
    BY Positive DEF SplitBits
  <2> QED
    BY <2>1, PowPositive
<1>1. CASE w <= ProductBits
  <2> DEFINE v == 2 * w
  <2>1. l * r \in Nat /\ l * r < Pow2[v]
    BY <1>0, ProductRange
  <2>2. Pow2[v] <= d /\ Pow2[v] \in Nat
    <3>1. v \in Nat /\ v <= D
      BY <1>0, <1>1, Limits
    <3> HIDE DEF v
    <3> QED
      BY <1>0, <3>1, PowMonotone, PowPositive
  <2>3. ProductSteps(l, r, w) = <<l * r>>
    BY <1>1 DEF ProductSteps
  <2> DEFINE x == l * r
  <2>4. x < d
    <3> DEFINE y == Pow2[v]
    <3>1. x \in Nat /\ x < y /\ y <= d /\ y \in Nat
      BY <2>1, <2>2
    <3> HIDE DEF x, y, d
    <3> QED
      BY <1>0, <3>1
  <2> HIDE DEF x, d
  <2> QED
    BY <2>3, <2>4 DEF x, d
<1>2. CASE ~(w <= ProductBits)
  <2> DEFINE h == w \div 2
             g == (w + 1) \div 2
  <2>1. PICK H, G, l0, l1, r0, r1 : Factors(l, r, w, H, G, l0, l1, r0, r1)
    BY FactorsExist
  <2> DEFINE c1 == l0 * r1 + r0 * l1
             c2 == IF w > UnreducedBits THEN c1 % G ELSE c1
             last == c2 * H + l0 * r0
             x == H * G
             y == H * H
             n == l0 * r0
  <2>2. ProductSteps(l, r, w) = <<c1, c2, last>>
    <3> HIDE DEF D
    <3> QED
      BY <1>2, <2>1, StepsAre
  <2>3. H \in Nat \ {0} /\ G \in Nat \ {0} /\ x = Pow2[w] /\ H = Pow2[h] /\ G = Pow2[g] /\ H <= G
        /\ h \in Nat /\ g \in Nat /\ h + g = w
        /\ l0 \in 0 .. H - 1 /\ r0 \in 0 .. H - 1 /\ l1 \in 0 .. G - 1 /\ r1 \in 0 .. G - 1
    BY <2>1, Halves DEF Factors
  <2>4. c1 \in Nat /\ c1 <= 2 * x - 2 * H /\ n \in Nat /\ n <= y - 1
    BY <2>3, CrossBound
  <2>5. x \in Nat /\ y \in Nat /\ y <= x /\ 8 * x <= d
    <3>1. y <= x /\ y \in Nat
      <4> DEFINE a == H
      <4>1. H \in Nat /\ G \in Nat /\ H <= G
        BY <2>3
      <4>2. H * H <= H * G /\ H * H \in Nat
        BY <4>1, ProductMonotone
      <4> QED
        BY <4>2
    <3>2. x \in Nat
      BY <1>0, <2>3, PowPositive
    <3>3. 8 * x <= d
      <4>1. Pow2[w + 1] = 2 * Pow2[w] /\ Pow2[(w + 1) + 1] = 2 * Pow2[w + 1]
            /\ Pow2[((w + 1) + 1) + 1] = 2 * Pow2[(w + 1) + 1]
        BY <1>0, PowRecursion
      <4> DEFINE v == ((w + 1) + 1) + 1
      <4>2. v \in Nat /\ v <= D
        BY <1>0
      <4>3. Pow2[v] <= d
        <5> HIDE DEF v
        <5> QED
          BY <1>0, <4>2, PowMonotone
      <4>4. Pow2[w] \in Nat
        BY <1>0, PowPositive
      <4> DEFINE p == Pow2[w]
                 p1 == Pow2[w + 1]
                 p2 == Pow2[(w + 1) + 1]
                 p3 == Pow2[((w + 1) + 1) + 1]
      <4>5. p \in Nat /\ p1 = 2 * p /\ p2 = 2 * p1 /\ p3 = 2 * p2 /\ p3 <= d /\ x = p
        BY <2>3, <4>1, <4>3, <4>4
      <4> HIDE DEF p, p1, p2, p3, x, d
      <4> QED
        BY <4>5
    <3> QED
      BY <3>1, <3>2, <3>3
  <2>6. c1 < d /\ n < d
    <3> HIDE DEF c1, n, x, y, d
    <3> QED
      BY <1>0, <2>3, <2>4, <2>5
  <2>7. CASE w > UnreducedBits
    <3>1. c2 = c1 % G /\ c2 \in 0 .. G - 1
      <4>1. c2 = c1 % G
        BY <2>7
      <4>2. c1 \in Int
        BY <2>4
      <4> HIDE DEF c1
      <4>3. c1 % G \in 0 .. G - 1
        BY <2>3, <4>2, Division
      <4> HIDE DEF c2
      <4> QED
        BY <4>1, <4>3
    <3> DEFINE z == c2 * H
               G1 == G - 1
    <3>2. z \in Nat /\ z <= x - H
      <4>1. c2 \in Nat /\ c2 <= G1 /\ G1 \in Nat /\ H \in Nat /\ H <= H
        <5> HIDE DEF c2
        <5> QED
          BY <2>3, <3>1
      <4> HIDE DEF c2, G1
      <4>2. c2 * H <= G1 * H /\ c2 * H \in Nat
        BY <4>1, ProductMonotone
      <4>3. G1 * H = H * G - H
        BY <2>3 DEF G1
      <4> QED
        BY <4>2, <4>3
    <3>3. c2 <= z
      <4>1. c2 \in Nat /\ H \in Nat /\ 1 <= H
        <5> HIDE DEF c2
        <5> QED
          BY <2>3, <3>1
      <4> HIDE DEF c2
      <4>2. c2 * 1 <= c2 * H
        BY <4>1, Z3
      <4> QED
        BY <4>1, <4>2
    <3>4. last = z + n /\ c2 \in Nat
      <4>1. c2 \in Nat
        <5> HIDE DEF c2
        <5> QED
          BY <2>3, <3>1
      <4> QED
        BY <4>1
    <3> HIDE DEF z, n, x, y, d, c1, c2, last
    <3>5. last < d /\ c2 < d
      BY <1>0, <2>3, <2>4, <2>5, <3>2, <3>3, <3>4
    <3> QED
      BY <2>2, <2>6, <3>5 DEF d
  <2>8. CASE ~(w > UnreducedBits)
    <3> DEFINE k == (DoubleBits - 2) \div 3
               z == c2 * H
               X == 2 * x - 2 * H
               Y == H * x
               Z == H * H
    <3>1. c2 = c1
      BY <2>8
    <3>2. h <= k /\ g <= k /\ k \in Nat /\ 3 * k <= D - 2
      <4>1. k \in Nat /\ UnreducedBits = 2 * k /\ 3 * k <= D - 2
        BY Limits
      <4> HIDE DEF k, D
      <4>2. h <= k /\ g <= k
        BY <1>0, <2>8, <4>1
      <4> QED
        BY <4>1, <4>2
    <3>3. z <= X * H /\ z \in Nat
      <4>1. X \in Nat /\ c1 \in Nat /\ c1 <= X /\ H \in Nat /\ H <= H
        <5> HIDE DEF c1, x
        <5> QED
          BY <2>3, <2>4, <2>5
      <4> HIDE DEF c1, X
      <4>2. c1 * H <= X * H /\ c1 * H \in Nat
        BY <4>1, ProductMonotone
      <4> HIDE DEF c2
      <4> QED
        BY <3>1, <4>2
    <3>4. X * H = 2 * Y - 2 * Z
      <4> HIDE DEF x
      <4> QED
        BY <2>3, <2>5
    <3>5. Y \in Nat /\ 4 * Y <= d
      <4> DEFINE v == h + w
      <4>1. v \in Nat /\ (v + 1) \in Nat /\ (v + 1) + 1 \in Nat /\ (v + 1) + 1 <= D
        <5> HIDE DEF h, g, k, D
        <5> QED
          BY <1>0, <2>3, <3>2
      <4>2. Y = Pow2[v]
        <5> HIDE DEF h
        <5> QED
          BY <1>0, <2>3, PowSum
      <4> HIDE DEF v
      <4>3. Pow2[v + 1] = 2 * Pow2[v] /\ Pow2[(v + 1) + 1] = 2 * Pow2[v + 1] /\ Pow2[v] \in Nat
        BY <4>1, PowRecursion
      <4> DEFINE e == (v + 1) + 1
      <4>4. Pow2[e] <= d
        <5>1. e \in Nat /\ e <= D
          BY <4>1
        <5> HIDE DEF e
        <5> QED
          BY <1>0, <5>1, PowMonotone
      <4> DEFINE p == Pow2[v]
                 p1 == Pow2[v + 1]
                 p2 == Pow2[(v + 1) + 1]
      <4>5. p \in Nat /\ p1 = 2 * p /\ p2 = 2 * p1 /\ p2 <= d /\ Y = p
        BY <4>2, <4>3, <4>4
      <4> HIDE DEF p, p1, p2, Y, d
      <4> QED
        BY <4>5
    <3>6. Z = y /\ last = z + n
      OBVIOUS
    <3>7. Z \in Nat
      BY <2>5
    <3> DEFINE u == X * H
    <3>8. z <= u /\ u = 2 * Y - 2 * Z /\ z \in Nat
      BY <3>3, <3>4
    <3> HIDE DEF z, n, y, Y, Z, d, last, u
    <3>9. last < d
      BY <1>0, <2>4, <3>5, <3>6, <3>7, <3>8
    <3> HIDE DEF c1, c2
    <3> QED
      BY <2>2, <2>6, <3>1, <3>9 DEF d
  <2> QED
    BY <2>7, <2>8
<1> QED
  BY <1>1, <1>2

(* A product of halves differs from the product by a multiple of 2^w, where   *)
(* the halves have the same width or the upper halves' product is even.       *)
LEMMA MultiplyWrapIs ==
    ASSUME NEW w \in Nat \ {0}, NEW l \in 0 .. Pow2[w] - 1, NEW r \in 0 .. Pow2[w] - 1,
           \/ w <= ProductBits
           \/ w % 2 = 0
           \/ ((l \div Pow2[w \div 2]) * (r \div Pow2[w \div 2])) % 2 = 0
    PROVE  MultiplyWrap(l, r, w) = (l * r) % Pow2[w]
<1> DEFINE m == Pow2[w]
           x == l * r
<1>0. m \in Nat \ {0} /\ x \in Int /\ l \in Int /\ r \in Int
  <2>1. m \in Nat \ {0} /\ l \in Int /\ r \in Int
    BY PowPositive
  <2> QED
    BY <2>1
<1>1. CASE w <= ProductBits
  <2>1. ProductSteps(l, r, w) = <<x>>
    BY <1>1 DEF ProductSteps
  <2> HIDE DEF x, m
  <2>2. Mod(x, m) = x % m
    BY <1>0, ModIs
  <2>3. Last(<<x>>) = x
    BY DEF Last
  <2> QED
    BY <2>1, <2>2, <2>3 DEF MultiplyWrap, m, x
<1>2. CASE ~(w <= ProductBits)
  <2> DEFINE H  == Pow2[w \div 2]
             G  == Pow2[(w + 1) \div 2]
             l0 == l % H
             l1 == l \div H
             r0 == r % H
             r1 == r \div H
             c1 == l0 * r1 + r0 * l1
             c2 == IF w > UnreducedBits THEN c1 % G ELSE c1
             last == c2 * H + l0 * r0
             k2 == l1 * r1
  <2>1. Factors(l, r, w, H, G, l0, l1, r0, r1)
    BY FactorsExist
  <2>2. ProductSteps(l, r, w) = <<c1, c2, last>>
    <3> HIDE DEF H, G, l0, l1, r0, r1
    <3> QED
      BY <1>2, <2>1, StepsAre
  <2>3. H \in Nat \ {0} /\ G \in Nat \ {0} /\ m = H * G
        /\ l0 \in Int /\ r0 \in Int /\ l1 \in Int /\ r1 \in Int
        /\ l = H * l1 + l0 /\ r = H * r1 + r0
    <3> HIDE DEF H, G, l0, l1, r0, r1, m
    <3>1. H \in Nat \ {0} /\ G \in Nat \ {0} /\ m = H * G /\ l0 \in 0 .. H - 1 /\ r0 \in 0 .. H - 1
          /\ l1 \in 0 .. G - 1 /\ r1 \in 0 .. G - 1 /\ l = H * l1 + l0 /\ r = H * r1 + r0
      BY <2>1 DEF Factors, m
    <3> QED
      BY <3>1
  <2>4. \E e \in Int : H * k2 = G * e
    <3>1. CASE w % 2 = 0
      <4>1. w \div 2 = (w + 1) \div 2
        BY <3>1
      <4>2. G = H
        BY <4>1
      <4> HIDE DEF H, G, l1, r1
      <4>3. k2 \in Int /\ H * k2 = G * k2
        BY <2>3, <4>2
      <4> QED
        BY <4>3
    <3>2. CASE ~(w % 2 = 0)
      <4> DEFINE h == w \div 2
      <4>1. h \in Nat /\ (w + 1) \div 2 = h + 1
        BY <3>2
      <4>2. G = 2 * H
        <5> HIDE DEF h
        <5>1. Pow2[h + 1] = 2 * Pow2[h]
          BY <4>1, PowRecursion
        <5> QED
          BY <4>1, <5>1 DEF h
      <4>3. k2 % 2 = 0
        BY <1>2, <3>2
      <4> HIDE DEF H, G, l1, r1
      <4>4. k2 \in Int
        BY <2>3
      <4> DEFINE e == k2 \div 2
      <4>5. e \in Int /\ k2 = 2 * e
        <5> HIDE DEF k2
        <5> QED
          BY <4>3, <4>4
      <4> HIDE DEF k2, e
      <4>6. H * (2 * e) = (2 * H) * e
        BY <2>3, <4>5
      <4> QED
        BY <4>2, <4>5, <4>6
    <3> QED
      BY <3>1, <3>2
  <2> HIDE DEF H, G, l0, l1, r0, r1
  <2>5. PICK e \in Int : H * k2 = G * e
    BY <2>4
  <2>6. c1 \in Int /\ k2 \in Int
    BY <2>3
  <2>7. \E j \in Int : c2 \in Int /\ c1 = c2 + G * j
    <3> HIDE DEF c1
    <3>1. CASE w > UnreducedBits
      <4> DEFINE j == c1 \div G
      <4>1. j \in Int /\ c1 % G \in 0 .. G - 1 /\ c1 = G * j + (c1 % G)
        BY <2>3, <2>6, Division
      <4>2. c2 = c1 % G
        BY <3>1
      <4> HIDE DEF j, c2
      <4>3. c2 \in Int /\ c1 = G * j + c2
        BY <2>3, <4>1, <4>2
      <4> DEFINE z == G * j
      <4>4. z \in Int
        BY <2>3, <4>1
      <4> HIDE DEF z
      <4>5. c1 = c2 + z
        BY <4>3, <4>4 DEF z
      <4> QED
        BY <4>1, <4>3, <4>5 DEF z
    <3>2. CASE ~(w > UnreducedBits)
      <4> DEFINE j == 0
      <4>1. c2 = c1 /\ G * j = 0 /\ j \in Int
        BY <2>3, <3>2
      <4> HIDE DEF c2, j
      <4>2. c2 \in Int /\ c1 = c2 + G * j
        BY <2>6, <4>1
      <4> QED
        BY <4>1, <4>2
    <3> QED
      BY <3>1, <3>2
  <2>8. PICK j \in Int : c2 \in Int /\ c1 = c2 + G * j
    BY <2>7
  <2> DEFINE k == j + e
  <2>9. x = last + m * k
    <3>1. x = (H * H) * k2 + H * c1 + l0 * r0
      <4>1. (H * l1 + l0) * (H * r1 + r0) = (H * H) * (l1 * r1) + H * (l0 * r1 + r0 * l1) + l0 * r0
        BY <2>3, Z3
      <4> QED
        BY <2>3, <4>1
    <3> HIDE DEF c1, c2, k2, x
    <3> DEFINE n == l0 * r0
    <3>2. n \in Int /\ last = c2 * H + n
      BY <2>3
    <3> HIDE DEF n, last
    <3>3. (H * H) * k2 = (H * G) * e
      <4>1. (H * H) * k2 = H * (H * k2) /\ (H * G) * e = H * (G * e)
        BY <2>3, <2>6, Z3
      <4> QED
        BY <2>5, <4>1
    <3>4. H * c1 = c2 * H + (H * G) * j
      <4>1. H * (c2 + G * j) = c2 * H + (H * G) * j
        BY <2>3, <2>8, Z3
      <4> QED
        BY <2>8, <4>1
    <3>5. m * k = (H * G) * j + (H * G) * e
      <4> DEFINE y == H * G
      <4>1. y \in Int
        BY <2>3
      <4> HIDE DEF y, m
      <4>2. y * (j + e) = y * j + y * e
        BY <4>1
      <4> QED
        BY <2>3, <4>2 DEF y
    <3> DEFINE a == c2 * H
               b == (H * G) * j
               c == (H * G) * e
               d == H * c1
               f == (H * H) * k2
               mk == m * k
    <3>6. a \in Int /\ b \in Int /\ c \in Int
      BY <2>3, <2>8
    <3>7. x = f + d + n /\ last = a + n /\ f = c /\ d = a + b /\ mk = b + c
      BY <3>1, <3>2, <3>3, <3>4, <3>5 DEF n
    <3> HIDE DEF a, b, c, d, f, mk, m, k
    <3>8. x = last + mk
      BY <3>2, <3>6, <3>7
    <3> QED
      BY <3>8 DEF mk
  <2>10. last \in Int
    <3>1. l0 * r0 \in Int
      BY <2>3
    <3> HIDE DEF c2
    <3>2. c2 * H \in Int
      BY <2>3, <2>8
    <3> QED
      BY <3>1, <3>2
  <2>11. last % m = x % m
    <3>1. k \in Int
      OBVIOUS
    <3> HIDE DEF last, x, m, k
    <3>2. (last + m * k) % m = last % m
      BY <1>0, <2>10, <3>1, SameRemainder
    <3> QED
      BY <2>9, <3>2
  <2>12. Mod(last, m) = last % m
    <3> HIDE DEF last, m
    <3> QED
      BY <1>0, <2>10, ModIs
  <2>13. Last(ProductSteps(l, r, w)) = last
    <3> HIDE DEF c1, c2, last
    <3> QED
      BY <2>2 DEF Last
  <2> HIDE DEF last, x, m
  <2> QED
    BY <2>11, <2>12, <2>13 DEF MultiplyWrap, m, x
<1> QED
  BY <1>1, <1>2

-----------------------------------------------------------------------------
(* Comparisons of several parts.                                             *)

(* A part decides over what is below it.                                      *)
LEMMA HigherPartDecides ==
    ASSUME NEW p \in Nat \ {0}, NEW a \in 0 .. p - 1, NEW b \in 0 .. p - 1, NEW x \in Int, NEW y \in Int
    PROVE  /\ x = y => (a + p * x < b + p * y <=> a < b) /\ (a + p * x = b + p * y <=> a = b)
           /\ x < y => a + p * x < b + p * y
           /\ y < x => b + p * y < a + p * x
<1> DEFINE u == p * x
           v == p * y
<1>1. u \in Int /\ v \in Int /\ (x = y => u = v)
  OBVIOUS
<1>2. ASSUME x < y PROVE u <= v - p
  <2>1. x <= y - 1
    BY <1>2
  <2>2. p * x <= p * (y - 1) /\ p * (y - 1) = p * y - p
    BY <2>1, Z3
  <2> QED
    BY <2>2
<1>3. ASSUME y < x PROVE v <= u - p
  <2>1. y <= x - 1
    BY <1>3
  <2>2. p * y <= p * (x - 1) /\ p * (x - 1) = p * x - p
    BY <2>1, Z3
  <2> QED
    BY <2>2
<1> HIDE DEF u, v
<1>4. /\ x = y => (a + u < b + v <=> a < b) /\ (a + u = b + v <=> a = b)
      /\ x < y => a + u < b + v
      /\ y < x => b + v < a + u
  BY <1>1, <1>2, <1>3
<1> QED
  BY <1>4 DEF u, v

(* The first part that differs, from the top, decides the order.              *)
LEMMA PartsDecide ==
    ASSUME NEW w \in Nat \ {0}, NEW l \in 0 .. Pow2[w] - 1, NEW r \in 0 .. Pow2[w] - 1,
           NEW i \in 1 .. Parts(w), NEW x, NEW y, x = Split(l, w)[i], y = Split(r, w)[i]
    PROVE  /\ x \in Int /\ y \in Int
           /\ Lower(l, i) \in Int /\ Lower(r, i) \in Int /\ Lower(l, i + 1) \in Int /\ Lower(r, i + 1) \in Int
           /\ x = y => (Lower(l, i + 1) < Lower(r, i + 1) <=> Lower(l, i) < Lower(r, i))
                       /\ (Lower(l, i + 1) = Lower(r, i + 1) <=> Lower(l, i) = Lower(r, i))
           /\ x < y => Lower(l, i + 1) < Lower(r, i + 1)
           /\ y < x => Lower(r, i + 1) < Lower(l, i + 1)
<1> DEFINE p == Pow2[Offset(i)]
           a == Lower(l, i)
           b == Lower(r, i)
<1>1. i \in 1 .. Parts(w) + 1 /\ i + 1 \in 1 .. Parts(w) + 1
  BY PartFacts
<1>2. x \in Int /\ y \in Int
  <2>1. x \in 0 .. Pow2[PartWidth(w, i)] - 1
    BY SplitFacts
  <2>2. y \in 0 .. Pow2[PartWidth(w, i)] - 1
    BY SplitFacts
  <2>3. Pow2[PartWidth(w, i)] \in Nat
    BY PartFacts, PowPositive
  <2> QED
    BY <2>1, <2>2, <2>3
<1>3. a \in 0 .. p - 1 /\ p \in Nat \ {0} /\ Lower(l, i + 1) = a + p * x
  BY <1>1, LowerFacts
<1>4. b \in 0 .. p - 1 /\ Lower(r, i + 1) = b + p * y
  BY <1>1, LowerFacts
<1> HIDE DEF p, a, b
<1>5. /\ x = y => (a + p * x < b + p * y <=> a < b) /\ (a + p * x = b + p * y <=> a = b)
      /\ x < y => a + p * x < b + p * y
      /\ y < x => b + p * y < a + p * x
  BY <1>2, <1>3, <1>4, HigherPartDecides
<1>6. a + p * x \in Int /\ b + p * y \in Int /\ a \in Int /\ b \in Int
  BY <1>2, <1>3, <1>4
<1> QED
  BY <1>2, <1>3, <1>4, <1>5, <1>6 DEF a, b

(* Numbers with equal parts are equal.                                        *)
LEMMA EqualParts ==
    ASSUME NEW w \in Nat \ {0}, NEW l \in 0 .. Pow2[w] - 1, NEW r \in 0 .. Pow2[w] - 1,
           \A i \in 1 .. Parts(w) : Split(l, w)[i] = Split(r, w)[i]
    PROVE  l = r
<1> DEFINE N == Parts(w)
           T == {n \in Nat : n <= N => Lower(l, n + 1) = Lower(r, n + 1)}
<1>1. N \in Nat
  BY PartFacts
<1>2. Lower(l, 1) = 0 /\ Lower(l, N + 1) = l
  BY LowerFacts
<1>3. Lower(r, 1) = 0 /\ Lower(r, N + 1) = r
  BY LowerFacts
<1>4. 0 \in T
  BY <1>2, <1>3
<1>5. ASSUME NEW n \in Nat, n \in T PROVE n + 1 \in T
  <2> SUFFICES ASSUME n + 1 <= N PROVE Lower(l, (n + 1) + 1) = Lower(r, (n + 1) + 1)
    OBVIOUS
  <2> DEFINE i == n + 1
             x == Split(l, w)[i]
             y == Split(r, w)[i]
  <2>1. i \in 1 .. N /\ Lower(l, i) = Lower(r, i)
    BY <1>1, <1>5
  <2>2. x = y
    BY <2>1
  <2> HIDE DEF x, y, i, N
  <2>3. Lower(l, i + 1) = Lower(r, i + 1) <=> Lower(l, i) = Lower(r, i)
    BY <2>1, <2>2, PartsDecide DEF x, y, N
  <2> QED
    BY <2>1, <2>3 DEF i
<1> HIDE DEF T
<1>6. \A n \in Nat : n \in T
  BY <1>4, <1>5, Induction
<1>7. Lower(l, N + 1) = Lower(r, N + 1)
  BY <1>1, <1>6 DEF T
<1> QED
  BY <1>2, <1>3, <1>7

(* What Compares is for the unsigned conditions.                              *)
LEMMA UnsignedOrder ==
    ASSUME NEW a, NEW b, NEW w
    PROVE  /\ Compares("ugt", a, b, w) = (a > b) /\ Compares("ult", a, b, w) = (a < b)
           /\ Compares("uge", a, b, w) = (a >= b) /\ Compares("ule", a, b, w) = (a <= b)
BY DEF Compares

(* What ICmp is for the unsigned conditions.                                  *)
LEMMA UnsignedOrderOfOne ==
    ASSUME NEW a, NEW b, NEW w
    PROVE  /\ ICmp("ugt", a, b, w, "none", FALSE) = (a > b) /\ ICmp("ult", a, b, w, "none", FALSE) = (a < b)
           /\ ICmp("uge", a, b, w, "none", FALSE) = ~(a < b) /\ ICmp("ule", a, b, w, "none", FALSE) = ~(a > b)
BY DEF ICmp

(* Where >= and <= meet no part that differs but the lowest.                  *)
LEMMA UnsignedCompareIs ==
    ASSUME NEW w \in Nat \ {0}, NEW l \in 0 .. Pow2[w] - 1, NEW r \in 0 .. Pow2[w] - 1,
           NEW cond \in UnsignedConds, NEW n \in 1 .. Parts(w), NEW ps, NEW qs, Len(ps) = n,
           \A i \in 1 .. n : ps[i] = Split(l, w)[i] /\ qs[i] = Split(r, w)[i],
           cond \in {"uge", "ule"} => \A i \in 2 .. n : ps[i] = qs[i]
    PROVE  UnsignedCompare(cond, ps, qs) <=> Compares(cond, Lower(l, n + 1), Lower(r, n + 1), w)
<1> DEFINE order(i) == Compares(cond, Lower(l, i + 1), Lower(r, i + 1), w)
           strict(i) == IF cond \in {"ugt", "ule"} THEN ps[i] > qs[i] ELSE ps[i] < qs[i]
           D == 1 .. n
           g == [i \in D |-> order(i)]
           first == ICmp(cond, ps[1], qs[1], PartBits, "none", FALSE)
           step(h, i) == IF i = 1 THEN first
                         ELSE IF ps[i] = qs[i] THEN h[i - 1] ELSE strict(i)
<1>1. n \in Nat \ {0} /\ n <= Parts(w) /\ Parts(w) \in Nat
  BY PartFacts
<1>2. \A i \in 1 .. n + 1 : i - 1 \in 1 .. n => Lower(l, i) \in Int /\ Lower(r, i) \in Int
  <2> SUFFICES ASSUME NEW i \in 1 .. n + 1, i - 1 \in 1 .. n PROVE Lower(l, i) \in Int /\ Lower(r, i) \in Int
    OBVIOUS
  <2> DEFINE k == i - 1
             x == Split(l, w)[k]
             y == Split(r, w)[k]
  <2>1. k \in 1 .. Parts(w) /\ k + 1 = i
    BY <1>1
  <2> HIDE DEF k, x, y
  <2>2. Lower(l, k + 1) \in Int /\ Lower(r, k + 1) \in Int
    BY <2>1, PartsDecide DEF x, y
  <2> QED
    BY <2>1, <2>2
<1>3. \A i \in D : order(i) \in BOOLEAN
  <2>1. \A a, b : (a > b) \in BOOLEAN /\ (a < b) \in BOOLEAN /\ (a >= b) \in BOOLEAN /\ (a <= b) \in BOOLEAN
    OBVIOUS
  <2> SUFFICES ASSUME NEW i \in D PROVE order(i) \in BOOLEAN
    OBVIOUS
  <2> DEFINE a == Lower(l, i + 1)
             b == Lower(r, i + 1)
  <2> HIDE DEF a, b
  <2>2. Compares(cond, a, b, w) \in BOOLEAN
    <3>1. cond \in {"ugt", "ult", "uge", "ule"}
      BY DEF UnsignedConds
    <3>2. /\ Compares("ugt", a, b, w) = (a > b) /\ Compares("ult", a, b, w) = (a < b)
          /\ Compares("uge", a, b, w) = (a >= b) /\ Compares("ule", a, b, w) = (a <= b)
      BY UnsignedOrder
    <3> QED
      BY <2>1, <3>1, <3>2, Zenon
  <2> QED
    BY <2>2 DEF a, b
<1>4. first \in BOOLEAN
  <2>1. \A a, b : (a > b) \in BOOLEAN /\ (a < b) \in BOOLEAN /\ (~(a < b)) \in BOOLEAN /\ (~(a > b)) \in BOOLEAN
    OBVIOUS
  <2> DEFINE a == ps[1]
             b == qs[1]
  <2>2. /\ ICmp("ugt", a, b, PartBits, "none", FALSE) = (a > b)
        /\ ICmp("ult", a, b, PartBits, "none", FALSE) = (a < b)
        /\ ICmp("uge", a, b, PartBits, "none", FALSE) = ~(a < b)
        /\ ICmp("ule", a, b, PartBits, "none", FALSE) = ~(a > b)
    BY ZenonT(60), UnsignedOrderOfOne
  <2>3. cond \in {"ugt", "ult", "uge", "ule"}
    BY DEF UnsignedConds
  <2> QED
    BY <2>1, <2>2, <2>3, Zenon
<1>5. \A i \in D : strict(i) \in BOOLEAN
  <2>1. \A a, b : (a > b) \in BOOLEAN /\ (a < b) \in BOOLEAN
    OBVIOUS
  <2> SUFFICES ASSUME NEW i \in D PROVE strict(i) \in BOOLEAN
    OBVIOUS
  <2> QED
    BY <2>1, Zenon
<1>6. first <=> order(1)
  <2> DEFINE one == 1
             x == ps[one]
             y == qs[one]
  <2>1. one \in 1 .. n /\ one \in 1 .. Parts(w)
    BY <1>1
  <2>2. x = Split(l, w)[one] /\ y = Split(r, w)[one]
    BY <2>1
  <2>3. Lower(l, one) = 0 /\ Lower(r, one) = 0
    <3>1. Lower(l, one) = 0
      BY LowerFacts
    <3>2. Lower(r, one) = 0
      BY LowerFacts
    <3> QED
      BY <3>1, <3>2
  <2> DEFINE a == Lower(l, one + 1)
             b == Lower(r, one + 1)
  <2> HIDE DEF x, y, one
  <2>4. /\ x \in Int /\ y \in Int /\ a \in Int /\ b \in Int
        /\ x = y => (a < b <=> Lower(l, one) < Lower(r, one)) /\ (a = b <=> Lower(l, one) = Lower(r, one))
        /\ x < y => a < b
        /\ y < x => b < a
    BY <2>1, <2>2, PartsDecide
  <2>5. order(1) <=> Compares(cond, a, b, w)
    BY DEF one
  <2> HIDE DEF a, b
  <2>6. /\ x = y => a = b
        /\ x < y => a < b
        /\ y < x => b < a
    BY <2>3, <2>4
  <2>7. Compares(cond, a, b, w) <=> Compares(cond, x, y, w)
    BY <2>4, <2>6 DEF Compares, UnsignedConds
  <2>8. ICmp(cond, x, y, PartBits, "none", FALSE) <=> Compares(cond, x, y, w)
    BY <2>4 DEF ICmp, Compares, UnsignedConds
  <2> QED
    BY <2>5, <2>7, <2>8 DEF x, y, one
<1>7. ASSUME NEW i \in D, i # 1
      PROVE  /\ ps[i] = qs[i] => (order(i) <=> order(i - 1))
             /\ ps[i] # qs[i] => (order(i) <=> strict(i))
  <2> DEFINE x == ps[i]
             y == qs[i]
             a == Lower(l, i)
             b == Lower(r, i)
             c == Lower(l, i + 1)
             d == Lower(r, i + 1)
  <2>1. i \in 1 .. Parts(w) /\ (i - 1) + 1 = i /\ i \in 2 .. n
    BY <1>1, <1>7
  <2>2. x = Split(l, w)[i] /\ y = Split(r, w)[i] /\ (cond \in {"uge", "ule"} => x = y)
    BY <2>1
  <2> HIDE DEF x, y
  <2>3. /\ x \in Int /\ y \in Int /\ a \in Int /\ b \in Int /\ c \in Int /\ d \in Int
        /\ x = y => (c < d <=> a < b) /\ (c = d <=> a = b)
        /\ x < y => c < d
        /\ y < x => d < c
    BY <2>1, <2>2, PartsDecide
  <2>4. (order(i) <=> Compares(cond, c, d, w)) /\ (order(i - 1) <=> Compares(cond, a, b, w))
    BY <2>1
  <2>5. strict(i) <=> IF cond \in {"ugt", "ule"} THEN x > y ELSE x < y
    BY DEF x, y
  <2> HIDE DEF a, b, c, d, order, strict
  <2>6. x = y => (Compares(cond, c, d, w) <=> Compares(cond, a, b, w))
    BY <2>3 DEF Compares, UnsignedConds
  <2>7. x # y => (Compares(cond, c, d, w) <=> IF cond \in {"ugt", "ule"} THEN x > y ELSE x < y)
    <3> SUFFICES ASSUME x # y
                 PROVE  Compares(cond, c, d, w) <=> IF cond \in {"ugt", "ule"} THEN x > y ELSE x < y
      OBVIOUS
    <3>1. cond = "ugt" \/ cond = "ult"
      BY <2>2 DEF UnsignedConds
    <3>2. CASE cond = "ugt"
      <4>1. Compares(cond, c, d, w) <=> c > d
        BY <3>2, UnsignedOrder
      <4> QED
        BY <2>3, <3>2, <4>1
    <3>3. CASE cond = "ult"
      <4>1. Compares(cond, c, d, w) <=> c < d
        BY <3>3, UnsignedOrder
      <4> QED
        BY <2>3, <3>3, <4>1
    <3> QED
      BY <3>1, <3>2, <3>3
  <2> QED
    BY <2>4, <2>5, <2>6, <2>7 DEF x, y
<1>8. ASSUME NEW i \in D PROVE g[i] = step(g, i)
  <2>1. g[i] = order(i) /\ (i # 1 => g[i - 1] = order(i - 1))
    <3>1. i # 1 => i - 1 \in D
      BY <1>1
    <3> HIDE DEF order
    <3> QED
      BY <3>1
  <2>2. i # 1 => order(i - 1) \in BOOLEAN
    <3>1. i # 1 => i - 1 \in D
      BY <1>1
    <3> HIDE DEF order, D
    <3> QED
      BY <1>3, <3>1
  <2> DEFINE o == order(i)
             o1 == order(i - 1)
             s == strict(i)
  <2>3. o \in BOOLEAN /\ s \in BOOLEAN
    BY <1>3, <1>5
  <2>4. i = 1 => (o <=> first)
    BY <1>6
  <2>5. i # 1 => (ps[i] = qs[i] => (o <=> o1)) /\ (ps[i] # qs[i] => (o <=> s))
    BY <1>7
  <2> HIDE DEF order, strict, first, o, o1, s, g
  <2>6. i = 1 => o = first
    BY <1>4, <2>3, <2>4
  <2>7. i # 1 /\ ps[i] = qs[i] => o = o1
    BY <2>2, <2>3, <2>5 DEF o1
  <2>8. i # 1 /\ ps[i] # qs[i] => o = s
    BY <2>3, <2>5
  <2> QED
    BY <2>1, <2>6, <2>7, <2>8 DEF o, o1, s
<1>9. g = [i \in D |-> step(g, i)]
  <2>1. DOMAIN g = D /\ g = [i \in DOMAIN g |-> g[i]]
    OBVIOUS
  <2> HIDE DEF g, D, step
  <2> QED
    BY <1>8, <2>1
<1> DEFINE f == CHOOSE h : h = [i \in 1 .. Len(ps) |-> step(h, i)]
<1>10. f = [i \in D |-> step(f, i)]
  <2> DEFINE D2 == 1 .. Len(ps)
  <2>1. D2 = D
    OBVIOUS
  <2> HIDE DEF D
  <2>2. g = [i \in D2 |-> step(g, i)]
    BY <1>9, <2>1
  <2> HIDE DEF g, step
  <2>3. f = [i \in D2 |-> step(f, i)]
    BY <2>2
  <2> HIDE DEF f, D2
  <2> QED
    BY <2>1, <2>3
<1>11. UnsignedCompare(cond, ps, qs) = f[n]
  BY DEF UnsignedCompare
<1> HIDE DEF f, step, g
<1> DEFINE T == {k \in Nat : \A i \in D : i <= k => f[i] = g[i]}
<1>12. 0 \in T
  BY <1>1
<1>13. ASSUME NEW k \in Nat, k \in T PROVE k + 1 \in T
  <2> SUFFICES ASSUME NEW i \in D, i <= k + 1 PROVE f[i] = g[i]
    OBVIOUS
  <2>1. f[i] = step(f, i) /\ g[i] = step(g, i)
    <3> HIDE DEF D
    <3> QED
      BY <1>8, <1>10
  <2>2. i # 1 => f[i - 1] = g[i - 1]
    <3>1. i # 1 => i - 1 \in D /\ i - 1 <= k
      BY <1>1
    <3> QED
      BY <1>13, <3>1
  <2>3. step(f, i) = step(g, i)
    <3> HIDE DEF strict, first
    <3> QED
      BY <2>2 DEF step
  <2> QED
    BY <2>1, <2>3
<1> HIDE DEF T
<1>14. \A k \in Nat : k \in T
  BY <1>12, <1>13, Induction
<1>15. f[n] = g[n]
  BY <1>1, <1>14 DEF T
<1>16. g[n] = order(n)
  BY <1>1 DEF g
<1> HIDE DEF order
<1>17. UnsignedCompare(cond, ps, qs) = order(n)
  BY <1>11, <1>15, <1>16
<1> QED
  BY <1>17 DEF order

(* What Compares is for eq.                                                   *)
LEMMA EqualityOrder ==
    ASSUME NEW a, NEW b, NEW w
    PROVE  Compares("eq", a, b, w) <=> a = b
BY DEF Compares

(* What Compares is for ne.                                                   *)
LEMMA InequalityOrder ==
    ASSUME NEW a, NEW b, NEW w
    PROVE  Compares("ne", a, b, w) <=> a # b
BY DEF Compares

(* What LargeIntCompare is, condition by condition.                           *)
LEMMA LargeOrder ==
    ASSUME NEW pl, NEW pr, NEW w
    PROVE  /\ LargeIntCompare("eq", pl, pr, w) <=> \A i \in 1 .. Len(pl) : pl[i] = pr[i]
           /\ LargeIntCompare("ne", pl, pr, w) <=> ~(\A i \in 1 .. Len(pl) : pl[i] = pr[i])
           /\ LargeIntCompare("ugt", pl, pr, w) = UnsignedCompare("ugt", pl, pr)
           /\ LargeIntCompare("uge", pl, pr, w) = UnsignedCompare("uge", pl, pr)
           /\ LargeIntCompare("ult", pl, pr, w) = UnsignedCompare("ult", pl, pr)
           /\ LargeIntCompare("ule", pl, pr, w) = UnsignedCompare("ule", pl, pr)
BY DEF LargeIntCompare, UnsignedConds, SignedConds

(* What Compares is for the signed conditions.                                *)
LEMMA SignedOrder ==
    ASSUME NEW a, NEW b, NEW w
    PROVE  /\ Compares("sgt", a, b, w) = (Signed(a, w) > Signed(b, w))
           /\ Compares("slt", a, b, w) = (Signed(a, w) < Signed(b, w))
           /\ Compares("sge", a, b, w) = (Signed(a, w) >= Signed(b, w))
           /\ Compares("sle", a, b, w) = (Signed(a, w) <= Signed(b, w))
BY DEF Compares

(* The sign of a number is that of its top part.                              *)
LEMMA SignOfTop ==
    ASSUME NEW w \in Nat \ {0}, NEW l \in 0 .. Pow2[w] - 1, NEW n, n = Parts(w)
    PROVE  /\ Signed(l, w) = Lower(l, n) + Pow2[Offset(n)] * Signed(Split(l, w)[n], PartWidth(w, n))
           /\ Split(l, w)[n] \in 0 .. Pow2[PartWidth(w, n)] - 1
           /\ PartWidth(w, n) \in Nat \ {0} /\ Signed(Split(l, w)[n], PartWidth(w, n)) \in Int
<1> DEFINE k == PartWidth(w, n)
           k1 == k - 1
           o == Offset(n)
           p == Pow2[o]
           x == Split(l, w)[n]
           h == Pow2[k1]
           a == Lower(l, n)
           s == Signed(x, k)
<1>1. n \in 1 .. Parts(w) /\ n \in 1 .. Parts(w) + 1
  BY PartFacts
<1>2. o \in Nat /\ k \in Nat \ {0} /\ o + k = w /\ k1 \in Nat /\ o + k1 = w - 1
  <2>1. o \in Nat /\ k \in 1 .. PartBits
    BY <1>1, PartFacts
  <2>2. o + k = w
    BY PartFacts
  <2> HIDE DEF o, k
  <2> QED
    BY <2>1, <2>2, Positive
<1>3. Pow2[w] = p * Pow2[k] /\ Pow2[w - 1] = p * h /\ p \in Nat \ {0} /\ h \in Nat \ {0}
      /\ Pow2[k] = 2 * h
  <2>1. Pow2[o + k] = p * Pow2[k] /\ Pow2[o + k1] = p * h
    <3> HIDE DEF o, k1, k
    <3> QED
      BY <1>2, PowSum
  <2>2. p \in Nat \ {0} /\ h \in Nat \ {0}
    BY <1>2, PowPositive
  <2>3. Pow2[k] = 2 * h
    <3> HIDE DEF k
    <3> QED
      BY <1>2, PowHalf DEF k1
  <2> QED
    BY <1>2, <2>1, <2>2, <2>3
<1>4. a \in 0 .. p - 1 /\ l = a + p * x
  <2>1. Lower(l, n + 1) = l
    BY LowerFacts
  <2>2. Lower(l, n + 1) = a + p * x
    BY <1>1, LowerFacts
  <2>3. a \in 0 .. p - 1
    BY <1>1, LowerFacts
  <2> QED
    BY <2>1, <2>2, <2>3
<1>5. x \in 0 .. Pow2[k] - 1
  BY <1>1, SplitFacts
<1>6. s = (IF x < h THEN x ELSE x - Pow2[k]) /\ s \in Int
  <2>1. s = IF x < Pow2[k - 1] THEN x ELSE x - Pow2[k]
    <3> HIDE DEF k, x
    <3> QED
      BY <1>2, <1>5, SignedFacts
  <2>2. x \in Int /\ Pow2[k] \in Int
    BY <1>3, <1>5
  <2> HIDE DEF x
  <2> QED
    BY <2>1, <2>2
<1> DEFINE S == Signed(l, w)
<1>7. S = IF l < Pow2[w - 1] THEN l ELSE l - Pow2[w]
  BY SignedFacts
<1>8. l < p * h <=> x < h
  <2> HIDE DEF x, p, h, a
  <2>1. x \in Int
    BY <1>3, <1>5
  <2>2. a + p * x >= p * h <=> x > h - 1
    BY <1>3, <1>4, <2>1, OutOfRange
  <2> DEFINE u == p * x
             v == p * h
  <2>3. u \in Int /\ v \in Int
    BY <1>3, <2>1
  <2> HIDE DEF u, v
  <2>4. (l >= v <=> x > h - 1) /\ l = a + u
    BY <1>4, <2>2 DEF u, v
  <2>5. l < v <=> x < h
    BY <1>3, <1>4, <2>1, <2>3, <2>4
  <2> QED
    BY <2>5 DEF v
<1>9. S = a + p * s
  <2> HIDE DEF x, p, h, a, s, S
  <2>1. x \in Int /\ a \in Int
    BY <1>3, <1>4, <1>5
  <2>2. CASE x < h
    <3>1. S = l /\ s = x
      BY <1>3, <1>6, <1>7, <1>8, <2>2
    <3> QED
      BY <1>4, <3>1
  <2>3. CASE ~(x < h)
    <3> DEFINE m == Pow2[k]
    <3>1. S = l - p * m /\ s = x - m /\ m \in Int
      BY <1>3, <1>6, <1>7, <1>8, <2>3
    <3> HIDE DEF m
    <3>2. p * (x - m) = p * x - p * m
      BY <1>3, <2>1, <3>1
    <3> DEFINE u == p * x
               v == p * m
    <3>3. u \in Int /\ v \in Int /\ S = a + u - v /\ p * s = u - v
      BY <1>3, <1>4, <2>1, <3>1, <3>2
    <3> DEFINE z == p * s
    <3>4. S = a + u - v /\ z = u - v
      BY <3>3
    <3> HIDE DEF u, v, z
    <3>5. S = a + z
      BY <2>1, <3>3, <3>4
    <3> QED
      BY <3>5 DEF z
  <2> QED
    BY <2>2, <2>3
<1> QED
  BY <1>2, <1>5, <1>6, <1>9

(* Numbers of several parts are compared as LLVM compares them.               *)
LEMMA LargeIntCompareIs ==
    ASSUME NEW w \in Nat \ {0}, Parts(w) > 1, NEW l \in 0 .. Pow2[w] - 1, NEW r \in 0 .. Pow2[w] - 1,
           NEW cond \in Conds, ~DeviatesWide(cond, Split(l, w), Split(r, w))
    PROVE  LargeIntCompare(cond, Split(l, w), Split(r, w), w) <=> Compares(cond, l, r, w)
<1> DEFINE pl == Split(l, w)
           pr == Split(r, w)
           n == Parts(w)
<1>1. n \in Nat \ {0} /\ n > 1 /\ n - 1 \in 1 .. n /\ n \in 1 .. n
  BY PartFacts
<1>2. Len(pl) = n /\ pl \in Seq(Int) /\ pl # << >>
  <2>1. Len(pl) = n /\ \A i \in 1 .. n : pl[i] \in 0 .. Pow2[PartWidth(w, i)] - 1
    BY SplitFacts
  <2>2. \A i \in 1 .. n : Pow2[PartWidth(w, i)] \in Nat
    BY PartFacts, PowPositive
  <2>3. pl = [i \in 1 .. n |-> (l \div Pow2[Offset(i)]) % Pow2[PartWidth(w, i)]]
    BY SplitFacts
  <2> HIDE DEF pl
  <2>4. \A i \in 1 .. n : pl[i] \in Int
    BY <2>1, <2>2
  <2>5. pl = [i \in 1 .. n |-> pl[i]]
    BY <2>3
  <2> HIDE DEF n
  <2>6. pl \in [1 .. n -> Int]
    BY <2>4, <2>5
  <2> QED
    BY <1>1, <2>1, <2>6
<1>3. Len(pr) = n /\ pr \in Seq(Int) /\ pr # << >>
  <2>1. Len(pr) = n /\ \A i \in 1 .. n : pr[i] \in 0 .. Pow2[PartWidth(w, i)] - 1
    BY SplitFacts
  <2>2. \A i \in 1 .. n : Pow2[PartWidth(w, i)] \in Nat
    BY PartFacts, PowPositive
  <2>3. pr = [i \in 1 .. n |-> (r \div Pow2[Offset(i)]) % Pow2[PartWidth(w, i)]]
    BY SplitFacts
  <2> HIDE DEF pr
  <2>4. \A i \in 1 .. n : pr[i] \in Int
    BY <2>1, <2>2
  <2>5. pr = [i \in 1 .. n |-> pr[i]]
    BY <2>3
  <2> HIDE DEF n
  <2>6. pr \in [1 .. n -> Int]
    BY <2>4, <2>5
  <2> QED
    BY <1>1, <2>1, <2>6
<1>4. Lower(l, n + 1) = l
  BY LowerFacts
<1>5. Lower(r, n + 1) = r
  BY LowerFacts
<1>6. \A i \in 2 .. n : pl[i] = pr[i] \/ (cond \notin {"uge", "ule"} /\ (i < n => cond \notin {"sge", "sle"}))
  <2> HIDE DEF pl, pr
  <2> QED
    BY <1>2 DEF DeviatesWide, pl, pr
<1>7. CASE cond \in {"eq", "ne"}
  <2>1. (\A i \in 1 .. n : pl[i] = pr[i]) <=> l = r
    <3>1. ASSUME \A i \in 1 .. n : pl[i] = pr[i] PROVE l = r
      BY <3>1, EqualParts
    <3> QED
      BY <3>1
  <2> HIDE DEF pl, pr, n
  <2>2. CASE cond = "eq"
    <3>1. LargeIntCompare(cond, pl, pr, w) <=> \A i \in 1 .. n : pl[i] = pr[i]
      <4>1. LargeIntCompare("eq", pl, pr, w) <=> \A i \in 1 .. n : pl[i] = pr[i]
        BY <1>2, LargeOrder
      <4> QED
        BY <2>2, <4>1
    <3> QED
      BY <2>1, <2>2, <3>1, EqualityOrder DEF pl, pr
  <2>3. CASE cond = "ne"
    <3>1. LargeIntCompare(cond, pl, pr, w) <=> ~(\A i \in 1 .. n : pl[i] = pr[i])
      <4>1. LargeIntCompare("ne", pl, pr, w) <=> ~(\A i \in 1 .. n : pl[i] = pr[i])
        BY <1>2, LargeOrder
      <4> QED
        BY <2>3, <4>1
    <3> QED
      BY <2>1, <2>3, <3>1, InequalityOrder DEF pl, pr
  <2> QED
    BY <1>7, <2>2, <2>3
<1>8. CASE cond \in UnsignedConds
  <2>1. LargeIntCompare(cond, pl, pr, w) <=> UnsignedCompare(cond, pl, pr)
    <3> HIDE DEF pl, pr
    <3>1. LargeIntCompare(cond, pl, pr, w) = UnsignedCompare(cond, pl, pr)
      <4>1. cond = "ugt" \/ cond = "uge" \/ cond = "ult" \/ cond = "ule"
        BY <1>8 DEF UnsignedConds
      <4> QED
        BY <4>1, LargeOrder
    <3> QED
      BY <3>1
  <2>2. cond \in {"uge", "ule"} => \A i \in 2 .. n : pl[i] = pr[i]
    BY <1>6
  <2>3. \A i \in 1 .. n : pl[i] = Split(l, w)[i] /\ pr[i] = Split(r, w)[i]
    OBVIOUS
  <2> HIDE DEF pl, pr
  <2>4. UnsignedCompare(cond, pl, pr) <=> Compares(cond, Lower(l, n + 1), Lower(r, n + 1), w)
    BY <1>1, <1>2, <1>8, <2>2, <2>3, UnsignedCompareIs
  <2> QED
    BY <1>4, <1>5, <2>1, <2>4 DEF pl, pr
<1>9. CASE cond \in SignedConds
  <2> DEFINE strict == IF cond \in {"sgt", "sge"} THEN "sgt" ELSE "slt"
             unsigned == CASE cond = "sgt" -> "ugt" [] cond = "slt" -> "ult"
                           [] cond = "sge" -> "uge" [] cond = "sle" -> "ule"
             k == PartWidth(w, n)
             x == pl[n]
             y == pr[n]
             sx == Signed(x, k)
             sy == Signed(y, k)
             a == Lower(l, n)
             b == Lower(r, n)
             p == Pow2[Offset(n)]
             sl == Signed(l, w)
             sr == Signed(r, w)
  <2>1. sl = a + p * sx /\ x \in 0 .. Pow2[k] - 1 /\ k \in Nat \ {0} /\ sx \in Int
    BY SignOfTop
  <2>2. sr = b + p * sy /\ y \in 0 .. Pow2[k] - 1 /\ sy \in Int
    BY SignOfTop
  <2>3. LargeIntCompare(cond, pl, pr, w)
          <=> IF x = y THEN UnsignedCompare(unsigned, Front(pl), Front(pr))
              ELSE ICmp(strict, x, y, k, "none", FALSE)
    <3> HIDE DEF pl, pr, n
    <3> QED
      BY <1>2, <1>9 DEF LargeIntCompare, UnsignedConds, SignedConds
  <2>4. a \in 0 .. p - 1 /\ p \in Nat \ {0}
    <3>1. n \in 1 .. Parts(w) + 1
      BY <1>1
    <3> QED
      BY <3>1, LowerFacts
  <2>5. b \in 0 .. p - 1
    <3>1. n \in 1 .. Parts(w) + 1
      BY <1>1
    <3> QED
      BY <3>1, LowerFacts
  <2>6. /\ sx = sy => (sl < sr <=> a < b) /\ (sl = sr <=> a = b)
        /\ sx < sy => sl < sr
        /\ sy < sx => sr < sl
    <3> HIDE DEF sl, sr, a, b, p, sx, sy
    <3> QED
      BY <2>1, <2>2, <2>4, <2>5, HigherPartDecides
  <2>7. sl \in Int /\ sr \in Int /\ a \in Int /\ b \in Int
    <3>1. sl \in Int
      BY SignedFacts, PowHalf
    <3>2. sr \in Int
      BY SignedFacts, PowHalf
    <3> HIDE DEF a, b, p
    <3> QED
      BY <2>4, <2>5, <3>1, <3>2
  <2>8. CASE x = y
    <3>1. Len(Front(pl)) = n - 1 /\ \A i \in 1 .. n - 1 : Front(pl)[i] = pl[i]
      <4> HIDE DEF pl
      <4>1. Len(pl) > 0
        BY <1>1, <1>2
      <4>2. Len(Front(pl)) = Len(pl) - 1 /\ \A i \in 1 .. Len(pl) - 1 : Front(pl)[i] = pl[i]
        BY <1>2, <4>1, FrontFacts
      <4> QED
        BY <1>2, <4>2
    <3>2. \A i \in 1 .. n - 1 : Front(pr)[i] = pr[i]
      <4> HIDE DEF pr
      <4>0. Len(pr) > 0
        BY <1>1, <1>3
      <4>1. Len(Front(pr)) = Len(pr) - 1 /\ \A i \in 1 .. Len(pr) - 1 : Front(pr)[i] = pr[i]
        BY <1>3, <4>0, FrontFacts
      <4> QED
        BY <1>3, <4>1
    <3> DEFINE j == n - 1
               fl == Front(pl)
               fr == Front(pr)
    <3>3. j \in 1 .. Parts(w) /\ j + 1 = n
      BY <1>1
    <3>4. \A i \in 1 .. j : fl[i] = Split(l, w)[i] /\ fr[i] = Split(r, w)[i]
      BY <3>1, <3>2
    <3>5. unsigned \in {"uge", "ule"} => \A i \in 2 .. j : fl[i] = fr[i]
      <4> SUFFICES ASSUME unsigned \in {"uge", "ule"}, NEW i \in 2 .. j PROVE fl[i] = fr[i]
        OBVIOUS
      <4>1. cond \in {"sge", "sle"}
        BY <1>9 DEF SignedConds
      <4>2. i \in 2 .. n /\ i < n /\ i \in 1 .. n - 1
        BY <1>1
      <4>3. pl[i] = pr[i]
        <5> HIDE DEF n, pl, pr
        <5> QED
          BY <1>6, <4>1, <4>2
      <4>4. fl[i] = pl[i] /\ fr[i] = pr[i]
        <5> HIDE DEF n, pl, pr
        <5> QED
          BY <3>1, <3>2, <4>2
      <4> HIDE DEF fl, fr, pl, pr
      <4> QED
        BY <4>3, <4>4
    <3>6. unsigned \in UnsignedConds
      BY <1>9 DEF SignedConds, UnsignedConds
    <3>7. Len(fl) = j
      BY <3>1
    <3> HIDE DEF j, fl, fr, unsigned
    <3>8. UnsignedCompare(unsigned, fl, fr) <=> Compares(unsigned, Lower(l, j + 1), Lower(r, j + 1), w)
      BY <3>3, <3>4, <3>5, <3>6, <3>7, UnsignedCompareIs
    <3>9. UnsignedCompare(unsigned, fl, fr) <=> Compares(unsigned, a, b, w)
      BY <3>3, <3>8
    <3>10. sx = sy
      BY <2>8
    <3>11. (sl < sr <=> a < b) /\ (sl = sr <=> a = b)
      BY <2>6, <3>10
    <3> HIDE DEF sl, sr, a, b
    <3>12. Compares(unsigned, a, b, w) <=> Compares(cond, l, r, w)
      <4>1. CASE cond = "sgt"
        <5>1. unsigned = "ugt"
          BY <4>1 DEF unsigned
        <5> QED
          BY <2>7, <3>11, <4>1, <5>1, UnsignedOrder, SignedOrder DEF sl, sr
      <4>2. CASE cond = "slt"
        <5>1. unsigned = "ult"
          BY <4>2 DEF unsigned
        <5> QED
          BY <2>7, <3>11, <4>2, <5>1, UnsignedOrder, SignedOrder DEF sl, sr
      <4>3. CASE cond = "sge"
        <5>1. unsigned = "uge"
          BY <4>3 DEF unsigned
        <5> QED
          BY <2>7, <3>11, <4>3, <5>1, UnsignedOrder, SignedOrder DEF sl, sr
      <4>4. CASE cond = "sle"
        <5>1. unsigned = "ule"
          BY <4>4 DEF unsigned
        <5> QED
          BY <2>7, <3>11, <4>4, <5>1, UnsignedOrder, SignedOrder DEF sl, sr
      <4> QED
        BY <1>9, <4>1, <4>2, <4>3, <4>4 DEF SignedConds
    <3>13. LargeIntCompare(cond, pl, pr, w) <=> UnsignedCompare(unsigned, fl, fr)
      <4> HIDE DEF pl, pr
      <4> QED
        BY <2>3, <2>8 DEF fl, fr
    <3> QED
      BY <3>9, <3>12, <3>13
  <2>9. CASE x # y
    <3>1. strict \in Conds
      BY <1>9 DEF Conds, SignedConds
    <3>2. ICmp(strict, x, y, k, "none", FALSE) <=> Compares(strict, x, y, k)
      <4> DEFINE known == "none"
                 opt == FALSE
      <4>1. known \in {"none", "left", "right"} /\ opt \in BOOLEAN
        OBVIOUS
      <4> HIDE DEF known, opt, x, y, k, strict
      <4>2. ICmp(strict, x, y, k, known, opt) <=> Compares(strict, x, y, k)
        BY <2>1, <2>2, <3>1, <4>1, ICmpIs
      <4> QED
        BY <4>2 DEF known, opt
    <3>3. sx # sy
      <4>1. sx % Pow2[k] = x
        <5> HIDE DEF x, k
        <5> QED
          BY <2>1, SignedFacts
      <4>2. sy % Pow2[k] = y
        <5> HIDE DEF y, k
        <5> QED
          BY <2>1, <2>2, SignedFacts
      <4> HIDE DEF sx, sy, x, y
      <4> QED
        BY <2>9, <4>1, <4>2
    <3>4. Compares(strict, x, y, k) <=> IF cond \in {"sgt", "sge"} THEN sx > sy ELSE sx < sy
      <4> HIDE DEF x, y, k
      <4>1. CASE cond \in {"sgt", "sge"}
        <5>1. strict = "sgt"
          BY <4>1
        <5>2. Compares("sgt", x, y, k) = (sx > sy)
          BY SignedOrder
        <5> HIDE DEF strict, sx, sy
        <5>3. Compares(strict, x, y, k) = (sx > sy)
          BY <5>1, <5>2
        <5> QED
          BY <4>1, <5>3
      <4>2. CASE cond \notin {"sgt", "sge"}
        <5>1. strict = "slt"
          BY <4>2
        <5>2. Compares("slt", x, y, k) = (sx < sy)
          BY SignedOrder
        <5> HIDE DEF strict, sx, sy
        <5>3. Compares(strict, x, y, k) = (sx < sy)
          BY <5>1, <5>2
        <5> QED
          BY <4>2, <5>3
      <4> QED
        BY <4>1, <4>2
    <3>5. LargeIntCompare(cond, pl, pr, w) <=> IF cond \in {"sgt", "sge"} THEN sx > sy ELSE sx < sy
      <4> HIDE DEF pl, pr, x, y, sx, sy, strict, unsigned, k
      <4> QED
        BY <2>3, <2>9, <3>2, <3>4
    <3> HIDE DEF sx, sy, sl, sr
    <3>6. CASE cond \in {"sgt", "sge"}
      <4>1. Compares(cond, l, r, w) <=> sl >= sr /\ (cond = "sgt" => sl > sr)
        <5>1. CASE cond = "sgt"
          <6>1. Compares("sgt", l, r, w) = (sl > sr)
            BY SignedOrder DEF sl, sr
          <6>2. Compares(cond, l, r, w) <=> sl > sr
            BY <5>1, <6>1
          <6> HIDE DEF sl, sr
          <6> QED
            BY <2>7, <5>1, <6>2
        <5>2. CASE cond = "sge"
          <6>1. Compares("sge", l, r, w) = (sl >= sr)
            BY SignedOrder DEF sl, sr
          <6>2. Compares(cond, l, r, w) <=> sl >= sr
            BY <5>2, <6>1
          <6> HIDE DEF sl, sr
          <6> QED
            BY <2>7, <5>2, <6>2
        <5> QED
          BY <3>6, <5>1, <5>2
      <4> HIDE DEF pl, pr
      <4> QED
        BY <2>1, <2>2, <2>6, <2>7, <3>3, <3>5, <3>6, <4>1 DEF pl, pr
    <3>7. CASE cond \notin {"sgt", "sge"}
      <4>1. Compares(cond, l, r, w) <=> sl <= sr /\ (cond = "slt" => sl < sr)
        <5>1. CASE cond = "slt"
          <6>1. Compares("slt", l, r, w) = (sl < sr)
            BY SignedOrder DEF sl, sr
          <6>2. Compares(cond, l, r, w) <=> sl < sr
            BY <5>1, <6>1
          <6> HIDE DEF sl, sr
          <6> QED
            BY <2>7, <5>1, <6>2
        <5>2. CASE cond = "sle"
          <6>1. Compares("sle", l, r, w) = (sl <= sr)
            BY SignedOrder DEF sl, sr
          <6>2. Compares(cond, l, r, w) <=> sl <= sr
            BY <5>2, <6>1
          <6> HIDE DEF sl, sr
          <6> QED
            BY <2>7, <5>2, <6>2
        <5> QED
          BY <1>9, <3>7, <5>1, <5>2 DEF SignedConds
      <4> HIDE DEF pl, pr
      <4> QED
        BY <2>1, <2>2, <2>6, <2>7, <3>3, <3>5, <3>7, <4>1 DEF pl, pr
    <3> QED
      BY <3>6, <3>7
  <2> QED
    BY <2>8, <2>9
<1> QED
  BY <1>7, <1>8, <1>9 DEF Conds

-----------------------------------------------------------------------------
(* What LLVM says, operation by operation.                                   *)

LEMMA SumMeaning ==
    ASSUME NEW l, NEW r, NEW w
    PROVE  /\ Meaning("add", l, r, w) = (l + r) % Pow2[w] /\ Meaning("sub", l, r, w) = (l - r) % Pow2[w]
           /\ Meaning("mul", l, r, w) = (l * r) % Pow2[w]
BY DEF Meaning, Bitwise2

(* What LLVM says of shl, lshr and ashr.                                      *)
LEMMA ShiftMeaning ==
    ASSUME NEW l, NEW r, NEW w
    PROVE  /\ Meaning("shl", l, r, w) = (l * Pow2[r]) % Pow2[w]
           /\ Meaning("lshr", l, r, w) = (l \div Pow2[r]) % Pow2[w]
           /\ Meaning("ashr", l, r, w) = (Signed(l, w) \div Pow2[r]) % Pow2[w]
BY DEF Meaning, Bitwise2

(* What LLVM says of udiv, urem, sdiv and srem.                               *)
LEMMA DivisionMeaning ==
    ASSUME NEW l, NEW r, NEW w
    PROVE  /\ Meaning("udiv", l, r, w) = (l \div r) % Pow2[w] /\ Meaning("urem", l, r, w) = (l % r) % Pow2[w]
           /\ Meaning("sdiv", l, r, w) = Truncated(Signed(l, w), Signed(r, w)) % Pow2[w]
           /\ Meaning("srem", l, r, w)
                = (Signed(l, w) - Signed(r, w) * Truncated(Signed(l, w), Signed(r, w))) % Pow2[w]
BY DEF Meaning, Bitwise2

(* What LLVM says of and, or and xor.                                         *)
LEMMA BitwiseMeaning ==
    ASSUME NEW op \in Bitwise2, NEW l, NEW r, NEW w
    PROVE  Meaning(op, l, r, w) = Bit(op, l, r, w) % Pow2[w]
<1>1. /\ Meaning("and", l, r, w) = Bit("and", l, r, w) % Pow2[w]
      /\ Meaning("or", l, r, w) = Bit("or", l, r, w) % Pow2[w]
      /\ Meaning("xor", l, r, w) = Bit("xor", l, r, w) % Pow2[w]
  BY DEF Meaning, Bitwise2
<1>2. op = "and" \/ op = "or" \/ op = "xor"
  BY DEF Bitwise2
<1> QED
  BY <1>1, <1>2

(* What LLVM says of the saturating sums.                                     *)
LEMMA SaturateMeaning ==
    ASSUME NEW l, NEW r, NEW w
    PROVE  /\ Meaning("uadd.sat", l, r, w) = Clamp(l + r, 0, Pow2[w] - 1) % Pow2[w]
           /\ Meaning("usub.sat", l, r, w) = Clamp(l - r, 0, Pow2[w] - 1) % Pow2[w]
           /\ Meaning("sadd.sat", l, r, w)
                = Clamp(Signed(l, w) + Signed(r, w), -Pow2[w - 1], Pow2[w - 1] - 1) % Pow2[w]
           /\ Meaning("ssub.sat", l, r, w)
                = Clamp(Signed(l, w) - Signed(r, w), -Pow2[w - 1], Pow2[w - 1] - 1) % Pow2[w]
BY DEF Meaning, Bitwise2

-----------------------------------------------------------------------------
(* Operators of one part.                                                    *)

LEMMA AbsIs ==
    ASSUME NEW w \in Nat \ {0}, NEW v \in 0 .. Pow2[w] - 1
    PROVE  Abs(v, w) = (IF Signed(v, w) < 0 THEN -Signed(v, w) ELSE Signed(v, w)) % Pow2[w]
<1> DEFINE m == Pow2[w]
           h == Pow2[w - 1]
           s == Signed(v, w)
<1>1. h \in Nat \ {0} /\ m = 2 * h /\ s = (IF v < h THEN v ELSE v - m) /\ (s < 0 <=> ~(v < h)) /\ m \in Nat \ {0}
  BY SignedFacts, PowHalf
<1>2. v \in 0 .. m - 1
  OBVIOUS
<1>3. Abs(v, w) = Mod(v * (2 * Number(v < h) - 1), m)
  BY DEF Abs
<1> HIDE DEF m, h, s
<1>4. CASE v < h
  <2>1. Number(v < h) = 1
    BY <1>4 DEF Number
  <2>2. v * (2 * Number(v < h) - 1) = v
    BY <1>2, <2>1
  <2>3. Mod(v, m) = v % m
    BY <1>1, <1>2, ModIs
  <2>4. Abs(v, w) = v % m
    BY <1>3, <2>2, <2>3
  <2>5. s = v /\ ~(s < 0)
    BY <1>1, <1>4
  <2>6. Abs(v, w) = (IF s < 0 THEN -s ELSE s) % m
    BY <2>4, <2>5
  <2> QED
    BY <2>6 DEF s, m
<1>5. CASE ~(v < h)
  <2>1. Number(v < h) = 0
    BY <1>5 DEF Number
  <2> DEFINE minus == -v
             one == 1
  <2>2. v * (2 * Number(v < h) - 1) = minus
    BY <1>2, <2>1
  <2>3. minus \in Int /\ one \in Int
    BY <1>2
  <2>4. -s = minus + m * one /\ s < 0
    BY <1>1, <1>2, <1>5
  <2> HIDE DEF minus, one
  <2>5. Mod(minus, m) = minus % m
    BY <1>1, <2>3, ModIs
  <2>6. (minus + m * one) % m = minus % m
    BY <1>1, <2>3, SameRemainder
  <2>7. Abs(v, w) = (-s) % m
    BY <1>3, <2>2, <2>4, <2>5, <2>6
  <2>8. Abs(v, w) = (IF s < 0 THEN -s ELSE s) % m
    BY <2>4, <2>7
  <2> QED
    BY <2>8 DEF s, m
<1> QED
  BY <1>4, <1>5

(* The greater of two numbers.                                                *)
LEMMA MaxOfTwo ==
    ASSUME NEW a \in Int, NEW b \in Int
    PROVE  Max({a, b}) = IF a >= b THEN a ELSE b
<1>1. CASE a >= b
  <2>1. {a, b} \in SUBSET Int /\ a \in {a, b} /\ \A y \in {a, b} : y <= a
    BY <1>1
  <2>2. Max({a, b}) = a
    BY ONLY <2>1, MaxIs
  <2> QED
    BY <1>1, <2>2
<1>2. CASE ~(a >= b)
  <2>1. {a, b} \in SUBSET Int /\ b \in {a, b} /\ \A y \in {a, b} : y <= b
    BY <1>2
  <2>2. Max({a, b}) = b
    BY ONLY <2>1, MaxIs
  <2> QED
    BY <1>2, <2>2
<1> QED
  BY <1>1, <1>2

(* What MinMax is, intrinsic by intrinsic.                                    *)
LEMMA ExtremesUnfolded ==
    ASSUME NEW l, NEW r, NEW w
    PROVE  /\ MinMax("umax", l, r, w) = (IF l > r THEN l ELSE r)
           /\ MinMax("umin", l, r, w) = (IF l < r THEN l ELSE r)
           /\ MinMax("smax", l, r, w) = (IF Reversed(l, w) > Reversed(r, w) THEN l ELSE r)
           /\ MinMax("smin", l, r, w) = (IF Reversed(l, w) < Reversed(r, w) THEN l ELSE r)
BY DEF MinMax

(* umax, umin, smax and smin are right.                                       *)
LEMMA MinMaxIs ==
    ASSUME NEW w \in Nat \ {0}, NEW l \in 0 .. Pow2[w] - 1, NEW r \in 0 .. Pow2[w] - 1
    PROVE  /\ MinMax("umax", l, r, w) = Max({l, r}) % Pow2[w]
           /\ MinMax("umin", l, r, w) = Min({l, r}) % Pow2[w]
           /\ MinMax("smax", l, r, w) = Max({Signed(l, w), Signed(r, w)}) % Pow2[w]
           /\ MinMax("smin", l, r, w) = Min({Signed(l, w), Signed(r, w)}) % Pow2[w]
<1> DEFINE m == Pow2[w]
           h == Pow2[w - 1]
           sl == Signed(l, w)
           sr == Signed(r, w)
           kl == Reversed(l, w)
           kr == Reversed(r, w)
<1>1. h \in Nat \ {0} /\ m \in Nat \ {0}
  BY PowHalf
<1>2. sl \in -h .. h - 1 /\ sl % m = l /\ sr \in -h .. h - 1 /\ sr % m = r
  BY SignedFacts
<1>3. kl = 2 * (sl - h + 1) /\ kr = 2 * (sr - h + 1)
  BY UndoIsSigned
<1>4. l \in Int /\ r \in Int /\ l % m = l /\ r % m = r
  BY <1>1, Small
<1>5. sl \in Int /\ sr \in Int
  <2> HIDE DEF sl, sr, h
  <2> QED
    BY <1>1, <1>2
<1>6. Max({l, r}) = (IF l >= r THEN l ELSE r) /\ Min({l, r}) = (IF l <= r THEN l ELSE r)
  BY <1>4, MaxOfTwo, MinOfTwo
<1>7. Max({sl, sr}) = (IF sl >= sr THEN sl ELSE sr) /\ Min({sl, sr}) = (IF sl <= sr THEN sl ELSE sr)
  <2> HIDE DEF sl, sr
  <2> QED
    BY <1>5, MaxOfTwo, MinOfTwo
<1>8. /\ MinMax("smax", l, r, w) = (IF kl > kr THEN l ELSE r)
      /\ MinMax("smin", l, r, w) = (IF kl < kr THEN l ELSE r)
  BY ExtremesUnfolded
<1>9. /\ MinMax("umax", l, r, w) = (IF l > r THEN l ELSE r)
      /\ MinMax("umin", l, r, w) = (IF l < r THEN l ELSE r)
  BY ExtremesUnfolded
<1> HIDE DEF m, h, sl, sr, kl, kr
<1>10. (kl > kr <=> sl > sr) /\ (kl < kr <=> sl < sr)
  BY <1>1, <1>3, <1>5
<1>11. MinMax("umax", l, r, w) = Max({l, r}) % m
  BY <1>4, <1>6, <1>9
<1>12. MinMax("umin", l, r, w) = Min({l, r}) % m
  BY <1>4, <1>6, <1>9
<1>13. MinMax("smax", l, r, w) = Max({sl, sr}) % m
  BY <1>2, <1>5, <1>7, <1>8, <1>10
<1>14. MinMax("smin", l, r, w) = Min({sl, sr}) % m
  BY <1>2, <1>5, <1>7, <1>8, <1>10
<1> QED
  BY <1>11, <1>12, <1>13, <1>14 DEF m, sl, sr


(* The saturating sums are right.                                             *)
LEMMA SaturatingIs ==
    ASSUME NEW w \in Nat \ {0}, NEW l \in 0 .. Pow2[w] - 1, NEW r \in 0 .. Pow2[w] - 1
    PROVE  /\ Saturating("uadd.sat", l, r, w) = Clamp(l + r, 0, Pow2[w] - 1) % Pow2[w]
           /\ Saturating("usub.sat", l, r, w) = Clamp(l - r, 0, Pow2[w] - 1) % Pow2[w]
           /\ Saturating("sadd.sat", l, r, w)
                = Clamp(Signed(l, w) + Signed(r, w), -Pow2[w - 1], Pow2[w - 1] - 1) % Pow2[w]
           /\ Saturating("ssub.sat", l, r, w)
                = Clamp(Signed(l, w) - Signed(r, w), -Pow2[w - 1], Pow2[w - 1] - 1) % Pow2[w]
<1> DEFINE m == Pow2[w]
           h == Pow2[w - 1]
           sl == Signed(l, w)
           sr == Signed(r, w)
           stored(v) == v + Number(v < 0) * m
           bounded(v) == IF v > h - 1 THEN h - 1 ELSE IF v < -h THEN -h ELSE v
<1>1. h \in Nat \ {0} /\ m \in Nat \ {0} /\ m = 2 * h
  BY PowHalf
<1>2. l \in Int /\ r \in Int /\ 0 <= l /\ l < m /\ 0 <= r /\ r < m
  BY <1>1
<1>3. /\ sl = IF l < h THEN l ELSE l - m
      /\ sr = IF r < h THEN r ELSE r - m
      /\ sl \in -h .. h - 1 /\ sr \in -h .. h - 1
  BY SignedFacts
<1>4. sl = l - (1 - Number(l < h)) * m
  <2> HIDE DEF m, h, sl
  <2>1. CASE l < h
    <3>1. Number(l < h) = 1
      BY <2>1 DEF Number
    <3>2. (1 - Number(l < h)) * m = 0
      BY <1>1, <3>1
    <3>3. l - (1 - Number(l < h)) * m = l
      BY <1>2, <3>2
    <3> QED
      BY <1>3, <2>1, <3>3
  <2>2. CASE ~(l < h)
    <3>1. Number(l < h) = 0
      BY <2>2 DEF Number
    <3>2. (1 - Number(l < h)) * m = m
      BY <1>1, <3>1
    <3>3. l - (1 - Number(l < h)) * m = l - m
      BY <1>2, <3>2
    <3> QED
      BY <1>3, <2>2, <3>3
  <2> QED
    BY <2>1, <2>2
<1>5. sr = r - (1 - Number(r < h)) * m
  <2> HIDE DEF m, h, sr
  <2>1. CASE r < h
    <3>1. Number(r < h) = 1
      BY <2>1 DEF Number
    <3>2. (1 - Number(r < h)) * m = 0
      BY <1>1, <3>1
    <3>3. r - (1 - Number(r < h)) * m = r
      BY <1>2, <3>2
    <3> QED
      BY <1>3, <2>1, <3>3
  <2>2. CASE ~(r < h)
    <3>1. Number(r < h) = 0
      BY <2>2 DEF Number
    <3>2. (1 - Number(r < h)) * m = m
      BY <1>1, <3>1
    <3>3. r - (1 - Number(r < h)) * m = r - m
      BY <1>2, <3>2
    <3> QED
      BY <1>3, <2>2, <3>3
  <2> QED
    BY <2>1, <2>2
<1>6. Saturating("uadd.sat", l, r, w) = Clamp(l + r, 0, m - 1) % m
  <2> DEFINE sum == l + r
             top == m - 1
             c == Clamp(sum, 0, top)
  <2>1. Saturating("uadd.sat", l, r, w) = (sum + top - (IF sum > top THEN sum - top ELSE top - sum)) \div 2
    BY DEF Saturating
  <2>2. sum \in Nat /\ top \in Nat
    BY <1>1, <1>2
  <2> HIDE DEF sum, top, m
  <2>3. c = (IF sum > top THEN top ELSE sum) /\ c \in Nat /\ c <= top
    BY <2>2 DEF Clamp
  <2> HIDE DEF c
  <2>4. sum + top - (IF sum > top THEN sum - top ELSE top - sum) = 2 * c
    BY <2>2, <2>3
  <2>5. (2 * c) \div 2 = c
    BY <2>3
  <2>6. c \in 0 .. m - 1
    BY <2>2, <2>3 DEF top
  <2>7. c % m = c
    BY <1>1, <2>6, Small
  <2>8. Saturating("uadd.sat", l, r, w) = c
    BY <2>1, <2>4, <2>5
  <2> QED
    BY <2>7, <2>8 DEF c, sum, top
<1>7. Saturating("usub.sat", l, r, w) = Clamp(l - r, 0, m - 1) % m
  <2> DEFINE c == Clamp(l - r, 0, m - 1)
  <2>1. Saturating("usub.sat", l, r, w) = (l - r) * Number(l > r)
    BY DEF Saturating
  <2> HIDE DEF m
  <2>2. c = (IF l > r THEN l - r ELSE 0) /\ c \in 0 .. m - 1
    BY <1>1, <1>2 DEF Clamp
  <2> HIDE DEF c
  <2>3. (l - r) * Number(l > r) = c
    <3>1. CASE l > r
      <4>1. Number(l > r) = 1
        BY <3>1 DEF Number
      <4> QED
        BY <1>2, <2>2, <3>1, <4>1
    <3>2. CASE ~(l > r)
      <4>1. Number(l > r) = 0
        BY <3>2 DEF Number
      <4> QED
        BY <1>2, <2>2, <3>2, <4>1
    <3> QED
      BY <3>1, <3>2
  <2>4. c % m = c
    BY <1>1, <2>2, Small
  <2> QED
    BY <2>1, <2>3, <2>4 DEF c
<1>8. ASSUME NEW raw \in Int PROVE stored(bounded(raw)) = Clamp(raw, -h, h - 1) % m
  <2> DEFINE c == Clamp(raw, -h, h - 1)
  <2> HIDE DEF h, m
  <2>1. bounded(raw) = c /\ c \in -h .. h - 1 /\ c \in Int
    BY <1>1 DEF Clamp
  <2> HIDE DEF c, bounded
  <2>2. CASE c < 0
    <3>1. Number(c < 0) = 1
      BY <2>2 DEF Number
    <3>2. stored(c) = c + m
      BY <1>1, <2>1, <3>1
    <3>3. -m <= c /\ c < 2 * m
      BY <1>1, <2>1, <2>2
    <3>4. c % m = c + m
      BY <1>1, <2>1, <2>2, <3>3, NearResidue
    <3> QED
      BY <2>1, <3>2, <3>4 DEF c
  <2>3. CASE ~(c < 0)
    <3>1. Number(c < 0) = 0
      BY <2>3 DEF Number
    <3>2. stored(c) = c
      BY <1>1, <2>1, <3>1
    <3>3. c \in 0 .. m - 1
      BY <1>1, <2>1, <2>3
    <3>4. c % m = c
      BY <1>1, <3>3, Small
    <3> QED
      BY <2>1, <3>2, <3>4 DEF c
  <2> QED
    BY <2>2, <2>3
<1>9. Saturating("sadd.sat", l, r, w) = stored(bounded(sl + sr))
  <2>1. Saturating("sadd.sat", l, r, w)
          = stored(bounded(l - (1 - Number(l < h)) * m + (r - (1 - Number(r < h)) * m)))
    BY DEF Saturating, Apply
  <2> HIDE DEF stored, bounded, sl, sr
  <2> QED
    BY <1>4, <1>5, <2>1
<1>10. Saturating("ssub.sat", l, r, w) = stored(bounded(sl - sr))
  <2>1. Saturating("ssub.sat", l, r, w)
          = stored(bounded(l - (1 - Number(l < h)) * m - (r - (1 - Number(r < h)) * m)))
    BY DEF Saturating, Apply
  <2> HIDE DEF stored, bounded, sl, sr
  <2> QED
    BY <1>4, <1>5, <2>1
<1>11. sl + sr \in Int /\ sl - sr \in Int
  <2> HIDE DEF sl, sr, h, m
  <2> QED
    BY <1>1, <1>3
<1> HIDE DEF stored, bounded
<1>12. Saturating("sadd.sat", l, r, w) = Clamp(sl + sr, -h, h - 1) % m
  BY <1>8, <1>9, <1>11
<1>13. Saturating("ssub.sat", l, r, w) = Clamp(sl - sr, -h, h - 1) % m
  BY <1>8, <1>10, <1>11
<1> QED
  BY <1>6, <1>7, <1>12, <1>13

(* sext within one part is right.                                             *)
LEMMA SExtIs ==
    ASSUME NEW from \in Nat \ {0}, NEW to \in Nat \ {0}, from < to, NEW v \in 0 .. Pow2[from] - 1
    PROVE  SExt(v, from, to) = Signed(v, from) % Pow2[to]
<1> DEFINE n == Pow2[from]
           m == Pow2[to]
           h == Pow2[from - 1]
           s == Signed(v, from)
<1>1. h \in Nat \ {0} /\ n \in Nat \ {0} /\ n = 2 * h /\ s = (IF v < h THEN v ELSE v - n) /\ v \in 0 .. n - 1
  BY PowHalf, SignedFacts
<1>2. m \in Nat \ {0} /\ n <= m
  BY PowPositive, PowMonotone
<1>3. SExt(v, from, to) = v + (m - n) * Number(v > h - 1)
  BY DEF SExt
<1> HIDE DEF n, m, h, s
<1>4. CASE v < h
  <2>1. Number(v > h - 1) = 0
    BY <1>1, <1>4 DEF Number
  <2>2. SExt(v, from, to) = v
    BY <1>1, <1>2, <1>3, <2>1
  <2>3. v \in 0 .. m - 1 /\ s = v
    BY <1>1, <1>2, <1>4
  <2>4. v % m = v
    BY <1>2, <2>3, Small
  <2> QED
    BY <2>2, <2>3, <2>4 DEF s, m
<1>5. CASE ~(v < h)
  <2>1. Number(v > h - 1) = 1
    BY <1>1, <1>5 DEF Number
  <2>2. (m - n) * Number(v > h - 1) = m - n
    BY <1>1, <1>2, <2>1
  <2>3. SExt(v, from, to) = s + m
    BY <1>1, <1>2, <1>3, <1>5, <2>2
  <2>4. s \in Int /\ -m <= s /\ s < 0 /\ s < 2 * m
    BY <1>1, <1>2, <1>5
  <2>5. s % m = s + m
    BY <1>2, <2>4, NearResidue
  <2> QED
    BY <2>3, <2>5 DEF s, m
<1> QED
  BY <1>4, <1>5

(* A select of known numbers, done by arithmetic, selects.                    *)
LEMMA SelectKnownIs ==
    ASSUME NEW c \in 0 .. 1, NEW t \in Int, NEW f \in Int
    PROVE  SelectKnown(c, t, f) = IF c = 1 THEN t ELSE f
<1>1. CASE c = 1
  BY <1>1 DEF SelectKnown
<1>2. CASE c = 0
  BY <1>2 DEF SelectKnown
<1> QED
  BY <1>1, <1>2


(* trunc to one part is right, from any number of parts.                      *)
LEMMA TruncIs ==
    ASSUME NEW from \in Nat \ {0}, NEW to \in Nat \ {0}, to <= PartBits, NEW v \in 0 .. Pow2[from] - 1
    PROVE  Trunc(Split(v, from), to) = v % Pow2[to]
<1> DEFINE n == Pow2[to]
           k == PartBits - to
           m == Pow2[k]
           B == Pow2[PartBits]
           one == 1
<1>1. k \in Nat /\ PartBits = to + k /\ PartBits \in Nat
  BY Positive
<1>2. n \in Nat \ {0} /\ m \in Nat \ {0} /\ B = n * m
  <2> HIDE DEF k
  <2> QED
    BY <1>1, PowPositive, PowSum
<1>3. v \in Int
  BY PowPositive
<1>4. Split(v, from)[one] = (v \div Pow2[PartBits * (one - 1)]) % B
  <2>1. one \in 1 .. Parts(from)
    BY PartFacts
  <2> HIDE DEF one
  <2> QED
    BY <2>1 DEF Split
<1>5. Pow2[PartBits * (one - 1)] = 1
  <2>1. PartBits * (one - 1) = 0
    BY <1>1
  <2> QED
    BY <2>1, PowRecursion
<1>6. v \div 1 = v
  BY <1>3
<1>7. Split(v, from)[one] = v % B
  <2> HIDE DEF one
  <2> QED
    BY <1>4, <1>5, <1>6
<1>8. Trunc(Split(v, from), to) = Mod(v % B, n)
  BY <1>7 DEF Trunc
<1> HIDE DEF n, m, B
<1>9. (v % B) % n = v % n
  BY <1>2, <1>3, RemainderOfRemainder
<1>10. v % B \in Int
  <2>1. B \in Nat \ {0}
    BY Positive DEF B
  <2> QED
    BY <1>3, <2>1, Division
<1>11. Mod(v % B, n) = (v % B) % n
  BY <1>2, <1>10, ModIs
<1> QED
  BY <1>8, <1>9, <1>11 DEF n

(* sitofp keeps the number.                                                   *)
LEMMA SIToFPIs ==
    ASSUME NEW w \in Nat \ {0}, NEW v \in 0 .. Pow2[w] - 1
    PROVE  SIToFP(v, w) = 2 * Signed(v, w)
BY UndoIsSigned DEF SIToFP

(* Numbers are counted in halves: truncating one.                             *)
LEMMA TruncatedHalf ==
    ASSUME NEW x \in Int
    PROVE  /\ Truncated(x, 2) = (IF x < 0 THEN -((-x) \div 2) ELSE x \div 2)
           /\ Truncated(x, 2) \in Int
<1> DEFINE two == 2
<1>1. two \in Int /\ two # 0 /\ (two < 0) = FALSE
  OBVIOUS
<1>2. Magnitude(two) = two /\ Magnitude(x) = IF x < 0 THEN -x ELSE x
  BY DEF Magnitude
<1> HIDE DEF two
<1>3. /\ Truncated(x, two) = (IF (x < 0) = (two < 0) THEN Magnitude(x) \div Magnitude(two)
                              ELSE -(Magnitude(x) \div Magnitude(two)))
      /\ Truncated(x, two) \in Int
  BY <1>1, TruncatedFacts
<1>4. CASE x < 0
  <2>1. (x < 0) # (two < 0)
    BY <1>1, <1>4
  <2>2. Truncated(x, two) = -((-x) \div two)
    BY <1>2, <1>3, <1>4, <2>1
  <2> QED
    BY <1>3, <1>4, <2>2 DEF two
<1>5. CASE ~(x < 0)
  <2>1. (x < 0) = (two < 0)
    BY <1>1, <1>5
  <2>2. Truncated(x, two) = x \div two
    BY <1>2, <1>3, <1>5, <2>1
  <2> QED
    BY <1>3, <1>5, <2>2 DEF two
<1> QED
  BY <1>4, <1>5

(* fptosi truncates.                                                          *)
LEMMA FPToSIIs ==
    ASSUME NEW w \in Nat \ {0}, NEW x \in Int
    PROVE  FPToSI(x, w) = Truncated(x, 2) % Pow2[w]
<1> DEFINE m == Pow2[w]
           t == Truncated(x, 2)
           magnitude == IF x < 0 THEN (-x) \div 2 ELSE x \div 2
<1>1. m \in Nat \ {0}
  BY PowHalf
<1>2. t = (IF x < 0 THEN -((-x) \div 2) ELSE x \div 2) /\ t \in Int /\ magnitude \in Int
  BY TruncatedHalf
<1>3. FPToSI(x, w) = Mod(magnitude * (2 * Number(x > 0) - 1), m)
  BY DEF FPToSI
<1>4. magnitude * (2 * Number(x > 0) - 1) = t
  <2>1. CASE x > 0
    <3>1. Number(x > 0) = 1
      BY <2>1 DEF Number
    <3>2. magnitude * (2 * Number(x > 0) - 1) = magnitude
      <4> HIDE DEF magnitude
      <4> QED
        BY <1>2, <3>1
    <3> QED
      BY <1>2, <2>1, <3>2
  <2>2. CASE ~(x > 0)
    <3>1. Number(x > 0) = 0
      BY <2>2 DEF Number
    <3>2. magnitude * (2 * Number(x > 0) - 1) = -magnitude
      <4> HIDE DEF magnitude
      <4> QED
        BY <1>2, <3>1
    <3>3. -magnitude = t
      <4>1. CASE x < 0
        <5> HIDE DEF t
        <5> QED
          BY <1>2, <4>1
      <4>2. CASE x = 0
        <5>1. magnitude = 0 /\ t = 0
          <6> HIDE DEF t
          <6> QED
            BY <1>2, <4>2
        <5> QED
          BY <5>1
      <4> QED
        BY <2>2, <4>1, <4>2
    <3> QED
      BY <3>2, <3>3
  <2> QED
    BY <2>1, <2>2
<1> HIDE DEF m, t
<1>5. Mod(t, m) = t % m
  BY <1>1, <1>2, ModIs
<1> QED
  BY <1>3, <1>4, <1>5 DEF m, t

(* fptoui of a number that is not negative truncates.                         *)
LEMMA FPToUIIs ==
    ASSUME NEW x \in Int, x >= 0
    PROVE  FPToUI(x) = Truncated(x, 2) /\ Truncated(x, 2) \in Nat
<1>1. Truncated(x, 2) = x \div 2
  BY TruncatedHalf
<1>2. x \div 2 \in Nat
  OBVIOUS
<1> QED
  BY <1>1, <1>2 DEF FPToUI

\* What a double, times two, may be.
Double == {x \in Int : (-Infinity <= x /\ x <= Infinity) \/ x = NaN}

(* fcmp is right for numbers, infinities and NaN.                             *)
LEMMA FCmpIs ==
    ASSUME NEW cond \in FConds, NEW l \in Double, NEW r \in Double
    PROVE  FCmp(cond, l, r) <=> FCompares(cond, l, r)
<1> DEFINE nan == NaN \in {l, r}
           ordered == l < LetterJ /\ r < LetterJ
           unordered == l > Infinity \/ r > Infinity
           same == r < LetterJ /\ l = r
<1>1. (ordered <=> ~nan) /\ (unordered <=> nan) /\ (same <=> ~nan /\ l = r) /\ l \in Int /\ r \in Int
  BY DEF Double, Infinity, LetterJ, NaN
<1>2. /\ FCmp("ord", l, r) = ordered /\ FCmp("uno", l, r) = unordered
      /\ FCmp("oeq", l, r) = same /\ FCmp("one", l, r) = (ordered /\ ~(l = r))
      /\ FCmp("ogt", l, r) = (ordered /\ l > r) /\ FCmp("oge", l, r) = (ordered /\ ~(l < r))
      /\ FCmp("olt", l, r) = (ordered /\ l < r) /\ FCmp("ole", l, r) = (ordered /\ ~(l > r))
      /\ FCmp("ueq", l, r) = (unordered \/ l = r) /\ FCmp("une", l, r) = (unordered \/ ~(l = r))
      /\ FCmp("ugt", l, r) = (unordered \/ l > r) /\ FCmp("uge", l, r) = (unordered \/ ~(l < r))
      /\ FCmp("ult", l, r) = (unordered \/ l < r) /\ FCmp("ule", l, r) = (unordered \/ ~(l > r))
  BY DEF FCmp
<1>3. /\ FCompares("ord", l, r) = ~nan /\ FCompares("uno", l, r) = nan
      /\ FCompares("oeq", l, r) = (IF nan THEN FALSE ELSE l = r)
      /\ FCompares("ueq", l, r) = (IF nan THEN TRUE ELSE l = r)
      /\ FCompares("one", l, r) = (IF nan THEN FALSE ELSE l # r)
      /\ FCompares("une", l, r) = (IF nan THEN TRUE ELSE l # r)
      /\ FCompares("ogt", l, r) = (IF nan THEN FALSE ELSE l > r)
      /\ FCompares("ugt", l, r) = (IF nan THEN TRUE ELSE l > r)
      /\ FCompares("oge", l, r) = (IF nan THEN FALSE ELSE l >= r)
      /\ FCompares("uge", l, r) = (IF nan THEN TRUE ELSE l >= r)
      /\ FCompares("olt", l, r) = (IF nan THEN FALSE ELSE l < r)
      /\ FCompares("ult", l, r) = (IF nan THEN TRUE ELSE l < r)
      /\ FCompares("ole", l, r) = (IF nan THEN FALSE ELSE l <= r)
      /\ FCompares("ule", l, r) = (IF nan THEN TRUE ELSE l <= r)
  BY DEF FCompares
<1> HIDE DEF nan, ordered, unordered, same
<1>4. /\ FCmp("ord", l, r) <=> FCompares("ord", l, r)
      /\ FCmp("uno", l, r) <=> FCompares("uno", l, r)
  BY <1>1, <1>2, <1>3
<1>5. /\ FCmp("oeq", l, r) <=> FCompares("oeq", l, r)
      /\ FCmp("ueq", l, r) <=> FCompares("ueq", l, r)
      /\ FCmp("one", l, r) <=> FCompares("one", l, r)
      /\ FCmp("une", l, r) <=> FCompares("une", l, r)
  BY <1>1, <1>2, <1>3
<1>6. /\ FCmp("ogt", l, r) <=> FCompares("ogt", l, r)
      /\ FCmp("ugt", l, r) <=> FCompares("ugt", l, r)
      /\ FCmp("oge", l, r) <=> FCompares("oge", l, r)
      /\ FCmp("uge", l, r) <=> FCompares("uge", l, r)
  <2>1. FCmp("ogt", l, r) <=> FCompares("ogt", l, r)
    BY <1>1, <1>2, <1>3
  <2>2. FCmp("ugt", l, r) <=> FCompares("ugt", l, r)
    BY <1>1, <1>2, <1>3
  <2>3. FCmp("oge", l, r) <=> FCompares("oge", l, r)
    <3>1. FCmp("oge", l, r) <=> ordered /\ ~(l < r)
      BY <1>2
    <3>2. FCompares("oge", l, r) <=> IF nan THEN FALSE ELSE l >= r
      BY <1>3
    <3> QED
      BY <1>1, <3>1, <3>2
  <2>4. FCmp("uge", l, r) <=> FCompares("uge", l, r)
    <3>1. FCmp("uge", l, r) <=> unordered \/ ~(l < r)
      BY <1>2
    <3>2. FCompares("uge", l, r) <=> IF nan THEN TRUE ELSE l >= r
      BY <1>3
    <3> QED
      BY <1>1, <3>1, <3>2
  <2> QED
    BY <2>1, <2>2, <2>3, <2>4
<1>7. /\ FCmp("olt", l, r) <=> FCompares("olt", l, r)
      /\ FCmp("ult", l, r) <=> FCompares("ult", l, r)
      /\ FCmp("ole", l, r) <=> FCompares("ole", l, r)
      /\ FCmp("ule", l, r) <=> FCompares("ule", l, r)
  <2>1. FCmp("olt", l, r) <=> FCompares("olt", l, r)
    BY <1>1, <1>2, <1>3
  <2>2. FCmp("ult", l, r) <=> FCompares("ult", l, r)
    BY <1>1, <1>2, <1>3
  <2>3. FCmp("ole", l, r) <=> FCompares("ole", l, r)
    <3>1. FCmp("ole", l, r) <=> ordered /\ ~(l > r)
      BY <1>2
    <3>2. FCompares("ole", l, r) <=> IF nan THEN FALSE ELSE l <= r
      BY <1>3
    <3> QED
      BY <1>1, <3>1, <3>2
  <2>4. FCmp("ule", l, r) <=> FCompares("ule", l, r)
    <3>1. FCmp("ule", l, r) <=> unordered \/ ~(l > r)
      BY <1>2
    <3>2. FCompares("ule", l, r) <=> IF nan THEN TRUE ELSE l <= r
      BY <1>3
    <3> QED
      BY <1>1, <3>1, <3>2
  <2> QED
    BY <2>1, <2>2, <2>3, <2>4
<1> QED
  BY <1>4, <1>5, <1>6, <1>7 DEF FConds

(* The remainder of the opposite of a number.                                 *)
LEMMA RemainderOfNegative ==
    ASSUME NEW a \in Int, NEW n \in Nat \ {0}, a % n # 0
    PROVE  (-a) % n = n - (a % n) /\ (-a) % n # 0
<1> DEFINE q == a \div n
           r == a % n
           q2 == -q - 1
           r2 == n - r
           b == -a
<1>1. q \in Int /\ r \in 0 .. n - 1 /\ a = n * q + r
  BY Division
<1>2. r # 0
  OBVIOUS
<1> HIDE DEF q, r
<1>3. q2 \in Int /\ r2 \in 0 .. n - 1 /\ r2 # 0
  BY <1>1, <1>2
<1>4. n * q2 = -(n * q) - n
  BY <1>1
<1> DEFINE nq == n * q
           nq2 == n * q2
<1>5. nq \in Int /\ nq2 = -nq - n /\ a = nq + r
  BY <1>1, <1>4
<1> HIDE DEF nq, nq2, q2
<1>6. b = nq2 + r2
  BY <1>1, <1>5
<1>7. (nq2 + r2) % n = r2
  <2> HIDE DEF r2
  <2> QED
    BY <1>3, Quotient DEF nq2
<1>8. b % n = r2
  BY <1>6, <1>7
<1> QED
  BY <1>3, <1>8 DEF b, r2, r

(* The sign of a product.                                                     *)
LEMMA ProductSign ==
    ASSUME NEW a \in Int, NEW n \in Int, a # 0, n # 0
    PROVE  a * n < 0 <=> (a < 0) # (n < 0)
<1> DEFINE one == 1
           p == a * n
<1>1. one \in Nat /\ one * one = 1
  OBVIOUS
<1>2. CASE a > 0 /\ n > 0
  <2>1. a \in Nat /\ n \in Nat /\ one <= a /\ one <= n
    BY <1>2
  <2> HIDE DEF one
  <2>2. one * one <= a * n
    BY <1>1, <2>1, ProductMonotone
  <2>3. a * n \in Int
    OBVIOUS
  <2> QED
    BY <1>1, <1>2, <2>2, <2>3
<1>3. CASE a < 0 /\ n < 0
  <2>1. -a \in Nat /\ -n \in Nat /\ one <= -a /\ one <= -n
    BY <1>3
  <2> HIDE DEF one
  <2>2. one * one <= (-a) * (-n)
    BY <1>1, <2>1, ProductMonotone
  <2>3. (-a) * (-n) = a * n /\ a * n \in Int
    OBVIOUS
  <2> QED
    BY <1>1, <1>3, <2>2, <2>3
<1>4. CASE a > 0 /\ n < 0
  <2>1. a \in Nat /\ -n \in Nat /\ one <= a /\ one <= -n
    BY <1>4
  <2> HIDE DEF one
  <2>2. one * one <= a * (-n)
    BY <1>1, <2>1, ProductMonotone
  <2>3. a * (-n) = -(a * n) /\ a * n \in Int
    OBVIOUS
  <2> QED
    BY <1>1, <1>4, <2>2, <2>3
<1>5. CASE a < 0 /\ n > 0
  <2>1. -a \in Nat /\ n \in Nat /\ one <= -a /\ one <= n
    BY <1>5
  <2> HIDE DEF one
  <2>2. one * one <= (-a) * n
    BY <1>1, <2>1, ProductMonotone
  <2>3. (-a) * n = -(a * n) /\ a * n \in Int
    OBVIOUS
  <2> QED
    BY <1>1, <1>5, <2>2, <2>3
<1> QED
  BY <1>2, <1>3, <1>4, <1>5

(* frem is right where the remainder is not zero or the signs are the same,   *)
(* and of a zero that is no constant.                                         *)
LEMMA FRemIs ==
    ASSUME NEW a \in Int, NEW n \in Int, n # 0, NEW known \in {"none", "left", "right"},
           Mod(a, n) # 0 \/ a * n > 0 \/ (a = 0 /\ known # "left")
    PROVE  /\ FRem(a, n, known) = a - n * Truncated(a, n)
           /\ a - n * Truncated(a, n) \in Int
           /\ -Magnitude(a) <= a - n * Truncated(a, n) /\ a - n * Truncated(a, n) <= Magnitude(a)
<1> DEFINE ma == Magnitude(a)
           mn == Magnitude(n)
           R == ma % mn
           rest == a - n * Truncated(a, n)
           differ == (a < 0 /\ n > 0) \/ (a > 0 /\ n < 0)
<1>1. ma \in Nat /\ mn \in Nat \ {0} /\ ma = (IF a < 0 THEN -a ELSE a) /\ mn = (IF n < 0 THEN -n ELSE n)
  BY DEF Magnitude
<1>2. R \in 0 .. mn - 1 /\ rest = IF a < 0 THEN -R ELSE R
  BY RemainderIs
<1> HIDE DEF rest
<1>3. R \in Nat /\ R <= ma
  <2> HIDE DEF ma, mn
  <2> DEFINE q == ma \div mn
             z == 0
  <2>1. q \in Nat
    BY <1>1, DividedRange
  <2>2. ma = mn * q + R /\ R \in Int
    <3>1. ma \in Int /\ mn \in Nat \ {0}
      BY <1>1
    <3>2. ma = mn * (ma \div mn) + (ma % mn) /\ ma % mn \in 0 .. mn - 1
      BY ONLY <3>1, Division
    <3> QED
      BY <3>1, <3>2
  <2> HIDE DEF q
  <2>3. mn * q \in Nat
    BY <1>1, <2>1
  <2> HIDE DEF R
  <2> DEFINE p == mn * q
  <2> HIDE DEF p
  <2>4. p \in Nat /\ ma = p + R
    BY <2>2, <2>3 DEF p
  <2> QED
    BY <1>1, <1>2, <2>2, <2>4
<1>4. rest \in Int /\ -ma <= rest /\ rest <= ma
  <2> HIDE DEF ma, R
  <2> QED
    BY <1>1, <1>2, <1>3
<1>5. Mod(a, n) = (IF n > 0 THEN a % n ELSE -((-a) % (-n)))
  BY DEF Mod
<1>6. ASSUME Mod(a, n) # 0
      PROVE  R # 0
  <2> SUFFICES ASSUME R = 0 PROVE FALSE
    OBVIOUS
  <2>0. Mod(a, n) # 0
    BY <1>6
  <2>1. CASE n > 0 /\ a >= 0
    <3>1. ma = a /\ mn = n
      BY <1>1, <2>1
    <3> QED
      BY <1>5, <2>0, <2>1, <3>1
  <2>2. CASE n < 0 /\ a < 0
    <3>1. ma = -a /\ mn = -n
      BY <1>1, <2>2
    <3> QED
      BY <1>5, <2>0, <2>2, <3>1
  <2>3. CASE n > 0 /\ a < 0
    <3>1. ma = -a /\ mn = n
      BY <1>1, <2>3
    <3>2. a % n # 0
      BY <1>5, <2>0, <2>3
    <3>3. (-a) % n # 0
      BY <2>3, <3>2, RemainderOfNegative
    <3> QED
      BY <3>1, <3>3
  <2>4. CASE n < 0 /\ a >= 0
    <3> DEFINE b == -a
               k == -n
    <3>1. ma = a /\ mn = k /\ b \in Int /\ k \in Nat \ {0} /\ -b = a
      BY <1>1, <2>4
    <3>2. b % k # 0
      <4>1. Mod(a, n) = -(b % k)
        BY <1>5, <2>4
      <4> QED
        BY <2>0, <4>1
    <3> HIDE DEF b, k
    <3>3. (-b) % k # 0
      BY <3>1, <3>2, RemainderOfNegative
    <3> QED
      BY <3>1, <3>3
  <2> QED
    BY <2>1, <2>2, <2>3, <2>4
<1>7. a # 0 \/ known # "left"
  <2> SUFFICES ASSUME a = 0, Mod(a, n) # 0 \/ a * n > 0 PROVE FALSE
    OBVIOUS
  <2>1. CASE Mod(a, n) # 0
    <3>1. ma = 0
      BY <1>1
    <3>2. R # 0
      BY <1>6, <2>1
    <3> HIDE DEF ma, R
    <3> QED
      BY <1>3, <3>1, <3>2
  <2>2. CASE a * n > 0
    BY <2>2
  <2> QED
    BY <2>1, <2>2
<1>8. differ => R # 0
  <2> SUFFICES ASSUME differ, ~(a * n > 0) PROVE R # 0
    <3>1. differ => a * n < 0
      BY ProductSign
    <3>2. a * n \in Int
      OBVIOUS
    <3> QED
      BY <3>1, <3>2
  <2>1. Mod(a, n) # 0
    OBVIOUS
  <2> QED
    BY <1>6, <2>1
<1>9. Mod(a, n) - (IF differ THEN n ELSE 0) = rest
  <2>1. CASE n > 0 /\ a >= 0
    <3>1. ma = a /\ mn = n
      BY <1>1, <2>1
    <3>2. Mod(a, n) = R
      BY <1>5, <2>1, <3>1
    <3> HIDE DEF R
    <3> QED
      BY <1>2, <1>3, <2>1, <3>2
  <2>2. CASE n < 0 /\ a <= 0
    <3>1. ma = -a /\ mn = -n
      BY <1>1, <2>2
    <3>2. Mod(a, n) = -R
      BY <1>5, <2>2, <3>1
    <3>3. a = 0 => R = 0
      <4> HIDE DEF R
      <4> QED
        BY <1>3, <3>1
    <3> HIDE DEF R
    <3> QED
      BY <1>2, <1>3, <2>2, <3>2, <3>3
  <2>3. CASE n > 0 /\ a < 0
    <3> DEFINE b == -a
    <3>1. ma = b /\ mn = n /\ b \in Int /\ -b = a /\ n \in Nat \ {0}
      BY <1>1, <2>3
    <3> HIDE DEF b
    <3>2. b % n = R
      BY <3>1
    <3>3. (-b) % n = n - (b % n)
      BY <1>8, <2>3, <3>1, <3>2, RemainderOfNegative
    <3>4. Mod(a, n) = n - R
      BY <1>5, <2>3, <3>1, <3>2, <3>3
    <3> HIDE DEF R
    <3> QED
      BY <1>2, <1>3, <2>3, <3>4
  <2>4. CASE n < 0 /\ a > 0
    <3> DEFINE k == -n
    <3>1. ma = a /\ mn = k /\ k \in Nat \ {0} /\ n = -k
      BY <1>1, <2>4
    <3> HIDE DEF k
    <3>2. a % k = R
      BY <3>1
    <3>3. (-a) % k = k - (a % k)
      BY <1>8, <2>4, <3>1, <3>2, RemainderOfNegative
    <3>4. Mod(a, n) = -((-a) % k)
      BY <1>5, <2>4 DEF k
    <3>5. Mod(a, n) = R - k
      <4> HIDE DEF R
      <4> QED
        BY <1>3, <3>1, <3>2, <3>3, <3>4
    <3> HIDE DEF R
    <3> QED
      BY <1>2, <1>3, <2>4, <3>1, <3>5
  <2> QED
    BY <2>1, <2>2, <2>3, <2>4
<1>10. Mod(a, n) \in Int
  <2>1. CASE n > 0
    <3>1. n \in Nat \ {0}
      BY <2>1
    <3>2. a % n \in Int
      BY <3>1, Division
    <3> QED
      BY <1>5, <2>1, <3>2
  <2>2. CASE ~(n > 0)
    <3> DEFINE k == -n
               b == -a
    <3>1. k \in Nat \ {0} /\ b \in Int
      BY <2>2
    <3> HIDE DEF k, b
    <3>2. b % k \in Int
      BY <3>1, Division
    <3>3. Mod(a, n) = -(b % k)
      BY <1>5, <2>2 DEF b, k
    <3> QED
      BY <3>2, <3>3
  <2> QED
    BY <2>1, <2>2
<1>11. FRem(a, n, known) = Mod(a, n) - n * Number(differ)
  <2>1. CASE known = "none"
    <3>1. a * n < 0 <=> differ
      <4>1. CASE a = 0
        BY <4>1
      <4>2. CASE a # 0
        BY <4>2, ProductSign
      <4> QED
        BY <4>1, <4>2
    <3>2. FRem(a, n, "none") = Mod(a, n) - n * Number(a * n < 0)
      BY DEF FRem
    <3>3. Number(a * n < 0) = Number(differ)
      BY <3>1 DEF Number
    <3> QED
      BY <2>1, <3>2, <3>3
  <2>2. CASE known = "right"
    <3> DEFINE test == IF n > 0 THEN a < 0 ELSE a > 0
    <3>1. test <=> differ
      OBVIOUS
    <3>2. FRem(a, n, "right") = Mod(a, n) - n * Number(test)
      BY DEF FRem
    <3>3. Number(test) = Number(differ)
      BY <3>1 DEF Number
    <3> QED
      BY <2>2, <3>2, <3>3
  <2>3. CASE known = "left"
    <3> DEFINE test == IF a > 0 THEN n < 0 ELSE n > 0
    <3>1. test <=> differ
      BY <1>7, <2>3
    <3>2. FRem(a, n, "left") = Mod(a, n) - n * Number(test)
      BY DEF FRem
    <3>3. Number(test) = Number(differ)
      BY <3>1 DEF Number
    <3> QED
      BY <2>3, <3>2, <3>3
  <2> QED
    BY <2>1, <2>2, <2>3
<1>12. FRem(a, n, known) = rest
  <2>1. CASE differ
    <3>1. n * Number(differ) = n
      BY <2>1 DEF Number
    <3> QED
      BY <1>9, <1>11, <2>1, <3>1
  <2>2. CASE ~differ
    <3>1. n * Number(differ) = 0
      BY <2>2 DEF Number
    <3> QED
      BY <1>9, <1>11, <2>2, <3>1
  <2> QED
    BY <2>1, <2>2
<1> QED
  BY <1>4, <1>12 DEF rest

(* Doubles are numbers, and hold what is nearer to zero.                      *)
LEMMA DoublesFacts ==
    ASSUME RegistersAssumption
    PROVE  /\ Doubles \subseteq Double
           /\ \A x \in Doubles : Finite(x) =>
                  x \in Int /\ \A y \in Int : -Magnitude(x) <= y /\ y <= Magnitude(x) => y \in Doubles
<1>1. PICK d \in 0 .. Infinity - 1 : Doubles = (-d .. d) \cup {-Infinity, Infinity, NaN}
  BY DEF RegistersAssumption
<1>2. Infinity = 1000 /\ NaN = 1002
  BY DEF Infinity, NaN
<1>3. d \in Nat /\ d <= 999
  BY <1>1, <1>2
<1>4. Doubles \subseteq Double
  BY <1>1, <1>2, <1>3 DEF Double
<1>5. ASSUME NEW x \in Doubles, Finite(x)
      PROVE  x \in Int /\ \A y \in Int : -Magnitude(x) <= y /\ y <= Magnitude(x) => y \in Doubles
  <2>1. x \in Int /\ -1000 < x /\ x < 1000
    BY <1>2, <1>4, <1>5 DEF Double, Finite
  <2>2. x \in -d .. d
    BY SMTT(30), <1>1, <1>2, <2>1
  <2>3. Magnitude(x) \in Int /\ Magnitude(x) <= d /\ -d <= -Magnitude(x)
    BY <1>3, <2>1, <2>2 DEF Magnitude
  <2>4. ASSUME NEW y \in Int, -Magnitude(x) <= y, y <= Magnitude(x) PROVE y \in Doubles
    <3>1. y \in -d .. d
      BY <1>3, <2>3, <2>4
    <3> QED
      BY <1>1, <3>1
  <2> QED
    BY <2>1, <2>4
<1> QED
  BY <1>4, <1>5

-----------------------------------------------------------------------------
(* Every outcome of an instruction is what LLVM says.                        *)

Exact(op, l, r, w, known) ==
    /\ Meaning(op, l, r, w) \in 0 .. Pow2[w] - 1
    /\ \A ps \in Outcomes(op, Split(l, w), Split(r, w), w, known) : ps = Split(Meaning(op, l, r, w), w)

(* With one part, being right is a matter of one number.                      *)
LEMMA OneOutcome ==
    ASSUME NEW w \in Nat \ {0}, Parts(w) = 1, NEW op, NEW l, NEW r, NEW known, NEW x \in Int,
           Meaning(op, l, r, w) = x % Pow2[w],
           \A ps \in Outcomes(op, Split(l, w), Split(r, w), w, known) : ps = <<x % Pow2[w]>>
    PROVE  Exact(op, l, r, w, known)
<1> DEFINE m == Pow2[w]
           y == x % m
<1>1. m \in Nat \ {0}
  BY PowHalf
<1>2. y \in 0 .. m - 1
  <2> HIDE DEF m
  <2> QED
    BY <1>1, Division
<1>3. Split(y, w) = <<y>>
  <2> HIDE DEF y
  <2> QED
    BY <1>2, SplitFacts
<1>4. Meaning(op, l, r, w) = y
  OBVIOUS
<1>5. \A ps \in Outcomes(op, Split(l, w), Split(r, w), w, known) : ps = <<y>>
  OBVIOUS
<1> HIDE DEF y, m
<1>6. \A ps \in Outcomes(op, Split(l, w), Split(r, w), w, known) : ps = Split(y, w)
  BY <1>3, <1>5
<1> QED
  BY <1>2, <1>4, <1>6 DEF Exact, m

(* The first part of a small number is the number.                            *)
LEMMA FirstPart ==
    ASSUME NEW w \in Nat \ {0}, NEW n \in 0 .. Pow2[w] - 1, Parts(w) = 1 \/ n <= PartBits
    PROVE  Split(n, w)[1] = n
<1>1. CASE Parts(w) = 1
  <2>1. Split(n, w) = <<n>>
    BY <1>1, SplitFacts
  <2> QED
    BY <2>1
<1>2. CASE n <= PartBits
  <2> DEFINE one == 1
             B == Pow2[PartBits]
  <2>1. Split(n, w)[one] = (n \div Pow2[PartBits * (one - 1)]) % B
    <3>1. one \in 1 .. Parts(w)
      BY PartFacts
    <3> HIDE DEF one
    <3> QED
      BY <3>1 DEF Split
  <2>2. Pow2[PartBits * (one - 1)] = 1
    <3>1. PartBits * (one - 1) = 0
      BY Positive
    <3> QED
      BY <3>1, PowRecursion
  <2>3. n \in Int /\ n \div 1 = n
    BY PowPositive
  <2>4. B \in Nat \ {0} /\ PartBits < B
    BY Positive, PowAbove
  <2> HIDE DEF B
  <2>5. n \in 0 .. B - 1
    BY <1>2, <2>3, <2>4, Positive, PowPositive
  <2>6. n % B = n
    BY <2>4, <2>5, Small
  <2> HIDE DEF one
  <2>7. Split(n, w)[one] = n
    BY <2>1, <2>2, <2>3, <2>6
  <2> QED
    BY <2>7 DEF one
<1> QED
  BY <1>1, <1>2

(* What add and sub may leave.                                                *)
LEMMA SumOutcomes ==
    ASSUME NEW op \in {"add", "sub"}, NEW pl, NEW pr, NEW w, NEW known, NEW ps \in Outcomes(op, pl, pr, w, known)
    PROVE  /\ Parts(w) = 1 =>
                  \E n : /\ ps = <<n>>
                        /\ \/ \E k \in {"none", known}, modIsFaster \in BOOLEAN :
                                  n = SumDiff(op, pl[1], pr[1], Pow2[w], k, modIsFaster)
                           \/ Flagged(op, pl[1], pr[1], w) /\ n = Apply(op, pl[1], pr[1])
           /\ Parts(w) # 1 /\ Parts(w) > 1 =>
                  \E spacing : \E omitLast \in BOOLEAN :
                      ps = WideSumDiff(op, pl, pr, w, Checkpoints(Parts(w), spacing, omitLast))
<1>1. CASE op = "add"
  <2>1. ASSUME Parts(w) = 1
        PROVE  \E i : /\ ps = <<i>>
                      /\ \/ \E k \in {"none", known}, modIsFaster \in BOOLEAN :
                                i = SumDiff(op, pl[1], pr[1], Pow2[w], k, modIsFaster)
                         \/ Flagged(op, pl[1], pr[1], w) /\ i = Apply(op, pl[1], pr[1])
    <3> DEFINE sums == {SumDiff("add", pl[1], pr[1], Pow2[w], k, modIsFaster) :
                           k \in {"none", known}, modIsFaster \in BOOLEAN}
               bare == IF Flagged("add", pl[1], pr[1], w) THEN {Apply("add", pl[1], pr[1])} ELSE {}
    <3>1. Outcomes("add", pl, pr, w, known) = {<<i>> : i \in sums \cup bare}
      BY <2>1 DEF Outcomes, Sums, Bitwise2, Extremes, Saturate
    <3>2. ps \in Outcomes("add", pl, pr, w, known)
      BY <1>1
    <3> HIDE DEF sums, bare
    <3>3. PICK i \in sums \cup bare : ps = <<i>>
      BY <3>1, <3>2
    <3>4. CASE i \in sums
      <4>1. PICK k \in {"none", known}, faster \in BOOLEAN : i = SumDiff("add", pl[1], pr[1], Pow2[w], k, faster)
        BY <3>4 DEF sums
      <4> QED
        BY <1>1, <3>3, <4>1
    <3>5. CASE i \in bare
      <4>1. Flagged("add", pl[1], pr[1], w) /\ i = Apply("add", pl[1], pr[1])
        BY <3>5 DEF bare
      <4> QED
        BY <1>1, <3>3, <4>1
    <3> QED
      BY <3>3, <3>4, <3>5
  <2>2. ASSUME Parts(w) # 1, Parts(w) > 1
        PROVE  \E spacing : \E omitLast \in BOOLEAN :
                   ps = WideSumDiff(op, pl, pr, w, Checkpoints(Parts(w), spacing, omitLast))
    <3> DEFINE spacings == 1 .. Min({Parts(w), 10})
               checked(spacing, omitLast) == Checkpoints(Parts(w), spacing, omitLast)
    <3>1. Outcomes("add", pl, pr, w, known)
            = {WideSumDiff("add", pl, pr, w, checked(spacing, omitLast)) :
                   spacing \in spacings, omitLast \in BOOLEAN}
      BY <2>2 DEF Outcomes, Sums, Bitwise2, Extremes, Saturate
    <3>2. ps \in Outcomes("add", pl, pr, w, known)
      BY <1>1
    <3> HIDE DEF spacings, checked
    <3>3. PICK spacing \in spacings, omitLast \in BOOLEAN :
              ps = WideSumDiff("add", pl, pr, w, checked(spacing, omitLast))
      BY <3>1, <3>2
    <3>4. ps = WideSumDiff(op, pl, pr, w, checked(spacing, omitLast))
      BY <1>1, <3>3
    <3> QED
      BY <3>4 DEF checked
  <2> QED
    BY <2>1, <2>2
<1>2. CASE op = "sub"
  <2>1. ASSUME Parts(w) = 1
        PROVE  \E i : /\ ps = <<i>>
                      /\ \/ \E k \in {"none", known}, modIsFaster \in BOOLEAN :
                                i = SumDiff(op, pl[1], pr[1], Pow2[w], k, modIsFaster)
                         \/ Flagged(op, pl[1], pr[1], w) /\ i = Apply(op, pl[1], pr[1])
    <3> DEFINE sums == {SumDiff("sub", pl[1], pr[1], Pow2[w], k, modIsFaster) :
                           k \in {"none", known}, modIsFaster \in BOOLEAN}
               bare == IF Flagged("sub", pl[1], pr[1], w) THEN {Apply("sub", pl[1], pr[1])} ELSE {}
    <3>1. Outcomes("sub", pl, pr, w, known) = {<<i>> : i \in sums \cup bare}
      BY <2>1 DEF Outcomes, Sums, Bitwise2, Extremes, Saturate
    <3>2. ps \in Outcomes("sub", pl, pr, w, known)
      BY <1>2
    <3> HIDE DEF sums, bare
    <3>3. PICK i \in sums \cup bare : ps = <<i>>
      BY <3>1, <3>2
    <3>4. CASE i \in sums
      <4>1. PICK k \in {"none", known}, faster \in BOOLEAN : i = SumDiff("sub", pl[1], pr[1], Pow2[w], k, faster)
        BY <3>4 DEF sums
      <4> QED
        BY <1>2, <3>3, <4>1
    <3>5. CASE i \in bare
      <4>1. Flagged("sub", pl[1], pr[1], w) /\ i = Apply("sub", pl[1], pr[1])
        BY <3>5 DEF bare
      <4> QED
        BY <1>2, <3>3, <4>1
    <3> QED
      BY <3>3, <3>4, <3>5
  <2>2. ASSUME Parts(w) # 1, Parts(w) > 1
        PROVE  \E spacing : \E omitLast \in BOOLEAN :
                   ps = WideSumDiff(op, pl, pr, w, Checkpoints(Parts(w), spacing, omitLast))
    <3> DEFINE spacings == 1 .. Min({Parts(w), 10})
               checked(spacing, omitLast) == Checkpoints(Parts(w), spacing, omitLast)
    <3>1. Outcomes("sub", pl, pr, w, known)
            = {WideSumDiff("sub", pl, pr, w, checked(spacing, omitLast)) :
                   spacing \in spacings, omitLast \in BOOLEAN}
      BY <2>2 DEF Outcomes, Sums, Bitwise2, Extremes, Saturate
    <3>2. ps \in Outcomes("sub", pl, pr, w, known)
      BY <1>2
    <3> HIDE DEF spacings, checked
    <3>3. PICK spacing \in spacings, omitLast \in BOOLEAN :
              ps = WideSumDiff("sub", pl, pr, w, checked(spacing, omitLast))
      BY <3>1, <3>2
    <3>4. ps = WideSumDiff(op, pl, pr, w, checked(spacing, omitLast))
      BY <1>2, <3>3
    <3> QED
      BY <3>4 DEF checked
  <2> QED
    BY <2>1, <2>2
<1> QED
  BY <1>1, <1>2

(* What shl may leave.                                                        *)
LEMMA ShlOutcomes ==
    ASSUME NEW pl, NEW pr, NEW w, NEW known, NEW ps \in Outcomes("shl", pl, pr, w, known)
    PROVE  \/ ps = BitShift("left", pl, pr[1], w, TRUE)
           \/ ps = BitShift("left", pl, pr[1], w, FALSE) /\ Parts(w) = 1 /\ Flagged("shl", pl[1], pr[1], w)
<1> DEFINE lossy == ~(Parts(w) = 1 /\ Flagged("shl", pl[1], pr[1], w))
<1>1. Outcomes("shl", pl, pr, w, known) = {BitShift("left", pl, pr[1], w, out) : out \in {TRUE, lossy}}
  BY DEF Outcomes, Sums, Bitwise2, Extremes, Saturate
<1>2. lossy \in BOOLEAN
  OBVIOUS
<1> HIDE DEF lossy
<1>3. PICK out \in {TRUE, lossy} : ps = BitShift("left", pl, pr[1], w, out)
  BY <1>1
<1>4. out \in BOOLEAN
  BY <1>2, <1>3
<1>5. ~out => Parts(w) = 1 /\ Flagged("shl", pl[1], pr[1], w)
  BY <1>3 DEF lossy
<1> QED
  BY <1>3, <1>4, <1>5

(* What lshr may leave.                                                       *)
LEMMA LshrOutcomes ==
    ASSUME NEW pl, NEW pr, NEW w, NEW known, NEW ps \in Outcomes("lshr", pl, pr, w, known)
    PROVE  \E out \in BOOLEAN : ps = BitShift("right", pl, pr[1], w, out)
<1> DEFINE lossy == pl[1] % Pow2[pr[1]] # 0
<1>1. Outcomes("lshr", pl, pr, w, known) = {BitShift("right", pl, pr[1], w, out) : out \in {TRUE, lossy}}
  BY DEF Outcomes, Sums, Bitwise2, Extremes, Saturate
<1>2. lossy \in BOOLEAN
  OBVIOUS
<1> HIDE DEF lossy
<1>3. PICK out \in {TRUE, lossy} : ps = BitShift("right", pl, pr[1], w, out)
  BY <1>1
<1> QED
  BY <1>2, <1>3

(* What mul may leave.                                                        *)
LEMMA ProductOutcomes ==
    ASSUME NEW pl, NEW pr, NEW w, NEW known, NEW ps \in Outcomes("mul", pl, pr, w, known)
    PROVE  \/ ps = <<MultiplyWrap(pl[1], pr[1], w)>>
           \/ Flagged("mul", pl[1], pr[1], w) /\ ps = <<pl[1] * pr[1]>>
<1> DEFINE S == {MultiplyWrap(pl[1], pr[1], w)} \cup IF Flagged("mul", pl[1], pr[1], w) THEN {pl[1] * pr[1]} ELSE {}
<1>1. Outcomes("mul", pl, pr, w, known) = {<<n>> : n \in S}
  BY DEF Outcomes, Sums, Bitwise2, Extremes, Saturate
<1> HIDE DEF S
<1>2. PICK n \in S : ps = <<n>>
  BY <1>1
<1> QED
  BY <1>2 DEF S

(* What sdiv may leave.                                                       *)
LEMMA SdivOutcomes ==
    ASSUME NEW pl, NEW pr, NEW w, NEW known, NEW ps \in Outcomes("sdiv", pl, pr, w, known)
    PROVE  \/ ps = <<SignedDiv(pl[1], pr[1], w)>>
           \/ Meaning("srem", pl[1], pr[1], w) = 0 /\ ps = <<SignedDivExact(pl[1], pr[1], w)>>
<1> DEFINE S == {SignedDiv(pl[1], pr[1], w)}
                \cup IF Meaning("srem", pl[1], pr[1], w) = 0 THEN {SignedDivExact(pl[1], pr[1], w)} ELSE {}
<1>1. Outcomes("sdiv", pl, pr, w, known) = {<<n>> : n \in S}
  BY DEF Outcomes, Sums, Bitwise2, Extremes, Saturate
<1> HIDE DEF S
<1>2. PICK n \in S : ps = <<n>>
  BY <1>1
<1> QED
  BY <1>2 DEF S

(* A choice from one.                                                         *)
LEMMA OnlyOutcome ==
    ASSUME NEW x, NEW ps \in {<<n>> : n \in {x}}
    PROVE  ps = <<x>>
OBVIOUS

(* What the instructions with one translation leave.                          *)
LEMMA PlainOutcomes ==
    ASSUME NEW pl, NEW pr, NEW w, NEW known
    PROVE  /\ \A ps \in Outcomes("ashr", pl, pr, w, known) : ps = <<AShr(pl[1], pr[1], w)>>
           /\ \A ps \in Outcomes("udiv", pl, pr, w, known) : ps = <<FloorDiv(pl[1], pr[1])>>
           /\ \A ps \in Outcomes("urem", pl, pr, w, known) : ps = <<Mod(pl[1], pr[1])>>
           /\ \A ps \in Outcomes("srem", pl, pr, w, known) : ps = <<SignedRem(pl[1], pr[1], w)>>
           /\ \A ps \in Outcomes("abs", pl, pr, w, known) : ps = <<Abs(pl[1], w)>>
<1>1. ASSUME NEW ps \in Outcomes("ashr", pl, pr, w, known) PROVE ps = <<AShr(pl[1], pr[1], w)>>
  <2>1. Outcomes("ashr", pl, pr, w, known) = {<<n>> : n \in {AShr(pl[1], pr[1], w)}}
    BY DEF Outcomes, Sums, Bitwise2, Extremes, Saturate
  <2> QED
    BY <1>1, <2>1, OnlyOutcome
<1>2. ASSUME NEW ps \in Outcomes("udiv", pl, pr, w, known) PROVE ps = <<FloorDiv(pl[1], pr[1])>>
  <2>1. Outcomes("udiv", pl, pr, w, known) = {<<n>> : n \in {FloorDiv(pl[1], pr[1])}}
    BY DEF Outcomes, Sums, Bitwise2, Extremes, Saturate
  <2> QED
    BY <1>2, <2>1, OnlyOutcome
<1>3. ASSUME NEW ps \in Outcomes("urem", pl, pr, w, known) PROVE ps = <<Mod(pl[1], pr[1])>>
  <2>1. Outcomes("urem", pl, pr, w, known) = {<<n>> : n \in {Mod(pl[1], pr[1])}}
    BY DEF Outcomes, Sums, Bitwise2, Extremes, Saturate
  <2> QED
    BY <1>3, <2>1, OnlyOutcome
<1>4. ASSUME NEW ps \in Outcomes("srem", pl, pr, w, known) PROVE ps = <<SignedRem(pl[1], pr[1], w)>>
  <2>1. Outcomes("srem", pl, pr, w, known) = {<<n>> : n \in {SignedRem(pl[1], pr[1], w)}}
    BY DEF Outcomes, Sums, Bitwise2, Extremes, Saturate
  <2> QED
    BY <1>4, <2>1, OnlyOutcome
<1>5. ASSUME NEW ps \in Outcomes("abs", pl, pr, w, known) PROVE ps = <<Abs(pl[1], w)>>
  <2>1. Outcomes("abs", pl, pr, w, known) = {<<n>> : n \in {Abs(pl[1], w)}}
    BY DEF Outcomes, Sums, Bitwise2, Extremes, Saturate
  <2> QED
    BY <1>5, <2>1, OnlyOutcome
<1> QED
  BY <1>1, <1>2, <1>3, <1>4, <1>5

(* What and, or and xor may leave.                                            *)
LEMMA BitwiseOutcomes ==
    ASSUME NEW op \in Bitwise2, NEW pl, NEW pr, NEW w, NEW known, NEW ps \in Outcomes(op, pl, pr, w, known)
    PROVE  \E lookups : \E viaAnd \in BOOLEAN : ps = BitwiseParts(op, pl, pr, w, known, lookups, viaAnd)
<1> DEFINE all == {{}, 0 .. w, {at \in 0 .. w : at % 2 = 1}}
<1>1. CASE op = "and"
  <2>1. Outcomes("and", pl, pr, w, known)
          = {BitwiseParts("and", pl, pr, w, known, lookups, viaAnd) : lookups \in all, viaAnd \in BOOLEAN}
    BY DEF Outcomes, Sums, Bitwise2, Extremes, Saturate
  <2>2. ps \in Outcomes("and", pl, pr, w, known)
    BY <1>1
  <2> HIDE DEF all
  <2>3. PICK lookups \in all, viaAnd \in BOOLEAN : ps = BitwiseParts("and", pl, pr, w, known, lookups, viaAnd)
    BY <2>1, <2>2
  <2>4. ps = BitwiseParts(op, pl, pr, w, known, lookups, viaAnd)
    BY <1>1, <2>3
  <2> QED
    BY <2>4
<1>2. CASE op = "or"
  <2>1. Outcomes("or", pl, pr, w, known)
          = {BitwiseParts("or", pl, pr, w, known, lookups, viaAnd) : lookups \in all, viaAnd \in BOOLEAN}
    BY DEF Outcomes, Sums, Bitwise2, Extremes, Saturate
  <2>2. ps \in Outcomes("or", pl, pr, w, known)
    BY <1>2
  <2> HIDE DEF all
  <2>3. PICK lookups \in all, viaAnd \in BOOLEAN : ps = BitwiseParts("or", pl, pr, w, known, lookups, viaAnd)
    BY <2>1, <2>2
  <2>4. ps = BitwiseParts(op, pl, pr, w, known, lookups, viaAnd)
    BY <1>2, <2>3
  <2> QED
    BY <2>4
<1>3. CASE op = "xor"
  <2>1. Outcomes("xor", pl, pr, w, known)
          = {BitwiseParts("xor", pl, pr, w, known, lookups, viaAnd) : lookups \in all, viaAnd \in BOOLEAN}
    BY DEF Outcomes, Sums, Bitwise2, Extremes, Saturate
  <2>2. ps \in Outcomes("xor", pl, pr, w, known)
    BY <1>3
  <2> HIDE DEF all
  <2>3. PICK lookups \in all, viaAnd \in BOOLEAN : ps = BitwiseParts("xor", pl, pr, w, known, lookups, viaAnd)
    BY <2>1, <2>2
  <2>4. ps = BitwiseParts(op, pl, pr, w, known, lookups, viaAnd)
    BY <1>3, <2>3
  <2> QED
    BY <2>4
<1> QED
  BY <1>1, <1>2, <1>3 DEF Bitwise2

(* What the intrinsics leave.                                                 *)
LEMMA ExtremeOutcomes ==
    ASSUME NEW pl, NEW pr, NEW w, NEW known
    PROVE  /\ \A ps \in Outcomes("smax", pl, pr, w, known) : ps = <<MinMax("smax", pl[1], pr[1], w)>>
           /\ \A ps \in Outcomes("smin", pl, pr, w, known) : ps = <<MinMax("smin", pl[1], pr[1], w)>>
           /\ \A ps \in Outcomes("umax", pl, pr, w, known) : ps = <<MinMax("umax", pl[1], pr[1], w)>>
           /\ \A ps \in Outcomes("umin", pl, pr, w, known) : ps = <<MinMax("umin", pl[1], pr[1], w)>>
           /\ \A ps \in Outcomes("uadd.sat", pl, pr, w, known) : ps = <<Saturating("uadd.sat", pl[1], pr[1], w)>>
           /\ \A ps \in Outcomes("usub.sat", pl, pr, w, known) : ps = <<Saturating("usub.sat", pl[1], pr[1], w)>>
           /\ \A ps \in Outcomes("sadd.sat", pl, pr, w, known) : ps = <<Saturating("sadd.sat", pl[1], pr[1], w)>>
           /\ \A ps \in Outcomes("ssub.sat", pl, pr, w, known) : ps = <<Saturating("ssub.sat", pl[1], pr[1], w)>>
<1>1. ASSUME NEW ps \in Outcomes("smax", pl, pr, w, known) PROVE ps = <<MinMax("smax", pl[1], pr[1], w)>>
  <2>1. Outcomes("smax", pl, pr, w, known) = {<<n>> : n \in {MinMax("smax", pl[1], pr[1], w)}}
    BY DEF Outcomes, Sums, Bitwise2, Extremes, Saturate
  <2> QED
    BY <1>1, <2>1, OnlyOutcome
<1>2. ASSUME NEW ps \in Outcomes("smin", pl, pr, w, known) PROVE ps = <<MinMax("smin", pl[1], pr[1], w)>>
  <2>1. Outcomes("smin", pl, pr, w, known) = {<<n>> : n \in {MinMax("smin", pl[1], pr[1], w)}}
    BY DEF Outcomes, Sums, Bitwise2, Extremes, Saturate
  <2> QED
    BY <1>2, <2>1, OnlyOutcome
<1>3. ASSUME NEW ps \in Outcomes("umax", pl, pr, w, known) PROVE ps = <<MinMax("umax", pl[1], pr[1], w)>>
  <2>1. Outcomes("umax", pl, pr, w, known) = {<<n>> : n \in {MinMax("umax", pl[1], pr[1], w)}}
    BY DEF Outcomes, Sums, Bitwise2, Extremes, Saturate
  <2> QED
    BY <1>3, <2>1, OnlyOutcome
<1>4. ASSUME NEW ps \in Outcomes("umin", pl, pr, w, known) PROVE ps = <<MinMax("umin", pl[1], pr[1], w)>>
  <2>1. Outcomes("umin", pl, pr, w, known) = {<<n>> : n \in {MinMax("umin", pl[1], pr[1], w)}}
    BY DEF Outcomes, Sums, Bitwise2, Extremes, Saturate
  <2> QED
    BY <1>4, <2>1, OnlyOutcome
<1>5. ASSUME NEW ps \in Outcomes("uadd.sat", pl, pr, w, known) PROVE ps = <<Saturating("uadd.sat", pl[1], pr[1], w)>>
  <2>1. Outcomes("uadd.sat", pl, pr, w, known) = {<<n>> : n \in {Saturating("uadd.sat", pl[1], pr[1], w)}}
    BY DEF Outcomes, Sums, Bitwise2, Extremes, Saturate
  <2> QED
    BY <1>5, <2>1, OnlyOutcome
<1>6. ASSUME NEW ps \in Outcomes("usub.sat", pl, pr, w, known) PROVE ps = <<Saturating("usub.sat", pl[1], pr[1], w)>>
  <2>1. Outcomes("usub.sat", pl, pr, w, known) = {<<n>> : n \in {Saturating("usub.sat", pl[1], pr[1], w)}}
    BY DEF Outcomes, Sums, Bitwise2, Extremes, Saturate
  <2> QED
    BY <1>6, <2>1, OnlyOutcome
<1>7. ASSUME NEW ps \in Outcomes("sadd.sat", pl, pr, w, known) PROVE ps = <<Saturating("sadd.sat", pl[1], pr[1], w)>>
  <2>1. Outcomes("sadd.sat", pl, pr, w, known) = {<<n>> : n \in {Saturating("sadd.sat", pl[1], pr[1], w)}}
    BY DEF Outcomes, Sums, Bitwise2, Extremes, Saturate
  <2> QED
    BY <1>7, <2>1, OnlyOutcome
<1>8. ASSUME NEW ps \in Outcomes("ssub.sat", pl, pr, w, known) PROVE ps = <<Saturating("ssub.sat", pl[1], pr[1], w)>>
  <2>1. Outcomes("ssub.sat", pl, pr, w, known) = {<<n>> : n \in {Saturating("ssub.sat", pl[1], pr[1], w)}}
    BY DEF Outcomes, Sums, Bitwise2, Extremes, Saturate
  <2> QED
    BY <1>8, <2>1, OnlyOutcome
<1> QED
  BY <1>1, <1>2, <1>3, <1>4, <1>5, <1>6, <1>7, <1>8

(* What the flags of an instruction promise: nothing overflows.               *)
LEMMA FlaggedFacts ==
    ASSUME NEW l, NEW r, NEW w
    PROVE  /\ \A op \in {"add", "sub"} : Flagged(op, l, r, w) => Apply(op, l, r) \in 0 .. Pow2[w] - 1
           /\ Flagged("mul", l, r, w) => l * r \in 0 .. Pow2[w] - 1
           /\ Flagged("shl", l, r, w) => l * Pow2[r] \in 0 .. Pow2[w] - 1
<1>1. ASSUME NEW op \in {"add", "sub"}, Flagged(op, l, r, w) PROVE Apply(op, l, r) \in 0 .. Pow2[w] - 1
  BY <1>1 DEF Flagged, Sums
<1>2. ASSUME Flagged("mul", l, r, w) PROVE l * r \in 0 .. Pow2[w] - 1
  BY <1>2 DEF Flagged, Sums
<1>3. ASSUME Flagged("shl", l, r, w) PROVE l * Pow2[r] \in 0 .. Pow2[w] - 1
  BY <1>3 DEF Flagged, Sums
<1> QED
  BY <1>1, <1>2, <1>3

(* add as LLVM has it does not stumble over the shorter text of a constant.   *)
LEMMA AddDeviation ==
    ASSUME NEW l, NEW r, NEW w, NEW known, Deviation("add", l, r, w, known) = "none"
    PROVE  ~(known = "left" /\ Parts(w) = 1 /\ ShorterText(Pow2[w] - l, l))
BY DEF Deviation

(* shl as LLVM has it moves no part beyond the upper one.                     *)
LEMMA ShlDeviation ==
    ASSUME NEW l, NEW r, NEW w, NEW known, Deviation("shl", l, r, w, known) = "none"
    PROVE  ~(Parts(w) = 2 /\ r > PartWidth(w, 2))
BY DEF Deviation

(* ashr as LLVM has it loses no bit of a negative number.                     *)
LEMMA AshrDeviation ==
    ASSUME NEW l, NEW r, NEW w, NEW known, Deviation("ashr", l, r, w, known) = "none"
    PROVE  ~(Signed(l, w) < 0 /\ l % Pow2[r] # 0)
BY DEF Deviation

(* sdiv as LLVM has it gives no negative zero.                                *)
LEMMA SdivDeviation ==
    ASSUME NEW l, NEW r, NEW w, NEW known, Deviation("sdiv", l, r, w, known) = "none"
    PROVE  ~(Truncated(Signed(l, w), Signed(r, w)) = 0 /\ (Signed(l, w) < 0) # (Signed(r, w) < 0))
BY DEF Deviation

(* srem as LLVM has it meets neither of the signs that go wrong.              *)
LEMMA SremDeviation ==
    ASSUME NEW l, NEW r, NEW w, NEW known, Deviation("srem", l, r, w, known) = "none"
    PROVE  /\ ~(Signed(r, w) < 0 /\ Signed(l, w) >= 0)
           /\ ~(Signed(l, w) < 0 /\ Meaning("srem", l, r, w) = 0)
BY DEF Deviation

(* mul as LLVM has it wraps no odd product of upper halves of an odd width.   *)
LEMMA MulDeviation ==
    ASSUME NEW l, NEW r, NEW w, NEW known, Deviation("mul", l, r, w, known) = "none"
    PROVE  ~(w > ProductBits /\ w % 2 = 1 /\ ((l \div Pow2[w \div 2]) * (r \div Pow2[w \div 2])) % 2 = 1)
BY DEF Deviation

(* xor as LLVM has it has no known zero of one bit.                           *)
LEMMA XorDeviation ==
    ASSUME NEW l, NEW r, NEW w, NEW known, Deviation("xor", l, r, w, known) = "none"
    PROVE  ~(w = 1 /\ <<known, IF known = "left" THEN l ELSE r>> \in {"left", "right"} \X {0})
BY DEF Deviation

(* What the compiler translates at all, without an error.                     *)
LEMMA SupportedFacts ==
    ASSUME NEW w, NEW r
    PROVE  /\ \A op \in Narrow : Supported(op, w, r) => Parts(w) = 1
           /\ \A op \in Shifts : Supported(op, w, r) => Parts(w) <= 2 /\ r <= PartBits
           /\ Supported("mul", w, r) => w <= SplitBits
BY DEF Supported

Situated(op, l, r, w, known) ==
    /\ w \in Nat \ {0} /\ l \in 0 .. Pow2[w] - 1 /\ r \in 0 .. Pow2[w] - 1
    /\ known \in {"none", "left", "right"}
    /\ Defined(op, l, r, w) /\ Supported(op, w, r) /\ Deviation(op, l, r, w, known) = "none"

(* An operand is a number in range.                                           *)
LEMMA Operand ==
    ASSUME NEW w \in Nat \ {0}, NEW n \in 0 .. Pow2[w] - 1
    PROVE  n \in Nat /\ n \in Int /\ Pow2[w] \in Nat \ {0} /\ n % Pow2[w] = n
<1> DEFINE m == Pow2[w]
<1>1. m \in Nat \ {0} /\ n \in 0 .. m - 1
  BY PowHalf
<1> HIDE DEF m
<1>2. n % m = n
  BY <1>1, Small
<1> QED
  BY <1>1, <1>2 DEF m

(* Whatever add and sub may leave is what LLVM says.                          *)
LEMMA SumIsExact ==
    ASSUME NEW op \in {"add", "sub"}, NEW w, NEW l, NEW r, NEW known, Situated(op, l, r, w, known)
    PROVE  Exact(op, l, r, w, known)
<1> DEFINE m == Pow2[w]
           x == Apply(op, l, r)
<1>1. w \in Nat \ {0} /\ l \in 0 .. m - 1 /\ r \in 0 .. m - 1 /\ known \in {"none", "left", "right"}
  BY DEF Situated
<1>2. m \in Nat \ {0} /\ l \in Int /\ r \in Int
  BY <1>1, Operand
<1>3. Meaning(op, l, r, w) = x % m /\ x \in Int
  BY <1>2, SumMeaning DEF Apply
<1>4. CASE Parts(w) = 1
  <2> DEFINE pl == Split(l, w)
             pr == Split(r, w)
  <2>1. pl[1] = l /\ pr[1] = r
    BY <1>1, <1>4, FirstPart
  <2>2. ASSUME NEW k \in {"none", known}, NEW faster \in BOOLEAN PROVE SumDiff(op, l, r, m, k, faster) = x % m
    <3>1. ~(op = "add" /\ k = "left" /\ ShorterText(m - l, l))
      <4> SUFFICES ASSUME op = "add", k = "left" PROVE ~ShorterText(m - l, l)
        OBVIOUS
      <4>1. known = "left" /\ Deviation("add", l, r, w, known) = "none"
        BY <1>1 DEF Situated
      <4>2. ~(known = "left" /\ Parts(w) = 1 /\ ShorterText(Pow2[w] - l, l))
        BY <4>1, AddDeviation
      <4> QED
        BY <1>4, <4>1, <4>2
    <3>2. k \in {"none", "left", "right"}
      BY <1>1
    <3> HIDE DEF m
    <3> QED
      BY <1>1, <1>2, <3>1, <3>2, SumDiffIs
  <2>3. Flagged(op, l, r, w) => x = x % m
    <3>1. Flagged(op, l, r, w) => x \in 0 .. m - 1
      BY FlaggedFacts
    <3> HIDE DEF x, m
    <3> QED
      BY <1>2, <3>1, Small
  <2>4. ASSUME NEW ps \in Outcomes(op, pl, pr, w, known) PROVE ps = <<x % m>>
    <3>2. PICK n : /\ ps = <<n>>
                   /\ \/ \E k \in {"none", known}, modIsFaster \in BOOLEAN :
                             n = SumDiff(op, pl[1], pr[1], m, k, modIsFaster)
                      \/ Flagged(op, pl[1], pr[1], w) /\ n = Apply(op, pl[1], pr[1])
      <4> HIDE DEF pl, pr
      <4> QED
        BY <1>4, <2>4, SumOutcomes
    <3> HIDE DEF pl, pr
    <3>3. CASE \E k \in {"none", known}, modIsFaster \in BOOLEAN :
                  n = SumDiff(op, pl[1], pr[1], m, k, modIsFaster)
      <4>1. PICK k \in {"none", known}, faster \in BOOLEAN : n = SumDiff(op, pl[1], pr[1], m, k, faster)
        BY <3>3
      <4>2. n = SumDiff(op, l, r, m, k, faster)
        BY <2>1, <4>1
      <4> HIDE DEF x, m
      <4>3. n = x % m
        BY <2>2, <4>2
      <4> QED
        BY <3>2, <4>3
    <3>4. CASE Flagged(op, pl[1], pr[1], w) /\ n = Apply(op, pl[1], pr[1])
      <4>1. Flagged(op, l, r, w) /\ n = x
        BY <2>1, <3>4
      <4> HIDE DEF x, m
      <4>2. n = x % m
        BY <2>3, <4>1
      <4> QED
        BY <3>2, <4>2
    <3> QED
      BY <3>2, <3>3, <3>4
  <2> HIDE DEF x
  <2> QED
    BY <1>1, <1>3, <1>4, <2>4, OneOutcome
<1>5. CASE Parts(w) # 1
  <2> DEFINE pl == Split(l, w)
             pr == Split(r, w)
             checked(spacing, omitLast) == Checkpoints(Parts(w), spacing, omitLast)
  <2>1. Parts(w) > 1
    <3>1. Parts(w) \in Nat \ {0}
      BY <1>1, PartFacts
    <3> QED
      BY <1>5, <3>1
  <2>2. ASSUME NEW ps \in Outcomes(op, pl, pr, w, known) PROVE ps = Split(x % m, w)
    <3>1. PICK spacing : \E omitLast \in BOOLEAN : ps = WideSumDiff(op, pl, pr, w, checked(spacing, omitLast))
      <4> HIDE DEF pl, pr
      <4> QED
        BY <1>5, <2>1, <2>2, SumOutcomes
    <3>0. PICK omitLast \in BOOLEAN : ps = WideSumDiff(op, pl, pr, w, checked(spacing, omitLast))
      BY <3>1
    <3>2. checked(spacing, omitLast) \in SUBSET (2 .. Parts(w))
      BY DEF Checkpoints
    <3> HIDE DEF checked
    <3>3. WideSumDiff(op, pl, pr, w, checked(spacing, omitLast)) = Split(x % m, w)
      BY <1>1, <3>2, WideSumDiffIs
    <3> QED
      BY <3>0, <3>3
  <2>3. x % m \in 0 .. m - 1
    <3> HIDE DEF x, m
    <3> QED
      BY <1>2, <1>3, Division
  <2> HIDE DEF x
  <2> QED
    BY <1>3, <2>2, <2>3 DEF Exact
<1> QED
  BY <1>4, <1>5

(* Whatever shl may leave is what LLVM says.                                  *)
LEMMA ShlIsExact ==
    ASSUME NEW w, NEW l, NEW r, NEW known, Situated("shl", l, r, w, known)
    PROVE  Exact("shl", l, r, w, known)
<1> DEFINE m == Pow2[w]
           x == l * Pow2[r]
           pl == Split(l, w)
           pr == Split(r, w)
<1>1. w \in Nat \ {0} /\ l \in 0 .. m - 1 /\ r \in 0 .. m - 1
  BY DEF Situated
<1>2. m \in Nat \ {0} /\ l \in Int /\ r \in Nat
  BY <1>1, Operand
<1>3. r < w /\ Parts(w) <= 2 /\ r <= PartBits /\ ~(Parts(w) = 2 /\ r > PartWidth(w, 2))
  <2>1. Defined("shl", l, r, w) /\ Supported("shl", w, r) /\ Deviation("shl", l, r, w, known) = "none"
    BY DEF Situated
  <2>2. r < w
    BY <2>1 DEF Defined, Shifts
  <2>3. Parts(w) <= 2 /\ r <= PartBits
    BY <2>1, SupportedFacts DEF Shifts
  <2>4. ~(Parts(w) = 2 /\ r > PartWidth(w, 2))
    BY <2>1, ShlDeviation
  <2> QED
    BY <2>2, <2>3, <2>4
<1>4. r \in 0 .. PartBits
  BY <1>2, <1>3, Positive
<1>5. Meaning("shl", l, r, w) = x % m /\ x \in Int
  <2>1. Pow2[r] \in Nat
    BY <1>2, PowPositive
  <2> QED
    BY <1>2, <2>1, ShiftMeaning
<1>6. pr[1] = r
  BY <1>1, <1>3, FirstPart
<1>7. Parts(w) = 1 => pl[1] = l
  BY <1>1, FirstPart
<1>8. Parts(w) = 2 => r <= PartWidth(w, 2)
  <2> SUFFICES ASSUME Parts(w) = 2 PROVE r <= PartWidth(w, 2)
    OBVIOUS
  <2>1. PartWidth(w, 2) \in Int
    BY <1>1, PartFacts
  <2> QED
    BY <1>2, <1>3, <2>1
<1>9. ASSUME NEW ps \in Outcomes("shl", pl, pr, w, known) PROVE ps = Split(x % m, w)
  <2> HIDE DEF pl, pr
  <2>2. PICK out \in BOOLEAN : /\ ps = BitShift("left", pl, r, w, out)
                               /\ ~out => Parts(w) = 1 /\ Flagged("shl", pl[1], pr[1], w)
    <3>1. \/ ps = BitShift("left", pl, pr[1], w, TRUE)
          \/ ps = BitShift("left", pl, pr[1], w, FALSE) /\ Parts(w) = 1 /\ Flagged("shl", pl[1], pr[1], w)
      BY <1>9, ShlOutcomes
    <3> QED
      BY <1>6, <3>1
  <2>3. ~out => x < m
    <3>1. Flagged("shl", l, r, w) => x \in 0 .. m - 1
      BY FlaggedFacts
    <3> HIDE DEF x, m
    <3> QED
      BY <1>2, <1>5, <1>6, <1>7, <2>2, <3>1
  <2>4. Parts(w) = 2 => r <= PartWidth(w, 2) /\ out
    BY <1>8, <2>2
  <2>5. BitShift("left", Split(l, w), r, w, out) = Split((l * Pow2[r]) % Pow2[w], w)
    <3>1. /\ r < w /\ Parts(w) <= 2
          /\ ~out => l * Pow2[r] < Pow2[w]
      BY <1>3, <2>3
    <3> QED
      BY ONLY <1>1, <1>4, <2>4, <3>1, ShiftLeftIs DEF m
  <2> QED
    BY <2>2, <2>5 DEF pl
<1>10. x % m \in 0 .. m - 1
  <2> HIDE DEF x, m
  <2> QED
    BY <1>2, <1>5, Division
<1> HIDE DEF x
<1> QED
  BY <1>5, <1>9, <1>10 DEF Exact

(* Whatever lshr may leave is what LLVM says.                                 *)
LEMMA LshrIsExact ==
    ASSUME NEW w, NEW l, NEW r, NEW known, Situated("lshr", l, r, w, known)
    PROVE  Exact("lshr", l, r, w, known)
<1> DEFINE m == Pow2[w]
           x == l \div Pow2[r]
           pl == Split(l, w)
           pr == Split(r, w)
<1>1. w \in Nat \ {0} /\ l \in 0 .. m - 1 /\ r \in 0 .. m - 1
  BY DEF Situated
<1>2. m \in Nat \ {0} /\ l \in Int /\ r \in Nat
  BY <1>1, Operand
<1>3. Parts(w) <= 2 /\ r <= PartBits
  BY SupportedFacts DEF Situated, Shifts
<1>4. r \in 0 .. PartBits
  BY <1>2, <1>3, Positive
<1>5. /\ x \in 0 .. m - 1
      /\ \A out \in BOOLEAN : BitShift("right", pl, r, w, out) = Split(x, w)
  BY <1>1, <1>3, <1>4, ShiftRightIs
<1>6. pr[1] = r
  BY <1>1, <1>3, FirstPart
<1>7. Meaning("lshr", l, r, w) = x
  <2>1. Meaning("lshr", l, r, w) = x % m
    BY ShiftMeaning
  <2> HIDE DEF x, m
  <2> QED
    BY <1>2, <1>5, <2>1, Small
<1>8. ASSUME NEW ps \in Outcomes("lshr", pl, pr, w, known) PROVE ps = Split(x, w)
  <2> HIDE DEF pl, pr, x
  <2>2. PICK out \in BOOLEAN : ps = BitShift("right", pl, r, w, out)
    BY <1>6, <1>8, LshrOutcomes
  <2> QED
    BY <1>5, <2>2
<1> HIDE DEF x
<1> QED
  BY <1>5, <1>7, <1>8 DEF Exact

\* What the operations of one part have in common.
LEMMA NarrowFacts ==
    ASSUME NEW op \in Narrow, NEW w, NEW l, NEW r, NEW known, Situated(op, l, r, w, known)
    PROVE  /\ w \in Nat \ {0} /\ l \in 0 .. Pow2[w] - 1 /\ r \in 0 .. Pow2[w] - 1
           /\ l \in Int /\ r \in Int /\ l \in Nat /\ r \in Nat /\ Pow2[w] \in Nat \ {0}
           /\ Parts(w) = 1 /\ Split(l, w)[1] = l /\ Split(r, w)[1] = r
           /\ Deviation(op, l, r, w, known) = "none" /\ Defined(op, l, r, w) /\ Supported(op, w, r)
           /\ Signed(l, w) \in Int /\ Signed(r, w) \in Int
<1>1. w \in Nat \ {0} /\ l \in 0 .. Pow2[w] - 1 /\ r \in 0 .. Pow2[w] - 1
  BY DEF Situated
<1>2. Deviation(op, l, r, w, known) = "none" /\ Defined(op, l, r, w) /\ Supported(op, w, r)
  BY DEF Situated
<1>3. Parts(w) = 1
  BY <1>2, SupportedFacts
<1>4. l \in Int /\ r \in Int /\ l \in Nat /\ r \in Nat /\ Pow2[w] \in Nat \ {0}
  BY <1>1, Operand
<1>5. Split(l, w)[1] = l /\ Split(r, w)[1] = r
  BY <1>1, <1>3, FirstPart
<1>6. Signed(l, w) \in Int /\ Signed(r, w) \in Int
  BY <1>1, SignedFacts, PowHalf
<1> QED
  BY <1>1, <1>2, <1>3, <1>4, <1>5, <1>6

(* Whatever ashr may leave is what LLVM says.                                 *)
LEMMA AshrIsExact ==
    ASSUME NEW w, NEW l, NEW r, NEW known, Situated("ashr", l, r, w, known)
    PROVE  Exact("ashr", l, r, w, known)
<1> DEFINE m == Pow2[w]
           x == Signed(l, w) \div Pow2[r]
           pl == Split(l, w)
           pr == Split(r, w)
<1>1. /\ w \in Nat \ {0} /\ l \in 0 .. Pow2[w] - 1 /\ r \in 0 .. Pow2[w] - 1
      /\ l \in Int /\ r \in Int /\ l \in Nat /\ r \in Nat /\ Pow2[w] \in Nat \ {0}
      /\ Parts(w) = 1 /\ pl[1] = l /\ pr[1] = r
      /\ Deviation("ashr", l, r, w, known) = "none" /\ Defined("ashr", l, r, w) /\ Supported("ashr", w, r)
      /\ Signed(l, w) \in Int /\ Signed(r, w) \in Int
  BY NarrowFacts DEF Narrow, Divisions, Extremes, Saturate
<1>2. x \in Int
  <2>1. Pow2[r] \in Nat \ {0}
    BY <1>1, PowPositive
  <2> QED
    BY <1>1, <2>1, Division
<1>3. Meaning("ashr", l, r, w) = x % m
  BY ShiftMeaning
<1>4. AShr(l, r, w) = x % m
  <2>1. r < w
    BY <1>1 DEF Defined, Shifts
  <2>2. ~(Signed(l, w) < 0 /\ l % Pow2[r] # 0)
    BY <1>1, AshrDeviation
  <2> QED
    BY <1>1, <2>1, <2>2, AShrIs
<1>5. ASSUME NEW ps \in Outcomes("ashr", pl, pr, w, known) PROVE ps = <<x % m>>
  <2>1. ps = <<AShr(pl[1], pr[1], w)>>
    <3> HIDE DEF pl, pr
    <3> QED
      BY <1>5, PlainOutcomes
  <2>2. ps = <<AShr(l, r, w)>>
    BY <1>1, <2>1
  <2> QED
    BY <1>4, <2>2
<1> HIDE DEF x
<1> QED
  BY <1>1, <1>2, <1>3, <1>5, OneOutcome

(* Whatever udiv may leave is what LLVM says.                                 *)
LEMMA UdivIsExact ==
    ASSUME NEW w, NEW l, NEW r, NEW known, Situated("udiv", l, r, w, known)
    PROVE  Exact("udiv", l, r, w, known)
<1> DEFINE m == Pow2[w]
           x == l \div r
           pl == Split(l, w)
           pr == Split(r, w)
<1>1. /\ w \in Nat \ {0} /\ l \in 0 .. Pow2[w] - 1 /\ r \in 0 .. Pow2[w] - 1
      /\ l \in Int /\ r \in Int /\ l \in Nat /\ r \in Nat /\ Pow2[w] \in Nat \ {0}
      /\ Parts(w) = 1 /\ pl[1] = l /\ pr[1] = r
      /\ Deviation("udiv", l, r, w, known) = "none" /\ Defined("udiv", l, r, w) /\ Supported("udiv", w, r)
      /\ Signed(l, w) \in Int /\ Signed(r, w) \in Int
  BY NarrowFacts DEF Narrow, Divisions, Extremes, Saturate
<1>0. r \in Nat \ {0}
  BY <1>1 DEF Defined, Divisions
<1>2. x \in Int
  <2> QED
    BY <1>1, <1>0, Division
<1>3. Meaning("udiv", l, r, w) = x % m
  BY DivisionMeaning
<1>4. FloorDiv(l, r) = x % m
  <2>1. FloorDiv(l, r) = x
    BY <1>0, <1>1 DEF FloorDiv
  <2>2. x \in Nat /\ x <= l
    BY <1>0, <1>1, DividedRange
  <2>3. x \in 0 .. m - 1
    <3> HIDE DEF x
    <3> QED
      BY <1>1, <2>2
  <2>4. x % m = x
    <3> HIDE DEF x
    <3> QED
      BY <1>1, <2>3, Small
  <2> QED
    BY <2>1, <2>4
<1>5. ASSUME NEW ps \in Outcomes("udiv", pl, pr, w, known) PROVE ps = <<x % m>>
  <2>1. ps = <<FloorDiv(pl[1], pr[1])>>
    <3> HIDE DEF pl, pr
    <3> QED
      BY <1>5, PlainOutcomes
  <2>2. ps = <<FloorDiv(l, r)>>
    BY <1>1, <2>1
  <2> QED
    BY <1>4, <2>2
<1> HIDE DEF x
<1> QED
  BY <1>1, <1>2, <1>3, <1>5, OneOutcome

(* Whatever urem may leave is what LLVM says.                                 *)
LEMMA UremIsExact ==
    ASSUME NEW w, NEW l, NEW r, NEW known, Situated("urem", l, r, w, known)
    PROVE  Exact("urem", l, r, w, known)
<1> DEFINE m == Pow2[w]
           x == l % r
           pl == Split(l, w)
           pr == Split(r, w)
<1>1. /\ w \in Nat \ {0} /\ l \in 0 .. Pow2[w] - 1 /\ r \in 0 .. Pow2[w] - 1
      /\ l \in Int /\ r \in Int /\ l \in Nat /\ r \in Nat /\ Pow2[w] \in Nat \ {0}
      /\ Parts(w) = 1 /\ pl[1] = l /\ pr[1] = r
      /\ Deviation("urem", l, r, w, known) = "none" /\ Defined("urem", l, r, w) /\ Supported("urem", w, r)
      /\ Signed(l, w) \in Int /\ Signed(r, w) \in Int
  BY NarrowFacts DEF Narrow, Divisions, Extremes, Saturate
<1>0. r \in Nat \ {0}
  BY <1>1 DEF Defined, Divisions
<1>2. x \in Int
  <2> QED
    BY <1>1, <1>0, Division
<1>3. Meaning("urem", l, r, w) = x % m
  BY DivisionMeaning
<1>4. Mod(l, r) = x % m
  <2>1. Mod(l, r) = x
    BY <1>0, <1>1, ModIs
  <2>2. x \in 0 .. r - 1
    BY <1>0, <1>1, Division
  <2>3. x \in 0 .. m - 1
    <3> HIDE DEF x
    <3> QED
      BY <1>1, <2>2
  <2>4. x % m = x
    <3> HIDE DEF x
    <3> QED
      BY <1>1, <2>3, Small
  <2> QED
    BY <2>1, <2>4
<1>5. ASSUME NEW ps \in Outcomes("urem", pl, pr, w, known) PROVE ps = <<x % m>>
  <2>1. ps = <<Mod(pl[1], pr[1])>>
    <3> HIDE DEF pl, pr
    <3> QED
      BY <1>5, PlainOutcomes
  <2>2. ps = <<Mod(l, r)>>
    BY <1>1, <2>1
  <2> QED
    BY <1>4, <2>2
<1> HIDE DEF x
<1> QED
  BY <1>1, <1>2, <1>3, <1>5, OneOutcome

(* Whatever srem may leave is what LLVM says.                                 *)
LEMMA SremIsExact ==
    ASSUME NEW w, NEW l, NEW r, NEW known, Situated("srem", l, r, w, known)
    PROVE  Exact("srem", l, r, w, known)
<1> DEFINE m == Pow2[w]
           x == Signed(l, w) - Signed(r, w) * Truncated(Signed(l, w), Signed(r, w))
           pl == Split(l, w)
           pr == Split(r, w)
<1>1. /\ w \in Nat \ {0} /\ l \in 0 .. Pow2[w] - 1 /\ r \in 0 .. Pow2[w] - 1
      /\ l \in Int /\ r \in Int /\ l \in Nat /\ r \in Nat /\ Pow2[w] \in Nat \ {0}
      /\ Parts(w) = 1 /\ pl[1] = l /\ pr[1] = r
      /\ Deviation("srem", l, r, w, known) = "none" /\ Defined("srem", l, r, w) /\ Supported("srem", w, r)
      /\ Signed(l, w) \in Int /\ Signed(r, w) \in Int
  BY NarrowFacts DEF Narrow, Divisions, Extremes, Saturate
<1>0. r # 0
  BY <1>1 DEF Defined, Divisions
<1>2. x \in Int
  <2> QED
    BY <1>0, <1>1, DivisionRange
<1>3. Meaning("srem", l, r, w) = x % m
  BY DivisionMeaning
<1>4. SignedRem(l, r, w) = x % m
  <2>1. ~(Signed(r, w) < 0 /\ Signed(l, w) >= 0)
    BY <1>1, SremDeviation
  <2>2. ~(Signed(l, w) < 0 /\ Meaning("srem", l, r, w) = 0)
    BY <1>1, SremDeviation
  <2>3. Signed(l, w) < 0 =>
            (Signed(l, w) - Signed(r, w) * Truncated(Signed(l, w), Signed(r, w))) % Pow2[w] # 0
    BY <1>3, <2>2
  <2> QED
    BY <1>0, <1>1, <2>1, <2>3, SignedRemIs
<1>5. ASSUME NEW ps \in Outcomes("srem", pl, pr, w, known) PROVE ps = <<x % m>>
  <2>1. ps = <<SignedRem(pl[1], pr[1], w)>>
    <3> HIDE DEF pl, pr
    <3> QED
      BY <1>5, PlainOutcomes
  <2>2. ps = <<SignedRem(l, r, w)>>
    BY <1>1, <2>1
  <2> QED
    BY <1>4, <2>2
<1> HIDE DEF x
<1> QED
  BY <1>1, <1>2, <1>3, <1>5, OneOutcome

(* Whatever abs may leave is what LLVM says.                                  *)
LEMMA AbsIsExact ==
    ASSUME NEW w, NEW l, NEW r, NEW known, Situated("abs", l, r, w, known)
    PROVE  Exact("abs", l, r, w, known)
<1> DEFINE m == Pow2[w]
           x == IF Signed(l, w) < 0 THEN -Signed(l, w) ELSE Signed(l, w)
           pl == Split(l, w)
           pr == Split(r, w)
<1>1. /\ w \in Nat \ {0} /\ l \in 0 .. Pow2[w] - 1 /\ r \in 0 .. Pow2[w] - 1
      /\ l \in Int /\ r \in Int /\ l \in Nat /\ r \in Nat /\ Pow2[w] \in Nat \ {0}
      /\ Parts(w) = 1 /\ pl[1] = l /\ pr[1] = r
      /\ Deviation("abs", l, r, w, known) = "none" /\ Defined("abs", l, r, w) /\ Supported("abs", w, r)
      /\ Signed(l, w) \in Int /\ Signed(r, w) \in Int
  BY NarrowFacts DEF Narrow, Divisions, Extremes, Saturate
<1>2. x \in Int
  <2> QED
    BY <1>1
<1>3. Meaning("abs", l, r, w) = x % m
  BY DEF Meaning, Bitwise2
<1>4. Abs(l, w) = x % m
  BY <1>1, AbsIs
<1>5. ASSUME NEW ps \in Outcomes("abs", pl, pr, w, known) PROVE ps = <<x % m>>
  <2>1. ps = <<Abs(pl[1], w)>>
    <3> HIDE DEF pl, pr
    <3> QED
      BY <1>5, PlainOutcomes
  <2>2. ps = <<Abs(l, w)>>
    BY <1>1, <2>1
  <2> QED
    BY <1>4, <2>2
<1> HIDE DEF x
<1> QED
  BY <1>1, <1>2, <1>3, <1>5, OneOutcome

(* Whatever umax may leave is what LLVM says.                                 *)
LEMMA UmaxIsExact ==
    ASSUME NEW w, NEW l, NEW r, NEW known, Situated("umax", l, r, w, known)
    PROVE  Exact("umax", l, r, w, known)
<1> DEFINE m == Pow2[w]
           x == Max({l, r})
           pl == Split(l, w)
           pr == Split(r, w)
<1>1. /\ w \in Nat \ {0} /\ l \in 0 .. Pow2[w] - 1 /\ r \in 0 .. Pow2[w] - 1
      /\ l \in Int /\ r \in Int /\ l \in Nat /\ r \in Nat /\ Pow2[w] \in Nat \ {0}
      /\ Parts(w) = 1 /\ pl[1] = l /\ pr[1] = r
      /\ Deviation("umax", l, r, w, known) = "none" /\ Defined("umax", l, r, w) /\ Supported("umax", w, r)
      /\ Signed(l, w) \in Int /\ Signed(r, w) \in Int
  BY NarrowFacts DEF Narrow, Divisions, Extremes, Saturate
<1>2. x \in Int
  BY <1>1, MaxOfTwo
<1>3. Meaning("umax", l, r, w) = x % m
  BY DEF Meaning, Bitwise2
<1>4. MinMax("umax", l, r, w) = x % m
  BY <1>1, MinMaxIs
<1>5. ASSUME NEW ps \in Outcomes("umax", pl, pr, w, known) PROVE ps = <<x % m>>
  <2>1. ps = <<MinMax("umax", pl[1], pr[1], w)>>
    <3> HIDE DEF pl, pr
    <3> QED
      BY <1>5, ExtremeOutcomes
  <2>2. ps = <<MinMax("umax", l, r, w)>>
    BY <1>1, <2>1
  <2> QED
    BY <1>4, <2>2
<1> HIDE DEF x
<1> QED
  BY <1>1, <1>2, <1>3, <1>5, OneOutcome

(* Whatever umin may leave is what LLVM says.                                 *)
LEMMA UminIsExact ==
    ASSUME NEW w, NEW l, NEW r, NEW known, Situated("umin", l, r, w, known)
    PROVE  Exact("umin", l, r, w, known)
<1> DEFINE m == Pow2[w]
           x == Min({l, r})
           pl == Split(l, w)
           pr == Split(r, w)
<1>1. /\ w \in Nat \ {0} /\ l \in 0 .. Pow2[w] - 1 /\ r \in 0 .. Pow2[w] - 1
      /\ l \in Int /\ r \in Int /\ l \in Nat /\ r \in Nat /\ Pow2[w] \in Nat \ {0}
      /\ Parts(w) = 1 /\ pl[1] = l /\ pr[1] = r
      /\ Deviation("umin", l, r, w, known) = "none" /\ Defined("umin", l, r, w) /\ Supported("umin", w, r)
      /\ Signed(l, w) \in Int /\ Signed(r, w) \in Int
  BY NarrowFacts DEF Narrow, Divisions, Extremes, Saturate
<1>2. x \in Int
  BY <1>1, MinOfTwo
<1>3. Meaning("umin", l, r, w) = x % m
  BY DEF Meaning, Bitwise2
<1>4. MinMax("umin", l, r, w) = x % m
  BY <1>1, MinMaxIs
<1>5. ASSUME NEW ps \in Outcomes("umin", pl, pr, w, known) PROVE ps = <<x % m>>
  <2>1. ps = <<MinMax("umin", pl[1], pr[1], w)>>
    <3> HIDE DEF pl, pr
    <3> QED
      BY <1>5, ExtremeOutcomes
  <2>2. ps = <<MinMax("umin", l, r, w)>>
    BY <1>1, <2>1
  <2> QED
    BY <1>4, <2>2
<1> HIDE DEF x
<1> QED
  BY <1>1, <1>2, <1>3, <1>5, OneOutcome

(* Whatever smax may leave is what LLVM says.                                 *)
LEMMA SmaxIsExact ==
    ASSUME NEW w, NEW l, NEW r, NEW known, Situated("smax", l, r, w, known)
    PROVE  Exact("smax", l, r, w, known)
<1> DEFINE m == Pow2[w]
           x == Max({Signed(l, w), Signed(r, w)})
           pl == Split(l, w)
           pr == Split(r, w)
<1>1. /\ w \in Nat \ {0} /\ l \in 0 .. Pow2[w] - 1 /\ r \in 0 .. Pow2[w] - 1
      /\ l \in Int /\ r \in Int /\ l \in Nat /\ r \in Nat /\ Pow2[w] \in Nat \ {0}
      /\ Parts(w) = 1 /\ pl[1] = l /\ pr[1] = r
      /\ Deviation("smax", l, r, w, known) = "none" /\ Defined("smax", l, r, w) /\ Supported("smax", w, r)
      /\ Signed(l, w) \in Int /\ Signed(r, w) \in Int
  BY NarrowFacts DEF Narrow, Divisions, Extremes, Saturate
<1>2. x \in Int
  BY <1>1, MaxOfTwo
<1>3. Meaning("smax", l, r, w) = x % m
  BY DEF Meaning, Bitwise2
<1>4. MinMax("smax", l, r, w) = x % m
  BY <1>1, MinMaxIs
<1>5. ASSUME NEW ps \in Outcomes("smax", pl, pr, w, known) PROVE ps = <<x % m>>
  <2>1. ps = <<MinMax("smax", pl[1], pr[1], w)>>
    <3> HIDE DEF pl, pr
    <3> QED
      BY <1>5, ExtremeOutcomes
  <2>2. ps = <<MinMax("smax", l, r, w)>>
    BY <1>1, <2>1
  <2> QED
    BY <1>4, <2>2
<1> HIDE DEF x
<1> QED
  BY <1>1, <1>2, <1>3, <1>5, OneOutcome

(* Whatever smin may leave is what LLVM says.                                 *)
LEMMA SminIsExact ==
    ASSUME NEW w, NEW l, NEW r, NEW known, Situated("smin", l, r, w, known)
    PROVE  Exact("smin", l, r, w, known)
<1> DEFINE m == Pow2[w]
           x == Min({Signed(l, w), Signed(r, w)})
           pl == Split(l, w)
           pr == Split(r, w)
<1>1. /\ w \in Nat \ {0} /\ l \in 0 .. Pow2[w] - 1 /\ r \in 0 .. Pow2[w] - 1
      /\ l \in Int /\ r \in Int /\ l \in Nat /\ r \in Nat /\ Pow2[w] \in Nat \ {0}
      /\ Parts(w) = 1 /\ pl[1] = l /\ pr[1] = r
      /\ Deviation("smin", l, r, w, known) = "none" /\ Defined("smin", l, r, w) /\ Supported("smin", w, r)
      /\ Signed(l, w) \in Int /\ Signed(r, w) \in Int
  BY NarrowFacts DEF Narrow, Divisions, Extremes, Saturate
<1>2. x \in Int
  BY <1>1, MinOfTwo
<1>3. Meaning("smin", l, r, w) = x % m
  BY DEF Meaning, Bitwise2
<1>4. MinMax("smin", l, r, w) = x % m
  BY <1>1, MinMaxIs
<1>5. ASSUME NEW ps \in Outcomes("smin", pl, pr, w, known) PROVE ps = <<x % m>>
  <2>1. ps = <<MinMax("smin", pl[1], pr[1], w)>>
    <3> HIDE DEF pl, pr
    <3> QED
      BY <1>5, ExtremeOutcomes
  <2>2. ps = <<MinMax("smin", l, r, w)>>
    BY <1>1, <2>1
  <2> QED
    BY <1>4, <2>2
<1> HIDE DEF x
<1> QED
  BY <1>1, <1>2, <1>3, <1>5, OneOutcome

(* Whatever uadd.sat may leave is what LLVM says.                             *)
LEMMA UaddSatIsExact ==
    ASSUME NEW w, NEW l, NEW r, NEW known, Situated("uadd.sat", l, r, w, known)
    PROVE  Exact("uadd.sat", l, r, w, known)
<1> DEFINE m == Pow2[w]
           x == Clamp(l + r, 0, m - 1)
           pl == Split(l, w)
           pr == Split(r, w)
<1>1. /\ w \in Nat \ {0} /\ l \in 0 .. Pow2[w] - 1 /\ r \in 0 .. Pow2[w] - 1
      /\ l \in Int /\ r \in Int /\ l \in Nat /\ r \in Nat /\ Pow2[w] \in Nat \ {0}
      /\ Parts(w) = 1 /\ pl[1] = l /\ pr[1] = r
      /\ Deviation("uadd.sat", l, r, w, known) = "none" /\ Defined("uadd.sat", l, r, w) /\ Supported("uadd.sat", w, r)
      /\ Signed(l, w) \in Int /\ Signed(r, w) \in Int
  BY NarrowFacts DEF Narrow, Divisions, Extremes, Saturate
<1>2. x \in Int
  <2>1. Pow2[w - 1] \in Nat \ {0}
    BY <1>1, PowHalf
  <2> QED
    BY <1>1, <2>1 DEF Clamp
<1>3. Meaning("uadd.sat", l, r, w) = x % m
  BY SaturateMeaning
<1>4. Saturating("uadd.sat", l, r, w) = x % m
  BY <1>1, SaturatingIs
<1>5. ASSUME NEW ps \in Outcomes("uadd.sat", pl, pr, w, known) PROVE ps = <<x % m>>
  <2>1. ps = <<Saturating("uadd.sat", pl[1], pr[1], w)>>
    <3> HIDE DEF pl, pr
    <3> QED
      BY <1>5, ExtremeOutcomes
  <2>2. ps = <<Saturating("uadd.sat", l, r, w)>>
    BY <1>1, <2>1
  <2> QED
    BY <1>4, <2>2
<1> HIDE DEF x
<1> QED
  BY <1>1, <1>2, <1>3, <1>5, OneOutcome

(* Whatever usub.sat may leave is what LLVM says.                             *)
LEMMA UsubSatIsExact ==
    ASSUME NEW w, NEW l, NEW r, NEW known, Situated("usub.sat", l, r, w, known)
    PROVE  Exact("usub.sat", l, r, w, known)
<1> DEFINE m == Pow2[w]
           x == Clamp(l - r, 0, m - 1)
           pl == Split(l, w)
           pr == Split(r, w)
<1>1. /\ w \in Nat \ {0} /\ l \in 0 .. Pow2[w] - 1 /\ r \in 0 .. Pow2[w] - 1
      /\ l \in Int /\ r \in Int /\ l \in Nat /\ r \in Nat /\ Pow2[w] \in Nat \ {0}
      /\ Parts(w) = 1 /\ pl[1] = l /\ pr[1] = r
      /\ Deviation("usub.sat", l, r, w, known) = "none" /\ Defined("usub.sat", l, r, w) /\ Supported("usub.sat", w, r)
      /\ Signed(l, w) \in Int /\ Signed(r, w) \in Int
  BY NarrowFacts DEF Narrow, Divisions, Extremes, Saturate
<1>2. x \in Int
  <2>1. Pow2[w - 1] \in Nat \ {0}
    BY <1>1, PowHalf
  <2> QED
    BY <1>1, <2>1 DEF Clamp
<1>3. Meaning("usub.sat", l, r, w) = x % m
  BY SaturateMeaning
<1>4. Saturating("usub.sat", l, r, w) = x % m
  BY <1>1, SaturatingIs
<1>5. ASSUME NEW ps \in Outcomes("usub.sat", pl, pr, w, known) PROVE ps = <<x % m>>
  <2>1. ps = <<Saturating("usub.sat", pl[1], pr[1], w)>>
    <3> HIDE DEF pl, pr
    <3> QED
      BY <1>5, ExtremeOutcomes
  <2>2. ps = <<Saturating("usub.sat", l, r, w)>>
    BY <1>1, <2>1
  <2> QED
    BY <1>4, <2>2
<1> HIDE DEF x
<1> QED
  BY <1>1, <1>2, <1>3, <1>5, OneOutcome

(* Whatever sadd.sat may leave is what LLVM says.                             *)
LEMMA SaddSatIsExact ==
    ASSUME NEW w, NEW l, NEW r, NEW known, Situated("sadd.sat", l, r, w, known)
    PROVE  Exact("sadd.sat", l, r, w, known)
<1> DEFINE m == Pow2[w]
           x == Clamp(Signed(l, w) + Signed(r, w), -Pow2[w - 1], Pow2[w - 1] - 1)
           pl == Split(l, w)
           pr == Split(r, w)
<1>1. /\ w \in Nat \ {0} /\ l \in 0 .. Pow2[w] - 1 /\ r \in 0 .. Pow2[w] - 1
      /\ l \in Int /\ r \in Int /\ l \in Nat /\ r \in Nat /\ Pow2[w] \in Nat \ {0}
      /\ Parts(w) = 1 /\ pl[1] = l /\ pr[1] = r
      /\ Deviation("sadd.sat", l, r, w, known) = "none" /\ Defined("sadd.sat", l, r, w) /\ Supported("sadd.sat", w, r)
      /\ Signed(l, w) \in Int /\ Signed(r, w) \in Int
  BY NarrowFacts DEF Narrow, Divisions, Extremes, Saturate
<1>2. x \in Int
  <2>1. Pow2[w - 1] \in Nat \ {0}
    BY <1>1, PowHalf
  <2> QED
    BY <1>1, <2>1 DEF Clamp
<1>3. Meaning("sadd.sat", l, r, w) = x % m
  BY SaturateMeaning
<1>4. Saturating("sadd.sat", l, r, w) = x % m
  BY <1>1, SaturatingIs
<1>5. ASSUME NEW ps \in Outcomes("sadd.sat", pl, pr, w, known) PROVE ps = <<x % m>>
  <2>1. ps = <<Saturating("sadd.sat", pl[1], pr[1], w)>>
    <3> HIDE DEF pl, pr
    <3> QED
      BY <1>5, ExtremeOutcomes
  <2>2. ps = <<Saturating("sadd.sat", l, r, w)>>
    BY <1>1, <2>1
  <2> QED
    BY <1>4, <2>2
<1> HIDE DEF x
<1> QED
  BY <1>1, <1>2, <1>3, <1>5, OneOutcome

(* Whatever ssub.sat may leave is what LLVM says.                             *)
LEMMA SsubSatIsExact ==
    ASSUME NEW w, NEW l, NEW r, NEW known, Situated("ssub.sat", l, r, w, known)
    PROVE  Exact("ssub.sat", l, r, w, known)
<1> DEFINE m == Pow2[w]
           x == Clamp(Signed(l, w) - Signed(r, w), -Pow2[w - 1], Pow2[w - 1] - 1)
           pl == Split(l, w)
           pr == Split(r, w)
<1>1. /\ w \in Nat \ {0} /\ l \in 0 .. Pow2[w] - 1 /\ r \in 0 .. Pow2[w] - 1
      /\ l \in Int /\ r \in Int /\ l \in Nat /\ r \in Nat /\ Pow2[w] \in Nat \ {0}
      /\ Parts(w) = 1 /\ pl[1] = l /\ pr[1] = r
      /\ Deviation("ssub.sat", l, r, w, known) = "none" /\ Defined("ssub.sat", l, r, w) /\ Supported("ssub.sat", w, r)
      /\ Signed(l, w) \in Int /\ Signed(r, w) \in Int
  BY NarrowFacts DEF Narrow, Divisions, Extremes, Saturate
<1>2. x \in Int
  <2>1. Pow2[w - 1] \in Nat \ {0}
    BY <1>1, PowHalf
  <2> QED
    BY <1>1, <2>1 DEF Clamp
<1>3. Meaning("ssub.sat", l, r, w) = x % m
  BY SaturateMeaning
<1>4. Saturating("ssub.sat", l, r, w) = x % m
  BY <1>1, SaturatingIs
<1>5. ASSUME NEW ps \in Outcomes("ssub.sat", pl, pr, w, known) PROVE ps = <<x % m>>
  <2>1. ps = <<Saturating("ssub.sat", pl[1], pr[1], w)>>
    <3> HIDE DEF pl, pr
    <3> QED
      BY <1>5, ExtremeOutcomes
  <2>2. ps = <<Saturating("ssub.sat", l, r, w)>>
    BY <1>1, <2>1
  <2> QED
    BY <1>4, <2>2
<1> HIDE DEF x
<1> QED
  BY <1>1, <1>2, <1>3, <1>5, OneOutcome

(* Whatever sdiv may leave is what LLVM says.                                 *)
LEMMA SdivIsExact ==
    ASSUME NEW w, NEW l, NEW r, NEW known, Situated("sdiv", l, r, w, known)
    PROVE  Exact("sdiv", l, r, w, known)
<1> DEFINE m == Pow2[w]
           x == Truncated(Signed(l, w), Signed(r, w))
           pl == Split(l, w)
           pr == Split(r, w)
<1>1. /\ w \in Nat \ {0} /\ l \in 0 .. Pow2[w] - 1 /\ r \in 0 .. Pow2[w] - 1
      /\ Parts(w) = 1 /\ pl[1] = l /\ pr[1] = r
      /\ Deviation("sdiv", l, r, w, known) = "none" /\ Defined("sdiv", l, r, w)
  BY NarrowFacts DEF Narrow, Divisions
<1>2. r # 0
  BY <1>1 DEF Defined, Divisions
<1>3. x \in Int
  BY <1>1, <1>2, DivisionRange
<1>4. Meaning("sdiv", l, r, w) = x % m
  BY DivisionMeaning
<1>5. SignedDiv(l, r, w) = x % m
  <2>1. ~(Truncated(Signed(l, w), Signed(r, w)) = 0 /\ (Signed(l, w) < 0) # (Signed(r, w) < 0))
    BY <1>1, SdivDeviation
  <2> QED
    BY <1>1, <1>2, <2>1, SignedDivIs
<1>6. Meaning("srem", l, r, w) = 0 => SignedDivExact(l, r, w) = x % m
  <2> SUFFICES ASSUME Meaning("srem", l, r, w) = 0 PROVE SignedDivExact(l, r, w) = x % m
    OBVIOUS
  <2>1. (Signed(l, w) - Signed(r, w) * Truncated(Signed(l, w), Signed(r, w))) % Pow2[w] = 0
    BY DivisionMeaning
  <2> QED
    BY <1>1, <1>2, <2>1, SignedDivExactIs
<1>7. ASSUME NEW ps \in Outcomes("sdiv", pl, pr, w, known) PROVE ps = <<x % m>>
  <2>1. \/ ps = <<SignedDiv(pl[1], pr[1], w)>>
        \/ Meaning("srem", pl[1], pr[1], w) = 0 /\ ps = <<SignedDivExact(pl[1], pr[1], w)>>
    <3> HIDE DEF pl, pr
    <3> QED
      BY <1>7, SdivOutcomes
  <2>2. \/ ps = <<SignedDiv(l, r, w)>>
        \/ Meaning("srem", l, r, w) = 0 /\ ps = <<SignedDivExact(l, r, w)>>
    BY <1>1, <2>1
  <2> QED
    BY <1>5, <1>6, <2>2
<1> HIDE DEF x
<1> QED
  BY <1>1, <1>3, <1>4, <1>7, OneOutcome

(* Whatever mul may leave is what LLVM says.                                  *)
LEMMA MulIsExact ==
    ASSUME NEW w, NEW l, NEW r, NEW known, Situated("mul", l, r, w, known)
    PROVE  Exact("mul", l, r, w, known)
<1> DEFINE m == Pow2[w]
           x == l * r
           pl == Split(l, w)
           pr == Split(r, w)
<1>1. /\ w \in Nat \ {0} /\ l \in 0 .. Pow2[w] - 1 /\ r \in 0 .. Pow2[w] - 1
      /\ l \in Int /\ r \in Int /\ Pow2[w] \in Nat \ {0}
      /\ Parts(w) = 1 /\ pl[1] = l /\ pr[1] = r
      /\ Deviation("mul", l, r, w, known) = "none"
  BY NarrowFacts DEF Narrow, Divisions, Extremes, Saturate
<1>2. x \in Int
  BY <1>1
<1>3. Meaning("mul", l, r, w) = x % m
  BY SumMeaning
<1>4. MultiplyWrap(l, r, w) = x % m
  <2>1. CASE w <= ProductBits \/ w % 2 = 0
    BY <1>1, <2>1, MultiplyWrapIs
  <2>2. CASE ~(w <= ProductBits \/ w % 2 = 0)
    <3> DEFINE e == (l \div Pow2[w \div 2]) * (r \div Pow2[w \div 2])
    <3>1. w > ProductBits /\ w % 2 = 1
      BY <1>1, <2>2, Limits
    <3>2. ~(w > ProductBits /\ w % 2 = 1 /\ e % 2 = 1)
      BY <1>1, MulDeviation
    <3>3. e \in Int
      <4>1. Pow2[w \div 2] \in Nat \ {0}
        BY <1>1, Halves, PowPositive
      <4> DEFINE H == Pow2[w \div 2]
      <4> HIDE DEF H
      <4>2. l \div H \in Int /\ r \div H \in Int
        BY <1>1, <4>1, Division DEF H
      <4> QED
        BY <4>2 DEF H
    <3>4. e % 2 = 0
      <4> HIDE DEF e
      <4> QED
        BY <3>1, <3>2, <3>3
    <3> QED
      BY <1>1, <3>4, MultiplyWrapIs
  <2> QED
    BY <2>1, <2>2
<1>5. Flagged("mul", l, r, w) => x = x % m
  <2>1. Flagged("mul", l, r, w) => x \in 0 .. m - 1
    BY FlaggedFacts
  <2> HIDE DEF x, m
  <2> QED
    BY <1>1, <2>1, Small DEF m
<1>6. ASSUME NEW ps \in Outcomes("mul", pl, pr, w, known) PROVE ps = <<x % m>>
  <2>1. \/ ps = <<MultiplyWrap(pl[1], pr[1], w)>>
        \/ Flagged("mul", pl[1], pr[1], w) /\ ps = <<pl[1] * pr[1]>>
    <3> HIDE DEF pl, pr
    <3> QED
      BY <1>6, ProductOutcomes
  <2>2. \/ ps = <<MultiplyWrap(l, r, w)>>
        \/ Flagged("mul", l, r, w) /\ ps = <<x>>
    BY <1>1, <2>1
  <2> HIDE DEF x, m
  <2> QED
    BY <1>4, <1>5, <2>2
<1> HIDE DEF x
<1> QED
  BY <1>1, <1>2, <1>3, <1>6, OneOutcome

(* Whatever and, or and xor may leave is what LLVM says.                      *)
LEMMA BitwiseIsExact ==
    ASSUME NEW op \in Bitwise2, NEW w, NEW l, NEW r, NEW known, Situated(op, l, r, w, known)
    PROVE  Exact(op, l, r, w, known)
<1> DEFINE m == Pow2[w]
           x == Bit(op, l, r, w)
           pl == Split(l, w)
           pr == Split(r, w)
<1>1. /\ w \in Nat \ {0} /\ l \in 0 .. Pow2[w] - 1 /\ r \in 0 .. Pow2[w] - 1
      /\ known \in {"none", "left", "right"} /\ Deviation(op, l, r, w, known) = "none"
  BY DEF Situated
<1>2. ~(op = "xor" /\ w = 1 /\ known # "none" /\ (IF known = "left" THEN l ELSE r) = 0)
  <2> SUFFICES ASSUME op = "xor", w = 1, known # "none", (IF known = "left" THEN l ELSE r) = 0 PROVE FALSE
    OBVIOUS
  <2>1. Deviation("xor", l, r, w, known) = "none"
    BY <1>1
  <2>2. ~(w = 1 /\ <<known, IF known = "left" THEN l ELSE r>> \in {"left", "right"} \X {0})
    BY <2>1, XorDeviation
  <2>3. known \in {"left", "right"}
    BY <1>1
  <2> QED
    BY <2>2, <2>3
<1>3. /\ x \in 0 .. m - 1
      /\ \A lookups : \A viaAnd \in BOOLEAN : BitwiseParts(op, pl, pr, w, known, lookups, viaAnd) = Split(x, w)
  <2>1. ASSUME NEW lookups, NEW viaAnd \in BOOLEAN
        PROVE  /\ Bit(op, l, r, w) \in 0 .. Pow2[w] - 1
               /\ BitwiseParts(op, Split(l, w), Split(r, w), w, known, lookups, viaAnd) = Split(Bit(op, l, r, w), w)
    BY ONLY <1>1, <1>2, BitwiseIs DEF m
  <2> HIDE DEF x, m
  <2>2. x \in 0 .. m - 1
    BY <2>1 DEF x, m
  <2>3. \A lookups : \A viaAnd \in BOOLEAN : BitwiseParts(op, pl, pr, w, known, lookups, viaAnd) = Split(x, w)
    BY <2>1 DEF x
  <2> QED
    BY <2>2, <2>3
<1>4. Meaning(op, l, r, w) = x
  <2>1. Meaning(op, l, r, w) = x % m
    BY BitwiseMeaning
  <2>2. m \in Nat \ {0}
    BY <1>1, PowHalf
  <2> HIDE DEF x, m
  <2> QED
    BY <1>3, <2>1, <2>2, Small
<1>5. ASSUME NEW ps \in Outcomes(op, pl, pr, w, known) PROVE ps = Split(x, w)
  <2> HIDE DEF pl, pr, x
  <2>1. \E lookups : \E viaAnd \in BOOLEAN : ps = BitwiseParts(op, pl, pr, w, known, lookups, viaAnd)
    BY <1>5, BitwiseOutcomes
  <2> QED
    BY <1>3, <2>1
<1> HIDE DEF x
<1> QED
  BY <1>3, <1>4, <1>5 DEF Exact

(* Every instruction on two operands, whatever the options and costs choose.  *)
LEMMA BinaryIsExact ==
    ASSUME NEW op \in Binary, NEW w, NEW l, NEW r, NEW known, Situated(op, l, r, w, known)
    PROVE  Exact(op, l, r, w, known)
<1>1. CASE op \in {"add", "sub"}
  BY <1>1, SumIsExact
<1>2. CASE op \in Bitwise2
  BY <1>2, BitwiseIsExact
<1>3. CASE op \in {"shl", "lshr", "ashr", "mul"}
  BY <1>3, ShlIsExact, LshrIsExact, AshrIsExact, MulIsExact
<1>4. CASE op \in Divisions
  BY <1>4, UdivIsExact, UremIsExact, SdivIsExact, SremIsExact DEF Divisions
<1>5. CASE op \in Extremes \cup {"abs"}
  BY <1>5, SmaxIsExact, SminIsExact, UmaxIsExact, UminIsExact, AbsIsExact DEF Extremes
<1>6. CASE op \in Saturate
  BY <1>6, UaddSatIsExact, UsubSatIsExact, SaddSatIsExact, SsubSatIsExact DEF Saturate
<1> QED
  BY <1>1, <1>2, <1>3, <1>4, <1>5, <1>6 DEF Binary, Narrow, Sums, Shifts

-----------------------------------------------------------------------------
(* The register.                                                             *)

\* The variables hold the value, which is one of the type.
Holds(w, v, ps) ==
    \/ w = 0 /\ v \in Doubles /\ ps = <<v>>
    \/ w \in Widths /\ v \in 0 .. Pow2[w] - 1 /\ ps = Split(v, w)

IInv == Holds(width, value, parts)

(* The widths and operands of an instance.                                    *)
LEMMA WidthFacts ==
    ASSUME RegistersAssumption
    PROVE  /\ \A w \in Widths : w \in Nat \ {0} /\ \A n \in Operands[w] : n \in 0 .. Pow2[w] - 1
           /\ 1 \in Widths
BY DEF RegistersAssumption

(* What the invariant says of the state.                                      *)
LEMMA HeldFacts ==
    ASSUME RegistersAssumption, IInv
    PROVE  /\ width # 0 => /\ width \in Widths /\ width \in Nat \ {0}
                           /\ value \in 0 .. Pow2[width] - 1 /\ parts = Split(value, width)
                           /\ Parts(width) = 1 => parts = <<value>>
           /\ width = 0 => value \in Doubles /\ parts = <<value>>
<1>1. width # 0 => /\ width \in Widths /\ width \in Nat \ {0}
                   /\ value \in 0 .. Pow2[width] - 1 /\ parts = Split(value, width)
  BY WidthFacts DEF IInv, Holds
<1>2. width # 0 /\ Parts(width) = 1 => parts = <<value>>
  BY <1>1, SplitFacts
<1>3. width = 0 => value \in Doubles /\ parts = <<value>>
  BY WidthFacts DEF IInv, Holds
<1> QED
  BY <1>1, <1>2, <1>3

(* A right result in the right variables keeps the invariant.                 *)
LEMMA BecomeKeeps ==
    ASSUME NEW w, NEW v, NEW ps, Become(w, v, ps), Holds(w, v, ps)
    PROVE  IInv'
BY DEF Become, IInv

\* A result of one part.
LEMMA BecomeOnePart ==
    ASSUME RegistersAssumption, NEW w \in Widths, Parts(w) = 1, NEW v \in 0 .. Pow2[w] - 1, NEW p, p = v,
           Become(w, v, <<p>>)
    PROVE  IInv'
<1>1. w \in Nat \ {0}
  BY WidthFacts
<1>2. Split(v, w) = <<v>>
  BY <1>1, SplitFacts
<1>3. Holds(w, v, <<p>>)
  BY <1>2 DEF Holds
<1> QED
  BY <1>3, BecomeKeeps

\* A result of one bit.
LEMMA BecomeBit ==
    ASSUME RegistersAssumption, NEW b, NEW c, b <=> c, Become(1, Number(b), <<Number(c)>>)
    PROVE  IInv'
<1> DEFINE w == 1
           v == Number(b)
           p == Number(c)
<1>1. w \in Widths /\ w \in Nat \ {0}
  BY WidthFacts
<1>2. Parts(w) = 1
  <2>1. w <= PartBits
    BY Positive
  <2> HIDE DEF w
  <2> QED
    BY <1>1, <2>1, OnePart
<1>3. v \in {0, 1} /\ p = v
  BY DEF Number
<1>4. Pow2[w] = 2
  <2>1. Pow2[w] = 2 * Pow2[w - 1]
    <3> HIDE DEF w
    <3> QED
      BY <1>1, PowHalf
  <2>2. Pow2[w - 1] = 1
    BY PowRecursion
  <2> QED
    BY <2>1, <2>2
<1>5. v \in 0 .. Pow2[w] - 1
  <2> HIDE DEF v, w
  <2> QED
    BY <1>3, <1>4
<1>6. Become(w, v, <<p>>)
  OBVIOUS
<1> HIDE DEF w, v, p
<1> QED
  BY <1>1, <1>2, <1>3, <1>5, <1>6, BecomeOnePart

(* A two-operand instruction that is right keeps the invariant.               *)
LEMMA BinaryOutcome ==
    ASSUME RegistersAssumption, Deviations = {}, NEW w \in Widths, NEW op \in Binary,
           NEW l \in 0 .. Pow2[w] - 1, NEW r \in 0 .. Pow2[w] - 1, NEW known \in {"none", "left", "right"},
           Defined(op, l, r, w), Supported(op, w, r), Deviation(op, l, r, w, known) \in {"none"} \cup Deviations,
           NEW ps \in Outcomes(op, Split(l, w), Split(r, w), w, known), Become(w, Meaning(op, l, r, w), ps)
    PROVE  IInv'
<1>1. Situated(op, l, r, w, known)
  BY WidthFacts DEF Situated
<1>2. Exact(op, l, r, w, known)
  BY <1>1, BinaryIsExact
<1> DEFINE v == Meaning(op, l, r, w)
<1>3. v \in 0 .. Pow2[w] - 1 /\ ps = Split(v, w)
  BY <1>2 DEF Exact
<1>4. Become(w, v, ps)
  OBVIOUS
<1> HIDE DEF v
<1>5. Holds(w, v, ps)
  BY <1>3 DEF Holds
<1> QED
  BY <1>4, <1>5, BecomeKeeps

(* The two-operand instructions keep the invariant.                           *)
LEMMA BinaryStep ==
    ASSUME RegistersAssumption, Deviations = {}, IInv, BinaryOp
    PROVE  IInv'
<1>1. /\ width \in Widths /\ width \in Nat \ {0}
      /\ value \in 0 .. Pow2[width] - 1 /\ parts = Split(value, width)
  BY HeldFacts DEF BinaryOp
<1>2. PICK op \in Binary, n \in Operands[width], constant \in BOOLEAN :
        \/ LET known == IF constant THEN "right" ELSE "none"
           IN  /\ Defined(op, value, n, width) /\ Supported(op, width, n)
               /\ Deviation(op, value, n, width, known) \in {"none"} \cup Deviations
               /\ \E ps \in Outcomes(op, parts, Split(n, width), width, known) :
                      Become(width, Meaning(op, value, n, width), ps)
        \/ LET known == IF constant THEN "left" ELSE "none"
           IN  /\ Defined(op, n, value, width) /\ Supported(op, width, value)
               /\ Deviation(op, n, value, width, known) \in {"none"} \cup Deviations
               /\ \E ps \in Outcomes(op, Split(n, width), parts, width, known) :
                      Become(width, Meaning(op, n, value, width), ps)
  BY DEF BinaryOp, WithOperand
<1>3. n \in 0 .. Pow2[width] - 1
  BY <1>1, WidthFacts
<1> DEFINE right == IF constant THEN "right" ELSE "none"
           left == IF constant THEN "left" ELSE "none"
<1>4. right \in {"none", "left", "right"} /\ left \in {"none", "left", "right"}
  OBVIOUS
<1> HIDE DEF right, left
<1>5. ASSUME Defined(op, value, n, width), Supported(op, width, n),
             Deviation(op, value, n, width, right) \in {"none"} \cup Deviations,
             NEW ps \in Outcomes(op, Split(value, width), Split(n, width), width, right),
             Become(width, Meaning(op, value, n, width), ps)
      PROVE  IInv'
  BY <1>1, <1>3, <1>4, <1>5, BinaryOutcome
<1>6. ASSUME Defined(op, n, value, width), Supported(op, width, value),
             Deviation(op, n, value, width, left) \in {"none"} \cup Deviations,
             NEW ps \in Outcomes(op, Split(n, width), Split(value, width), width, left),
             Become(width, Meaning(op, n, value, width), ps)
      PROVE  IInv'
  BY <1>1, <1>3, <1>4, <1>6, BinaryOutcome
<1> QED
  BY <1>1, <1>2, <1>5, <1>6 DEF right, left

(* A comparison is right, with and without a known operand.                   *)
LEMMA ComparisonOutcome ==
    ASSUME RegistersAssumption, Deviations = {}, NEW w \in Widths, NEW cond \in Conds, NEW compilerOpt \in BOOLEAN,
           NEW l \in 0 .. Pow2[w] - 1, NEW r \in 0 .. Pow2[w] - 1, NEW known \in {"none", "left", "right"},
           DeviatesWide(cond, Split(l, w), Split(r, w)) => "wide icmp" \in Deviations,
           Become(1, Number(Compares(cond, l, r, w)),
                  <<Number(IF Parts(w) > 1 THEN LargeIntCompare(cond, Split(l, w), Split(r, w), w)
                           ELSE ICmp(cond, Split(l, w)[1], Split(r, w)[1], w, known, compilerOpt))>>)
    PROVE  IInv'
<1> DEFINE b == Compares(cond, l, r, w)
           c == IF Parts(w) > 1 THEN LargeIntCompare(cond, Split(l, w), Split(r, w), w)
                ELSE ICmp(cond, Split(l, w)[1], Split(r, w)[1], w, known, compilerOpt)
<1>1. w \in Nat \ {0}
  BY WidthFacts
<1>2. ~DeviatesWide(cond, Split(l, w), Split(r, w))
  OBVIOUS
<1>3. b <=> c
  <2>1. CASE Parts(w) > 1
    <3>1. LargeIntCompare(cond, Split(l, w), Split(r, w), w) <=> Compares(cond, l, r, w)
      BY <1>1, <1>2, <2>1, LargeIntCompareIs
    <3> QED
      BY <2>1, <3>1
  <2>2. CASE ~(Parts(w) > 1)
    <3>1. Parts(w) = 1
      BY <1>1, <2>2, PartFacts
    <3>2. Split(l, w)[1] = l /\ Split(r, w)[1] = r
      BY <1>1, <3>1, FirstPart
    <3>3. ICmp(cond, l, r, w, known, compilerOpt) <=> Compares(cond, l, r, w)
      BY <1>1, ICmpIs
    <3> QED
      BY <2>2, <3>2, <3>3
  <2> QED
    BY <2>1, <2>2
<1>4. Become(1, Number(b), <<Number(c)>>)
  OBVIOUS
<1> HIDE DEF b, c
<1> QED
  BY <1>3, <1>4, BecomeBit

(* Comparisons keep the invariant.                                            *)
LEMMA ICmpStepKeeps ==
    ASSUME RegistersAssumption, Deviations = {}, IInv, ICmpStep
    PROVE  IInv'
<1>1. /\ width \in Widths /\ width \in Nat \ {0}
      /\ value \in 0 .. Pow2[width] - 1 /\ parts = Split(value, width)
  BY HeldFacts DEF ICmpStep
<1>2. PICK cond \in Conds, compilerOpt \in BOOLEAN, n \in Operands[width], constant \in BOOLEAN :
        \/ LET known == IF constant THEN "right" ELSE "none"
           IN  /\ DeviatesWide(cond, parts, Split(n, width)) => "wide icmp" \in Deviations
               /\ Become(1, Number(Compares(cond, value, n, width)),
                         <<Number(IF Parts(width) > 1 THEN LargeIntCompare(cond, parts, Split(n, width), width)
                                  ELSE ICmp(cond, parts[1], Split(n, width)[1], width, known, compilerOpt))>>)
        \/ LET known == IF constant THEN "left" ELSE "none"
           IN  /\ DeviatesWide(cond, Split(n, width), parts) => "wide icmp" \in Deviations
               /\ Become(1, Number(Compares(cond, n, value, width)),
                         <<Number(IF Parts(width) > 1 THEN LargeIntCompare(cond, Split(n, width), parts, width)
                                  ELSE ICmp(cond, Split(n, width)[1], parts[1], width, known, compilerOpt))>>)
  BY DEF ICmpStep, WithOperand
<1>3. n \in 0 .. Pow2[width] - 1
  BY <1>1, WidthFacts
<1> DEFINE right == IF constant THEN "right" ELSE "none"
           left == IF constant THEN "left" ELSE "none"
<1>4. right \in {"none", "left", "right"} /\ left \in {"none", "left", "right"}
  OBVIOUS
<1> HIDE DEF right, left
<1>5. ASSUME DeviatesWide(cond, Split(value, width), Split(n, width)) => "wide icmp" \in Deviations,
             Become(1, Number(Compares(cond, value, n, width)),
                    <<Number(IF Parts(width) > 1
                             THEN LargeIntCompare(cond, Split(value, width), Split(n, width), width)
                             ELSE ICmp(cond, Split(value, width)[1], Split(n, width)[1], width, right, compilerOpt))>>)
      PROVE  IInv'
  BY <1>1, <1>3, <1>4, <1>5, ComparisonOutcome
<1>6. ASSUME DeviatesWide(cond, Split(n, width), Split(value, width)) => "wide icmp" \in Deviations,
             Become(1, Number(Compares(cond, n, value, width)),
                    <<Number(IF Parts(width) > 1
                             THEN LargeIntCompare(cond, Split(n, width), Split(value, width), width)
                             ELSE ICmp(cond, Split(n, width)[1], Split(value, width)[1], width, left, compilerOpt))>>)
      PROVE  IInv'
  BY <1>1, <1>3, <1>4, <1>6, ComparisonOutcome
<1> QED
  BY <1>1, <1>2, <1>5, <1>6 DEF right, left

(* trunc keeps the invariant.                                                 *)
LEMMA TruncOutcome ==
    ASSUME RegistersAssumption, IInv, width # 0, NEW w \in Widths, Parts(w) = 1, w < width,
           Become(w, value % Pow2[w], <<Trunc(parts, w)>>)
    PROVE  IInv'
<1>1. width \in Nat \ {0} /\ value \in 0 .. Pow2[width] - 1 /\ parts = Split(value, width)
  BY HeldFacts
<1>2. w \in Nat \ {0}
  BY WidthFacts
<1>3. w <= PartBits
  BY <1>2, OnePart
<1>4. Trunc(parts, w) = value % Pow2[w]
  BY <1>1, <1>2, <1>3, TruncIs
<1>5. value \in Int /\ Pow2[w] \in Nat \ {0}
  BY <1>1, <1>2, Operand, PowHalf
<1>6. value % Pow2[w] \in 0 .. Pow2[w] - 1
  BY <1>5, Division
<1> QED
  BY <1>4, <1>6, BecomeOnePart

\* The variable of a narrower number is used as it is.
LEMMA ZExtOutcome ==
    ASSUME RegistersAssumption, IInv, width # 0, NEW w \in Widths, Parts(w) = 1, width < w,
           Become(w, value, parts)
    PROVE  IInv'
<1>1. width \in Nat \ {0} /\ value \in 0 .. Pow2[width] - 1 /\ (Parts(width) = 1 => parts = <<value>>)
  BY HeldFacts
<1>2. w \in Nat \ {0}
  BY WidthFacts
<1>3. Parts(width) = 1
  <2>1. w <= PartBits
    BY <1>2, OnePart
  <2>2. width <= PartBits
    BY <1>1, <1>2, <2>1, Positive
  <2> QED
    BY <1>1, <2>2, OnePart
<1>4. value \in 0 .. Pow2[w] - 1
  <2>1. Pow2[width] <= Pow2[w] /\ Pow2[width] \in Nat /\ Pow2[w] \in Nat
    BY <1>1, <1>2, PowMonotone, PowPositive
  <2> QED
    BY <1>1, <2>1
<1> QED
  BY <1>1, <1>3, <1>4, BecomeOnePart

(* sext keeps the invariant.                                                  *)
LEMMA SExtOutcome ==
    ASSUME RegistersAssumption, IInv, width # 0, NEW w \in Widths, Parts(w) = 1, width < w,
           Become(w, Signed(value, width) % Pow2[w], <<SExt(parts[1], width, w)>>)
    PROVE  IInv'
<1>1. width \in Nat \ {0} /\ value \in 0 .. Pow2[width] - 1 /\ (Parts(width) = 1 => parts = <<value>>)
  BY HeldFacts
<1>2. w \in Nat \ {0}
  BY WidthFacts
<1>3. Parts(width) = 1
  <2>1. w <= PartBits
    BY <1>2, OnePart
  <2>2. width <= PartBits
    BY <1>1, <1>2, <2>1, Positive
  <2> QED
    BY <1>1, <2>2, OnePart
<1>4. parts[1] = value
  BY <1>1, <1>3
<1>5. SExt(value, width, w) = Signed(value, width) % Pow2[w]
  BY <1>1, <1>2, SExtIs
<1>6. Signed(value, width) \in Int /\ Pow2[w] \in Nat \ {0}
  BY <1>1, <1>2, SignedFacts, PowHalf
<1>7. Signed(value, width) % Pow2[w] \in 0 .. Pow2[w] - 1
  BY <1>6, Division
<1> QED
  BY <1>4, <1>5, <1>7, BecomeOnePart

(* fptosi keeps the invariant.                                                *)
LEMMA FPToSIOutcome ==
    ASSUME RegistersAssumption, IInv, width = 0, NEW w \in Widths, Parts(w) = 1, Finite(value),
           Become(w, Truncated(value, 2) % Pow2[w], <<FPToSI(parts[1], w)>>)
    PROVE  IInv'
<1>1. value \in Int /\ parts[1] = value
  <2>1. value \in Doubles /\ parts = <<value>>
    BY HeldFacts
  <2>2. value \in Int
    BY <2>1, DoublesFacts
  <2> QED
    BY <2>1, <2>2
<1>2. w \in Nat \ {0} /\ Pow2[w] \in Nat \ {0}
  BY WidthFacts, PowHalf
<1>3. FPToSI(value, w) = Truncated(value, 2) % Pow2[w]
  BY <1>1, <1>2, FPToSIIs
<1>4. Truncated(value, 2) \in Int
  BY <1>1, TruncatedHalf
<1>5. Truncated(value, 2) % Pow2[w] \in 0 .. Pow2[w] - 1
  BY <1>2, <1>4, Division
<1> QED
  BY <1>1, <1>3, <1>5, BecomeOnePart

(* fptoui keeps the invariant.                                                *)
LEMMA FPToUIOutcome ==
    ASSUME RegistersAssumption, IInv, width = 0, NEW w \in Widths, Parts(w) = 1, Finite(value), value >= 0,
           Truncated(value, 2) \in 0 .. Pow2[w] - 1, Become(w, Truncated(value, 2), <<FPToUI(parts[1])>>)
    PROVE  IInv'
<1>1. value \in Int /\ parts[1] = value
  <2>1. value \in Doubles /\ parts = <<value>>
    BY HeldFacts
  <2>2. value \in Int
    BY <2>1, DoublesFacts
  <2> QED
    BY <2>1, <2>2
<1>2. FPToUI(value) = Truncated(value, 2) /\ Truncated(value, 2) \in Nat
  BY <1>1, FPToUIIs
<1> QED
  BY <1>1, <1>2, BecomeOnePart

(* Conversions to an integer keep the invariant.                              *)
LEMMA ConvertKeeps ==
    ASSUME RegistersAssumption, Deviations = {}, IInv, Convert
    PROVE  IInv'
<1>1. PICK w \in Widths :
        /\ Parts(w) = 1
        /\ \/ 0 < w /\ w < width /\ Become(w, value % Pow2[w], <<Trunc(parts, w)>>)
           \/ 0 < width /\ width < w /\ Become(w, value, parts)
           \/ 0 < width /\ width < w /\ Become(w, Signed(value, width) % Pow2[w], <<SExt(parts[1], width, w)>>)
           \/ width = 0 /\ Finite(value) /\ Become(w, Truncated(value, 2) % Pow2[w], <<FPToSI(parts[1], w)>>)
           \/ width = 0 /\ Finite(value) /\ value >= 0 /\ Truncated(value, 2) \in 0 .. Pow2[w] - 1
              /\ Become(w, Truncated(value, 2), <<FPToUI(parts[1])>>)
  BY DEF Convert
<1>2. CASE 0 < w /\ w < width /\ Become(w, value % Pow2[w], <<Trunc(parts, w)>>)
  <2>1. width # 0
    BY <1>2
  <2> QED
    BY <1>1, <1>2, <2>1, TruncOutcome
<1>3. CASE 0 < width /\ width < w /\ Become(w, value, parts)
  <2>1. width # 0
    BY <1>3
  <2> QED
    BY <1>1, <1>3, <2>1, ZExtOutcome
<1>4. CASE 0 < width /\ width < w /\ Become(w, Signed(value, width) % Pow2[w], <<SExt(parts[1], width, w)>>)
  <2>1. width # 0
    BY <1>4
  <2> QED
    BY <1>1, <1>4, <2>1, SExtOutcome
<1>5. CASE width = 0 /\ Finite(value) /\ Become(w, Truncated(value, 2) % Pow2[w], <<FPToSI(parts[1], w)>>)
  BY <1>1, <1>5, FPToSIOutcome
<1>6. CASE width = 0 /\ Finite(value) /\ value >= 0 /\ Truncated(value, 2) \in 0 .. Pow2[w] - 1
           /\ Become(w, Truncated(value, 2), <<FPToUI(parts[1])>>)
  BY <1>1, <1>6, FPToUIOutcome
<1> QED
  BY <1>1, <1>2, <1>3, <1>4, <1>5, <1>6

(* Conversions to a double keep the invariant.                                *)
LEMMA ToDoubleKeeps ==
    ASSUME RegistersAssumption, IInv, ToDouble
    PROVE  IInv'
<1>1. /\ width # 0 /\ Parts(width) = 1 /\ 2 * Signed(value, width) \in Doubles
      /\ Become(0, 2 * Signed(value, width), <<SIToFP(parts[1], width)>>)
  BY DEF ToDouble
<1>2. width \in Nat \ {0} /\ value \in 0 .. Pow2[width] - 1 /\ parts[1] = value
  BY <1>1, HeldFacts
<1>3. SIToFP(value, width) = 2 * Signed(value, width)
  BY <1>2, SIToFPIs
<1> DEFINE w == 0
           v == 2 * Signed(value, width)
<1>4. Become(w, v, <<v>>) /\ v \in Doubles
  BY <1>1, <1>2, <1>3
<1>5. Holds(w, v, <<v>>)
  BY <1>4 DEF Holds
<1> HIDE DEF w, v
<1> QED
  BY <1>4, <1>5, BecomeKeeps

(* select keeps the invariant.                                                *)
LEMMA SelectKeeps ==
    ASSUME RegistersAssumption, IInv, Select
    PROVE  IInv'
<1>1. width = 1
  BY DEF Select
<1>0. PICK w \in Widths :
        /\ Parts(w) = 1
        /\ \E t, f \in Operands[w] : Become(w, IF value = 1 THEN t ELSE f, <<SelectKnown(parts[1], t, f)>>)
  BY DEF Select
<1>2. PICK t \in Operands[w], f \in Operands[w] :
          Become(w, IF value = 1 THEN t ELSE f, <<SelectKnown(parts[1], t, f)>>)
  BY <1>0
<1>3. width \in Nat \ {0} /\ value \in 0 .. Pow2[width] - 1 /\ (Parts(width) = 1 => parts = <<value>>)
  BY <1>1, HeldFacts
<1>4. Pow2[width] = 2
  <2>1. Pow2[width] = 2 * Pow2[width - 1]
    BY <1>3, PowHalf
  <2>2. width - 1 = 0
    BY <1>1
  <2> QED
    BY <2>1, <2>2, PowRecursion
<1>5. value \in 0 .. 1
  BY <1>3, <1>4
<1>6. parts[1] = value
  <2>1. width <= PartBits
    BY <1>1, Positive
  <2>2. Parts(width) = 1
    BY <1>3, <2>1, OnePart
  <2> QED
    BY <1>3, <2>2
<1>7. w \in Nat \ {0} /\ t \in 0 .. Pow2[w] - 1 /\ f \in 0 .. Pow2[w] - 1
  BY <1>2, WidthFacts
<1>8. t \in Int /\ f \in Int
  BY <1>7, Operand
<1>9. SelectKnown(value, t, f) = IF value = 1 THEN t ELSE f
  BY <1>5, <1>8, SelectKnownIs
<1> DEFINE v == IF value = 1 THEN t ELSE f
<1>10. v \in 0 .. Pow2[w] - 1
  BY <1>7
<1>11. Become(w, v, <<SelectKnown(value, t, f)>>) /\ Parts(w) = 1
  BY <1>0, <1>2, <1>6
<1>12. SelectKnown(value, t, f) = v
  BY <1>9
<1> HIDE DEF v
<1> QED
  BY <1>10, <1>11, <1>12, BecomeOnePart

(* Floating-point instructions keep the invariant.                            *)
LEMMA FloatOpKeeps ==
    ASSUME RegistersAssumption, Deviations = {}, IInv, FloatOp
    PROVE  IInv'
<1>1. width = 0
  BY DEF FloatOp
<1>2. value \in Doubles /\ value \in Double /\ parts[1] = value
  <2>1. value \in Doubles /\ parts = <<value>>
    BY <1>1, HeldFacts
  <2>2. Doubles \subseteq Double
    BY DoublesFacts
  <2> QED
    BY <2>1, <2>2
<1>3. PICK n \in Doubles :
        \/ \E cond \in FConds : \/ Become(1, Number(FCompares(cond, value, n)), <<Number(FCmp(cond, parts[1], n))>>)
                                \/ Become(1, Number(FCompares(cond, n, value)), <<Number(FCmp(cond, n, parts[1]))>>)
        \/ \E known \in {"none", "right"} : Remainder(value, n, parts[1], n, known)
        \/ \E known \in {"none", "left"} : Remainder(n, value, n, parts[1], known)
  BY DEF FloatOp
<1>4. n \in Double
  BY DoublesFacts
<1>5. ASSUME NEW cond \in FConds, Become(1, Number(FCompares(cond, value, n)), <<Number(FCmp(cond, value, n))>>)
      PROVE  IInv'
  <2> DEFINE b == FCompares(cond, value, n)
             c == FCmp(cond, value, n)
  <2>1. b <=> c
    BY <1>2, <1>4, FCmpIs
  <2>2. Become(1, Number(b), <<Number(c)>>)
    BY <1>5
  <2> HIDE DEF b, c
  <2> QED
    BY <2>1, <2>2, BecomeBit
<1>6. ASSUME NEW cond \in FConds, Become(1, Number(FCompares(cond, n, value)), <<Number(FCmp(cond, n, value))>>)
      PROVE  IInv'
  <2> DEFINE b == FCompares(cond, n, value)
             c == FCmp(cond, n, value)
  <2>1. b <=> c
    BY <1>2, <1>4, FCmpIs
  <2>2. Become(1, Number(b), <<Number(c)>>)
    BY <1>6
  <2> HIDE DEF b, c
  <2> QED
    BY <2>1, <2>2, BecomeBit
<1>7. ASSUME NEW l \in Doubles, NEW r \in Doubles, NEW known \in {"none", "left", "right"},
             Remainder(l, r, l, r, known)
      PROVE  IInv'
  <2> DEFINE w == 0
             v == l - r * Truncated(l, r)
  <2>1. /\ r # 0 /\ Finite(l) /\ Finite(r)
        /\ Mod(l, r) # 0 \/ l * r > 0 \/ (l = 0 /\ known # "left")
        /\ Become(w, v, <<FRem(l, r, known)>>)
    BY <1>7 DEF Remainder
  <2> HIDE DEF v
  <2>2. l \in Int /\ r \in Int
    BY <2>1, DoublesFacts
  <2>3. FRem(l, r, known) = v /\ v \in Int /\ -Magnitude(l) <= v /\ v <= Magnitude(l)
    BY <2>1, <2>2, FRemIs DEF v
  <2>4. v \in Doubles
    BY <2>1, <2>3, DoublesFacts
  <2>5. Become(w, v, <<v>>)
    BY <2>1, <2>3
  <2>6. Holds(w, v, <<v>>)
    BY <2>4 DEF Holds
  <2> HIDE DEF w
  <2> QED
    BY <2>5, <2>6, BecomeKeeps
<1> QED
  BY <1>2, <1>3, <1>5, <1>6, <1>7

-----------------------------------------------------------------------------

(* The program starts with the invariant.                                     *)
LEMMA InitHolds ==
    ASSUME RegistersAssumption, Init
    PROVE  IInv
<1>1. CASE width = 0
  BY <1>1 DEF Init, IInv, Holds
<1>2. CASE width # 0
  <2>1. width \in Widths /\ value \in Operands[width] /\ parts = Split(value, width)
    BY <1>2 DEF Init
  <2>2. value \in 0 .. Pow2[width] - 1
    BY <2>1, WidthFacts
  <2> QED
    BY <2>1, <2>2 DEF IInv, Holds
<1> QED
  BY <1>1, <1>2

\* The variables hold the value after every chain of instructions.
THEOREM RegisterHolds ==
    ASSUME RegistersAssumption, Deviations = {}
    PROVE  Spec => []IInv
<1>1. Init => IInv
  BY InitHolds
<1>2. IInv /\ [Next]_vars => IInv'
  <2> SUFFICES ASSUME IInv, [Next]_vars PROVE IInv'
    OBVIOUS
  <2>1. CASE BinaryOp
    BY <2>1, BinaryStep
  <2>2. CASE ICmpStep
    BY <2>2, ICmpStepKeeps
  <2>3. CASE Convert
    BY <2>3, ConvertKeeps
  <2>4. CASE ToDouble
    BY <2>4, ToDoubleKeeps
  <2>5. CASE Select
    BY <2>5, SelectKeeps
  <2>6. CASE FloatOp
    BY <2>6, FloatOpKeeps
  <2>7. CASE UNCHANGED vars
    BY <2>7 DEF vars, IInv, Holds
  <2> QED
    BY <2>1, <2>2, <2>3, <2>4, <2>5, <2>6, <2>7 DEF Next
<1> QED
  BY <1>1, <1>2, PTL DEF Spec

(* There is a Scratch variable for each part of the type, and each holds a     *)
(* number that fits its part; a double is one of the instance's.              *)
THEOREM TypeCorrect ==
    ASSUME RegistersAssumption, Deviations = {}
    PROVE  Spec => []TypeOK
<1>1. IInv => TypeOK
  <2> SUFFICES ASSUME IInv PROVE TypeOK
    OBVIOUS
  <2>1. CASE width = 0
    BY <2>1, HeldFacts DEF TypeOK
  <2>2. CASE width # 0
    <3>1. width \in Widths /\ width \in Nat \ {0} /\ value \in 0 .. Pow2[width] - 1 /\ parts = Split(value, width)
      BY <2>2, HeldFacts
    <3>2. Len(parts) = Parts(width) /\ \A i \in 1 .. Parts(width) : parts[i] \in 0 .. Pow2[PartWidth(width, i)] - 1
      BY <3>1, SplitFacts
    <3> QED
      BY <3>1, <3>2 DEF TypeOK
  <2> QED
    BY <2>1, <2>2
<1> QED
  BY <1>1, RegisterHolds, PTL

(* After any chain of instructions and conversions the Scratch variables       *)
(* hold, part by part, the number that LLVM says the chain computes.          *)
THEOREM NumberIsRight ==
    ASSUME RegistersAssumption, Deviations = {}
    PROVE  Spec => []SameNumber
<1>1. IInv => SameNumber
  BY HeldFacts DEF SameNumber
<1> QED
  BY <1>1, RegisterHolds, PTL

(* When the number held is multiplied by an operand, no product of halves,    *)
(* nor any sum of them, is too large for a double to hold exactly.            *)
THEOREM ProductsAreExact ==
    ASSUME RegistersAssumption, Deviations = {}
    PROVE  Spec => []ExactProducts
<1>1. IInv => ExactProducts
  <2> SUFFICES ASSUME IInv, width # 0, width <= SplitBits, NEW n \in Operands[width], NEW i \in 1 .. 4,
                      i <= Len(ProductSteps(value, n, width))
               PROVE  ProductSteps(value, n, width)[i] < Pow2[DoubleBits]
    BY DEF ExactProducts
  <2>1. width \in Widths /\ width \in Nat \ {0} /\ value \in 0 .. Pow2[width] - 1
    BY HeldFacts
  <2>2. n \in 0 .. Pow2[width] - 1
    BY <2>1, WidthFacts
  <2> QED
    BY <2>1, <2>2, StepsAreExact
<1> QED
  BY <1>1, RegisterHolds, PTL
=============================================================================
