----------------------------- MODULE Arithmetic -----------------------------
(* What the blocks emitted for an integer instruction compute                *)
(* (src/src/compiler/translate.rs, twos_complement.rs).  An integer of up to  *)
(* PartBits bits is one Scratch number in 0 .. 2^width - 1; a wider one is a  *)
(* sequence of parts, lowest first.  Each operator is the value of the       *)
(* expression the function of that name builds, for given operands.          *)
EXTENDS PowersOfTwo, Sequences, FiniteSetsExt, SequencesExt

CONSTANTS
    PartBits,    \* VARIABLE_MAX_BITS, 48
    DoubleBits   \* INTERMEDIATE_MAX_BITS, 53: integers of a double are exact up to 2^53

ASSUME BitsAssumption ==
    /\ PartBits \in Nat \ {0} /\ DoubleBits \in Nat
    /\ PartBits + 3 <= DoubleBits

\* The operators of Scratch: mod has the sign of the divisor.
Mod(a, n)      == IF n > 0 THEN a % n ELSE -((-a) % (-n))
FloorDiv(a, n) == IF n > 0 THEN a \div n ELSE (-a) \div (-n)
CeilDiv(a, n)  == -FloorDiv(-a, n)
Number(b)      == IF b THEN 1 ELSE 0

Parts(w)        == (w + PartBits - 1) \div PartBits
PartWidth(w, i) == IF i < Parts(w) \/ w % PartBits = 0 THEN PartBits ELSE w % PartBits

\* trans_value of a constant: its parts.
Split(n, w) == [i \in 1 .. Parts(w) |-> (n \div Pow2[PartBits * (i - 1)]) % Pow2[PartBits]]

-----------------------------------------------------------------------------
(* Sums and differences.                                                     *)

Apply(op, l, r) == IF op = "add" THEN l + r ELSE l - r

\* Faulty: the adjustment starts one past the greatest number.
WrapLate(op, sum, m, modIsFaster) ==
    IF modIsFaster THEN Mod(sum, m)
    ELSE IF op = "add" THEN sum - m * Number(sum > m) ELSE sum + m * Number(sum < 0)

\* A sum is brought back into 0 .. m - 1 by mod, or by a comparison where the
\* target computes that faster.
Wrap(op, sum, m, modIsFaster) ==
    IF modIsFaster THEN Mod(sum, m)
    ELSE IF op = "add" THEN sum - m * Number(sum > m - 1) ELSE sum + m * Number(sum < 0)

ShorterText(n, k) == Len(ToString(n)) < Len(ToString(k))

\* compiler_minify: a constant whose complement is shorter is replaced by the
\* complement, and the operation by its opposite.
Minify(op, l, r, known, m, modIsFaster) ==
    LET k == IF known = "left" THEN l ELSE r
        complement == IF op = "add" \/ known = "right" THEN m - k
                      ELSE IF modIsFaster THEN k - m ELSE k
        opposite == IF op = "add" THEN "sub" ELSE IF known = "right" THEN "add" ELSE op
    IN  IF known = "none" \/ ~ShorterText(complement, k) THEN <<op, l, r>>
        ELSE IF known = "left" THEN <<opposite, complement, r>> ELSE <<opposite, l, complement>>

SumDiff(op, l, r, m, known, modIsFaster) ==
    LET e == Minify(op, l, r, known, m, modIsFaster)
    IN  Wrap(e[1], Apply(e[1], e[2], e[3]), m, modIsFaster)

\* Faulty: a borrow is not taken from the next part.
PartialSumDiffNoBorrow(op, l, r, prev) ==
    Apply(op, Apply(op, l, r), Number(op = "add" /\ prev > Pow2[PartBits] - 1))

\* The sum of two parts and the carry out of the part below, whose own sum is
\* prev.
PartialSumDiff(op, l, r, prev) ==
    Apply(op, Apply(op, l, r), Number(IF op = "add" THEN prev > Pow2[PartBits] - 1 ELSE prev < 0))

\* The parts whose sum is kept in a temporary variable: every spacing-th.
Checkpoints(n, spacing, omitLast) ==
    {i \in 2 .. n : (i - 1) % spacing = 0 /\ ~(omitLast /\ i = n)}

\* A sum starts at the last checkpoint below it and passes the carry on from
\* there.
Carried(op, l, r, start, first) ==
    LET sum[i \in start .. Len(l)] ==
            IF i = start THEN first ELSE PartialSumDiff(op, l[i], r[i], sum[i - 1])
    IN  sum

RawSums(op, l, r, checkpoints) ==
    LET raw[i \in 1 .. Len(l)] ==
            IF i = 1 THEN Apply(op, l[1], r[1])
            ELSE LET start == Max({1} \cup {k \in checkpoints : k < i})
                 IN  Carried(op, l, r, start, raw[start])[i]
    IN  raw

WideSumDiff(op, l, r, w, checkpoints) ==
    LET raw == RawSums(op, l, r, checkpoints)
    IN  [i \in 1 .. Len(l) |-> Mod(raw[i], Pow2[PartWidth(w, i)])]

-----------------------------------------------------------------------------
(* Shifts.  shift is at most PartBits: a greater constant is an error of the *)
(* compiler, a greater variable is looked up past the end of the powers.      *)

\* Without the floor of an exact shift no bit is lost.
ShiftPart(direction, v, shift, m, canShiftOut) ==
    IF direction = "right" THEN v \div Pow2[shift]
    ELSE IF canShiftOut THEN Mod(v * Pow2[shift], m) ELSE v * Pow2[shift]

\* Two parts: what one loses the other takes in.
BitShift(direction, parts, shift, w, canShiftOut) ==
    LET shifted(i, out) == ShiftPart(direction, parts[i], shift, Pow2[PartWidth(w, i)], out)
        crossing(i) == IF direction = "left"
                       THEN ShiftPart("right", parts[i], PartBits - shift, Pow2[PartBits], TRUE)
                       ELSE ShiftPart("left", parts[i], PartBits - shift, Pow2[PartBits], TRUE)
    IN  IF Len(parts) = 1 THEN <<shifted(1, canShiftOut)>>
        ELSE IF direction = "left" THEN <<shifted(1, TRUE), shifted(2, canShiftOut) + crossing(1)>>
        ELSE <<shifted(1, canShiftOut) + crossing(2), shifted(2, TRUE)>>

\* The quotient of a negative number is rounded up.
AShr(v, shift, w) ==
    IF v < Pow2[w - 1] THEN v \div Pow2[shift]
    ELSE CeilDiv(v - Pow2[w], Pow2[shift]) + Pow2[w]

-----------------------------------------------------------------------------
(* Products.  The limits 26, 50 and 34 of the code follow from DoubleBits.    *)

\* Faulty: every product is made in one multiplication.
ProductBitsAll == DoubleBits - 3

ProductBits == (DoubleBits - 1) \div 2
SplitBits   == DoubleBits - 3

UnreducedBits == 2 * ((DoubleBits - 2) \div 3)

\* The two numbers are cut in halves; what the product of the upper halves adds
\* is a multiple of 2^w.  The sum of the cross products, before and after it is
\* reduced.
CrossProducts(l, r, w) ==
    LET half == Pow2[w \div 2]
        cross == (l % half) * (r \div half) + (r % half) * (l \div half)
    IN  IF w > UnreducedBits THEN <<cross, Mod(cross, Pow2[(w + 1) \div 2])>> ELSE <<cross, cross>>

\* Every number on the way to a product that must be exact.
ProductSteps(l, r, w) ==
    IF w <= ProductBits THEN <<l * r>>
    ELSE LET half == Pow2[w \div 2]
             cross == CrossProducts(l, r, w)
         IN  cross \o <<cross[2] * half + (l % half) * (r % half)>>

MultiplyWrap(l, r, w) == Mod(Last(ProductSteps(l, r, w)), Pow2[w])

-----------------------------------------------------------------------------
(* Division.  The signs are told apart first.                                *)

SignedDiv(l, r, w) ==
    LET half == Pow2[w - 1]
        change == Pow2[w]
    IN  IF l < half
        THEN IF r < half THEN FloorDiv(l, r) ELSE CeilDiv(l, r - change) + change
        ELSE IF r < half THEN CeilDiv(l - change, r) + change ELSE FloorDiv(l - change, r - change)

\* is_exact: no remainder.
SignedDivExact(l, r, w) ==
    LET undo(v) == Mod(v + Pow2[w - 1] + 1, -Pow2[w]) + Pow2[w - 1] - 1
    IN  Mod(FloorDiv(undo(l), undo(r)), Pow2[w])

\* With a positive left and a negative right operand, the latter is used as it
\* is stored.
SignedRem(l, r, w) ==
    LET half == Pow2[w - 1]
        change == Pow2[w]
    IN  IF l < half
        THEN IF r < half THEN Mod(l, r) ELSE Mod(l, r) - r
        ELSE IF r < half THEN Mod(l - change, r) - r + change ELSE Mod(l - change, r - change) + change

-----------------------------------------------------------------------------
(* Comparisons.                                                              *)

\* reverse_twos_complement: the order of the results is that of the signed
\* numbers.  Twice the value, so that reverse_twos_complement_and_sub_half has
\* one too.
Reversed(v, w)     == 2 * Mod(v + Pow2[w - 1] + 1, -Pow2[w])
ReversedHalf(v, w) == Mod(2 * v + Pow2[w] + 1, -(Pow2[w + 1]))

SignedConds   == {"sgt", "sge", "slt", "sle"}
UnsignedConds == {"ugt", "uge", "ult", "ule"}
Conds         == SignedConds \cup UnsignedConds \cup {"eq", "ne"}

\* One part.  >= and <= become > and < where the other operand can be moved.
ICmp(cond, l, r, w, known, compilerOpt) ==
    LET sl == Reversed(l, w)
        sr == Reversed(r, w)
    IN  CASE cond = "eq" -> l = r        [] cond = "ne" -> ~(l = r)
          [] cond = "ugt" -> l > r       [] cond = "ult" -> l < r
          [] cond = "uge" -> ~(l < r)    [] cond = "ule" -> ~(l > r)
          [] cond = "sgt" -> sl > sr     [] cond = "slt" -> sl < sr
          [] cond = "sge" -> IF known = "none" /\ compilerOpt THEN sl > ReversedHalf(r, w)
                             ELSE IF known = "left" THEN sl + 2 > sr
                             ELSE IF known = "right" THEN sl > sr - 2 ELSE ~(sl < sr)
          [] cond = "sle" -> IF known = "none" /\ compilerOpt THEN ReversedHalf(l, w) < sr
                             ELSE IF known = "left" THEN sl - 2 < sr
                             ELSE IF known = "right" THEN sl < sr + 2 ELSE ~(sl > sr)

\* Several parts, without sign: the first part from the top that differs
\* decides, and the lowest part if none does.
UnsignedCompare(cond, l, r) ==
    LET result[i \in 1 .. Len(l)] ==
            IF i = 1 THEN ICmp(cond, l[1], r[1], PartBits, "none", FALSE)
            ELSE IF l[i] = r[i] THEN result[i - 1]
            ELSE IF cond \in {"ugt", "ule"} THEN l[i] > r[i] ELSE l[i] < r[i]
    IN  result[Len(l)]

\* With sign: the top part is compared with its sign, the others without.
LargeIntCompare(cond, l, r, w) ==
    LET n == Len(l)
        strict == IF cond \in {"sgt", "sge"} THEN "sgt" ELSE "slt"
        unsigned == CASE cond = "sgt" -> "ugt" [] cond = "slt" -> "ult"
                      [] cond = "sge" -> "uge" [] cond = "sle" -> "ule"
    IN  CASE cond = "eq" -> \A i \in 1 .. n : l[i] = r[i]
          [] cond = "ne" -> ~(\A i \in 1 .. n : l[i] = r[i])
          [] cond \in UnsignedConds -> UnsignedCompare(cond, l, r)
          [] cond \in SignedConds ->
                 IF l[n] = r[n] THEN UnsignedCompare(unsigned, Front(l), Front(r))
                 ELSE ICmp(strict, l[n], r[n], PartWidth(w, n), "none", FALSE)

-----------------------------------------------------------------------------
(* Conversions and intrinsics.                                               *)

Trunc(parts, w) == Mod(parts[1], Pow2[w])

SExt(v, from, to) == v + (Pow2[to] - Pow2[from]) * Number(v > Pow2[from - 1] - 1)

\* Select of two constants.
SelectKnown(c, t, f) == IF t < f THEN f - c * (f - t) ELSE f + c * (t - f)

\* Abs, with the sign taken from the stored number.
Abs(v, w) == Mod(v * (2 * Number(v < Pow2[w - 1]) - 1), Pow2[w])

MinMax(op, l, r, w) ==
    LET key(v) == IF op \in {"smax", "smin"} THEN Reversed(v, w) ELSE v
    IN  IF op \in {"smax", "umax"} THEN (IF key(l) > key(r) THEN l ELSE r)
        ELSE IF key(l) < key(r) THEN l ELSE r

Saturating(op, l, r, w) ==
    LET max == Pow2[w - 1] - 1
        min == -Pow2[w - 1]
        signed(v) == v - (1 - Number(v < Pow2[w - 1])) * Pow2[w]
        stored(v) == v + Number(v < 0) * Pow2[w]
        raw == Apply(IF op = "sadd.sat" THEN "add" ELSE "sub", signed(l), signed(r))
        sum == l + r
        top == Pow2[w] - 1
        distance == IF sum > top THEN sum - top ELSE top - sum
    IN  CASE op = "uadd.sat" -> (sum + top - distance) \div 2
          [] op = "usub.sat" -> (l - r) * Number(l > r)
          [] op \in {"sadd.sat", "ssub.sat"} ->
                 stored(IF raw > max THEN max ELSE IF raw < min THEN min ELSE raw)

-----------------------------------------------------------------------------
(* Floating point.  A double is twice its value, so that halves are integers. *)
(* Scratch compares a number with a text as texts, digits before letters:     *)
(* Infinity is above every number, NaN above Infinity, and "j" in between.    *)

Infinity == 1000
LetterJ  == 1001
NaN      == 1002

FCmp(cond, l, r) ==
    LET ordered == l < LetterJ /\ r < LetterJ
        unordered == l > Infinity \/ r > Infinity
    IN  CASE cond = "oeq" -> r < LetterJ /\ l = r [] cond = "one" -> ordered /\ ~(l = r)
          [] cond = "ogt" -> ordered /\ l > r     [] cond = "oge" -> ordered /\ ~(l < r)
          [] cond = "olt" -> ordered /\ l < r     [] cond = "ole" -> ordered /\ ~(l > r)
          [] cond = "ueq" -> unordered \/ l = r   [] cond = "une" -> unordered \/ ~(l = r)
          [] cond = "ugt" -> unordered \/ l > r   [] cond = "uge" -> unordered \/ ~(l < r)
          [] cond = "ult" -> unordered \/ l < r   [] cond = "ule" -> unordered \/ ~(l > r)
          [] cond = "ord" -> ordered              [] cond = "uno" -> unordered

FConds == {"oeq", "one", "ogt", "oge", "olt", "ole", "ueq", "une", "ugt", "uge", "ult", "ule", "ord", "uno"}

\* frem: mod, corrected where the signs differ.  The test of the signs is made
\* when compiling as far as the operands are constants.
FRem(l, r, known) ==
    LET differ == CASE known = "left"  -> IF l > 0 THEN r < 0 ELSE r > 0
                    [] known = "right" -> IF r > 0 THEN l < 0 ELSE l > 0
                    [] known = "none"  -> l * r < 0
    IN  Mod(l, r) - r * Number(differ)

SIToFP(v, w) == 2 * (Mod(v + Pow2[w - 1] + 1, -Pow2[w]) + Pow2[w - 1] - 1)

\* Rounds towards zero: the absolute value is rounded down.
FPToSI(x, w) ==
    LET magnitude == IF x < 0 THEN (-x) \div 2 ELSE x \div 2
    IN  Mod(magnitude * (2 * Number(x > 0) - 1), Pow2[w])

FPToUI(x) == x \div 2
=============================================================================
