----------------------------- MODULE Registers ------------------------------
(* A chain of LLVM instructions, each taking the result of the one before and *)
(* a constant or another value, beside the Scratch variables the emitted      *)
(* blocks leave it in (trans_instr, src/src/compiler/translate.rs).  A result *)
(* out of range does not show where it is made but where it is next used.     *)
(*                                                                          *)
(* What depends on the target's costs or on an option is a choice.  Known    *)
(* departures of the code from LLVM have names, given by Deviation and in the *)
(* steps "wide icmp", "fptoui" and "frem"; those in Deviations are let in.    *)
EXTENDS Arithmetic, BitMasks

CONSTANTS
    Widths,      \* the integer types
    Operands,    \* Operands[w]: the values a second operand takes
    Doubles,     \* the doubles that occur, times two
    Deviations   \* the deviations let in

ASSUME RegistersAssumption ==
    /\ Widths \subseteq Nat \ {0} /\ 1 \in Widths
    /\ \A w \in Widths : Operands[w] \subseteq 0 .. Pow2[w] - 1
    /\ \E d \in 0 .. Infinity - 1 : Doubles = (-d .. d) \cup {-Infinity, Infinity, NaN}

VARIABLES
    width,   \* the type of the register, 0 is double
    value,   \* what LLVM says it holds
    parts    \* what the Scratch variables hold

vars == <<width, value, parts>>

Sums     == {"add", "sub"}
Shifts   == {"shl", "lshr"}
Bitwise2 == {"and", "or", "xor"}
Extremes == {"smax", "smin", "umax", "umin"}
Saturate == {"uadd.sat", "usub.sat", "sadd.sat", "ssub.sat"}
Divisions == {"udiv", "urem", "sdiv", "srem"}
Narrow   == Divisions \cup Extremes \cup Saturate \cup {"mul", "ashr", "abs"}  \* one part only
Binary   == Narrow \cup Sums \cup Shifts \cup Bitwise2

-----------------------------------------------------------------------------
(* What LLVM says.                                                           *)

Signed(n, w) == IF n >= Pow2[w - 1] THEN n - Pow2[w] ELSE n
Truncated(a, n) == LET q(x, y) == x \div y
                       magnitude == q(IF a < 0 THEN -a ELSE a, IF n < 0 THEN -n ELSE n)
                   IN  IF (a < 0) = (n < 0) THEN magnitude ELSE -magnitude
Clamp(n, low, high) == IF n < low THEN low ELSE IF n > high THEN high ELSE n

Meaning(op, l, r, w) ==
    LET sl == Signed(l, w)
        sr == Signed(r, w)
        m == Pow2[w]
        half == Pow2[w - 1]
    IN  (CASE op = "add" -> l + r        [] op = "sub" -> l - r
           [] op = "mul" -> l * r        [] op = "shl" -> l * Pow2[r]
           [] op = "lshr" -> l \div Pow2[r] [] op = "ashr" -> sl \div Pow2[r]
           [] op = "udiv" -> l \div r    [] op = "urem" -> l % r
           [] op = "sdiv" -> Truncated(sl, sr)
           [] op = "srem" -> sl - sr * Truncated(sl, sr)
           [] op \in Bitwise2 -> Bit(op, l, r, w)
           [] op = "umax" -> Max({l, r}) [] op = "umin" -> Min({l, r})
           [] op = "smax" -> Max({sl, sr}) [] op = "smin" -> Min({sl, sr})
           [] op = "abs" -> IF sl < 0 THEN -sl ELSE sl
           [] op = "uadd.sat" -> Clamp(l + r, 0, m - 1) [] op = "usub.sat" -> Clamp(l - r, 0, m - 1)
           [] op = "sadd.sat" -> Clamp(sl + sr, -half, half - 1)
           [] op = "ssub.sat" -> Clamp(sl - sr, -half, half - 1)) % m

Compares(cond, l, r, w) ==
    LET sl == Signed(l, w)
        sr == Signed(r, w)
    IN  CASE cond = "eq" -> l = r [] cond = "ne" -> l # r
          [] cond = "ugt" -> l > r [] cond = "uge" -> l >= r [] cond = "ult" -> l < r [] cond = "ule" -> l <= r
          [] cond = "sgt" -> sl > sr [] cond = "sge" -> sl >= sr [] cond = "slt" -> sl < sr [] cond = "sle" -> sl <= sr

\* The first letter tells what a NaN compares to.
FCompares(cond, l, r) ==
    LET nan == NaN \in {l, r}
    IN  CASE cond = "ord" -> ~nan [] cond = "uno" -> nan
          [] cond \in {"oeq", "ueq"} -> IF nan THEN cond = "ueq" ELSE l = r
          [] cond \in {"one", "une"} -> IF nan THEN cond = "une" ELSE l # r
          [] cond \in {"ogt", "ugt"} -> IF nan THEN cond = "ugt" ELSE l > r
          [] cond \in {"oge", "uge"} -> IF nan THEN cond = "uge" ELSE l >= r
          [] cond \in {"olt", "ult"} -> IF nan THEN cond = "ult" ELSE l < r
          [] cond \in {"ole", "ule"} -> IF nan THEN cond = "ule" ELSE l <= r

\* LLVM gives the instruction a meaning.
Defined(op, l, r, w) ==
    /\ op \in Shifts \cup {"ashr"} => r < w
    /\ op \in Divisions => r # 0
    /\ op \in {"sdiv", "srem"} => ~(l = Pow2[w - 1] /\ r = Pow2[w] - 1)

-----------------------------------------------------------------------------
(* What the code supports, and where it departs from LLVM.                   *)

Supported(op, w, r) ==
    /\ op \in Narrow => Parts(w) = 1
    /\ op \in Shifts => Parts(w) <= 2 /\ r <= PartBits
    /\ op = "mul" => w <= SplitBits

Deviation(op, l, r, w, known) ==
    CASE op = "add" /\ known = "left" /\ Parts(w) = 1 /\ ShorterText(Pow2[w] - l, l) -> "minified add"
      [] op = "shl" /\ Parts(w) = 2 /\ r > PartWidth(w, 2) -> "wide shl"
      [] op = "ashr" /\ Signed(l, w) < 0 /\ l % Pow2[r] # 0 -> "ashr"
      [] op = "sdiv" /\ Truncated(Signed(l, w), Signed(r, w)) = 0 /\ (Signed(l, w) < 0) # (Signed(r, w) < 0) -> "sdiv"
      [] op = "srem" /\ Signed(r, w) < 0 /\ Signed(l, w) >= 0 -> "srem"
      [] op = "srem" /\ Signed(l, w) < 0 /\ Meaning(op, l, r, w) = 0 -> "srem"
      [] op = "mul" /\ w > ProductBits /\ w % 2 = 1 /\ ((l \div Pow2[w \div 2]) * (r \div Pow2[w \div 2])) % 2 = 1
             -> "odd width mul"
      [] op = "xor" /\ w = 1 /\ <<known, IF known = "left" THEN l ELSE r>> \in {"left", "right"} \X {0} -> "xor of one bit"
      [] OTHER -> "none"

\* Two numbers in several parts differ in a part that >= and <= compare the
\* wrong way round.
DeviatesWide(cond, pl, pr) ==
    \E i \in 2 .. Len(pl) : /\ pl[i] # pr[i]
                            /\ cond \in {"uge", "ule"} \cup (IF i < Len(pl) THEN {"sge", "sle"} ELSE {})

-----------------------------------------------------------------------------
(* What the emitted blocks compute, for every option.                        *)

\* Add, sub, shl and mul with flags that promise no overflow need not wrap.
Flagged(op, l, r, w) ==
    LET exact == CASE op \in Sums -> Apply(op, l, r) [] op = "mul" -> l * r
                   [] op = "shl" -> l * Pow2[r] [] OTHER -> -1
    IN  exact \in 0 .. Pow2[w] - 1 /\ (op \in {"mul", "shl"} => exact < Pow2[w - 1])

\* trans_bitwise_binop: part by part, the width being that of the whole number.
BitwiseParts(op, pl, pr, w, known, lookups, viaAnd) ==
    LET unknown == IF known = "left" THEN pr ELSE pl
        other == IF known = "left" THEN pl ELSE pr
    IN  [i \in 1 .. Len(pl) |-> Binop(op, unknown[i], other[i], w, known # "none", lookups, viaAnd)]

Outcomes(op, pl, pr, w, known) ==
    LET l == pl[1]
        r == pr[1]
        one(results) == {<<n>> : n \in results}
    IN  CASE op \in Sums /\ Parts(w) = 1 ->
                 one({SumDiff(op, l, r, Pow2[w], k, modIsFaster) : k \in {"none", known}, modIsFaster \in BOOLEAN}
                     \cup IF Flagged(op, l, r, w) THEN {Apply(op, l, r)} ELSE {})
          [] op \in Sums /\ Parts(w) > 1 ->
                 {WideSumDiff(op, pl, pr, w, Checkpoints(Parts(w), spacing, omitLast)) :
                     spacing \in 1 .. Min({Parts(w), 10}), omitLast \in BOOLEAN}
          [] op = "shl" -> {BitShift("left", pl, r, w, out) : out \in {TRUE, ~(Parts(w) = 1 /\ Flagged(op, l, r, w))}}
          [] op = "lshr" -> {BitShift("right", pl, r, w, out) : out \in {TRUE, l % Pow2[r] # 0}}
          [] op = "ashr" -> one({AShr(l, r, w)})
          [] op = "mul" -> one({MultiplyWrap(l, r, w)} \cup IF Flagged(op, l, r, w) THEN {l * r} ELSE {})
          [] op = "udiv" -> one({FloorDiv(l, r)})
          [] op = "urem" -> one({Mod(l, r)})
          [] op = "sdiv" -> one({SignedDiv(l, r, w)} \cup
                                IF Meaning("srem", l, r, w) = 0 THEN {SignedDivExact(l, r, w)} ELSE {})
          [] op = "srem" -> one({SignedRem(l, r, w)})
          [] op \in Bitwise2 ->
                 {BitwiseParts(op, pl, pr, w, known, lookups, viaAnd) :
                     lookups \in {{}, 0 .. w, {at \in 0 .. w : at % 2 = 1}}, viaAnd \in BOOLEAN}
          [] op = "abs" -> one({Abs(l, w)})
          [] op \in Extremes -> one({MinMax(op, l, r, w)})
          [] op \in Saturate -> one({Saturating(op, l, r, w)})

-----------------------------------------------------------------------------
Init == /\ width \in Widths \cup {0}
        /\ value \in IF width = 0 THEN Doubles ELSE Operands[width]
        /\ parts = IF width = 0 THEN <<value>> ELSE Split(value, width)

Finite(x) == -Infinity < x /\ x < Infinity

Become(w, v, ps) == width' = w /\ value' = v /\ parts' = ps

\* The register is the left or the right operand, the other a constant or not.
WithOperand(Step(_, _, _, _, _)) ==
    \E n \in Operands[width], constant \in BOOLEAN :
        \/ Step(value, n, parts, Split(n, width), IF constant THEN "right" ELSE "none")
        \/ Step(n, value, Split(n, width), parts, IF constant THEN "left" ELSE "none")

BinaryOp ==
    /\ width # 0
    /\ \E op \in Binary :
           LET Step(l, r, pl, pr, known) ==
                   /\ Defined(op, l, r, width) /\ Supported(op, width, r)
                   /\ Deviation(op, l, r, width, known) \in {"none"} \cup Deviations
                   /\ \E ps \in Outcomes(op, pl, pr, width, known) : Become(width, Meaning(op, l, r, width), ps)
           IN  WithOperand(Step)

ICmpStep ==
    /\ width # 0
    /\ \E cond \in Conds, compilerOpt \in BOOLEAN :
           LET Step(l, r, pl, pr, known) ==
                   /\ DeviatesWide(cond, pl, pr) => "wide icmp" \in Deviations
                   /\ Become(1, Number(Compares(cond, l, r, width)),
                             <<Number(IF Parts(width) > 1 THEN LargeIntCompare(cond, pl, pr, width)
                                      ELSE ICmp(cond, pl[1], pr[1], width, known, compilerOpt))>>)
           IN  WithOperand(Step)

\* Conversions whose result has one part.
Convert ==
    \E w \in {v \in Widths : Parts(v) = 1} :
        \/ /\ 0 < w /\ w < width
           /\ Become(w, value % Pow2[w], <<Trunc(parts, w)>>)
        \/ /\ 0 < width /\ width < w
           /\ Become(w, value, parts)
        \/ /\ 0 < width /\ width < w
           /\ Become(w, Signed(value, width) % Pow2[w], <<SExt(parts[1], width, w)>>)
        \/ /\ width = 0 /\ Finite(value) /\ Truncated(value, 2) \in -Pow2[w - 1] .. Pow2[w - 1] - 1
           /\ Become(w, Truncated(value, 2) % Pow2[w], <<FPToSI(parts[1], w)>>)
        \/ /\ width = 0 /\ Finite(value) /\ Truncated(value, 2) \in 0 .. Pow2[w] - 1
           /\ value >= 0 \/ "fptoui" \in Deviations
           /\ Become(w, Truncated(value, 2), <<FPToUI(parts[1])>>)

ToDouble ==
    /\ width # 0 /\ Parts(width) = 1 /\ 2 * Signed(value, width) \in Doubles
    /\ Finite(2 * Signed(value, width))
    /\ Become(0, 2 * Signed(value, width), <<SIToFP(parts[1], width)>>)

Select ==
    /\ width = 1
    /\ \E w \in {v \in Widths : Parts(v) = 1} : \E t, f \in Operands[w] :
           Become(w, IF value = 1 THEN t ELSE f, <<SelectKnown(parts[1], t, f)>>)

Remainder(l, r, pl, pr, known) ==
    /\ r # 0 /\ Finite(l) /\ Finite(r)
    /\ Mod(l, r) # 0 \/ l * r > 0 \/ (l = 0 /\ known # "left") \/ "frem" \in Deviations
    /\ Become(0, l - r * Truncated(l, r), <<FRem(pl, pr, known)>>)

FloatOp ==
    /\ width = 0
    /\ \E n \in Doubles :
           \/ \E cond \in FConds : \/ Become(1, Number(FCompares(cond, value, n)), <<Number(FCmp(cond, parts[1], n))>>)
                                   \/ Become(1, Number(FCompares(cond, n, value)), <<Number(FCmp(cond, n, parts[1]))>>)
           \/ \E known \in {"none", "right"} : Remainder(value, n, parts[1], n, known)
           \/ \E known \in {"none", "left"} : Remainder(n, value, n, parts[1], known)

Next == BinaryOp \/ ICmpStep \/ Convert \/ ToDouble \/ Select \/ FloatOp

Spec == Init /\ [][Next]_vars

-----------------------------------------------------------------------------
(* Correctness.                                                              *)

\* Whatever instructions came before, the variables hold a number of the
\* register's type: every part is in its range, so that comparisons, carries
\* and addresses made from it can rely on it.
TypeOK ==
    \/ width = 0 /\ parts \in {<<x>> : x \in Doubles}
    \/ /\ width \in Widths
       /\ Len(parts) = Parts(width)
       /\ \A i \in 1 .. Len(parts) : parts[i] \in 0 .. Pow2[PartWidth(width, i)] - 1

\* The variables hold the number LLVM says, after sums over several parts with
\* their carries, shifts across parts, products of halves, tables and masks,
\* divisions, signed comparisons and conversions in any order.
SameNumber == parts = IF width = 0 THEN <<value>> ELSE Split(value, width)

\* No step on the way to a product reaches the integers that a double cannot
\* tell apart.
ExactProducts ==
    width # 0 /\ width <= SplitBits /\ Parts(width) = 1 =>
        \A n \in Operands[width] : \A i \in 1 .. 4 :
            i <= Len(ProductSteps(value, n, width)) => ProductSteps(value, n, width)[i] < Pow2[DoubleBits]
=============================================================================
