----------------------------- MODULE KnownValue -----------------------------
(* simplify_value (src/src/optimizer/known_value_prop.rs): an expression of  *)
(* the Scratch project is simplified pass by pass until a pass changes       *)
(* nothing.  A pass simplifies the operands first and then applies the first *)
(* rule that fits.                                                           *)
(*                                                                          *)
(* Numbers are integers: what rounding, NaN, infinities and strings do is    *)
(* left out, and so are the lists whose items are looked up.                 *)
EXTENDS Integers, Sequences

CONSTANTS
    Sources,  \* the expressions considered
    Envs      \* values of the variables: Envs is a set of functions

VARIABLES source, value, done

vars == <<source, value, done>>

Num(n)  == <<"num", n>>
Bool(b) == <<"bool", b>>
Var(x)  == <<"var", x>>

Sums        == {"add", "sub"}
Binary      == Sums \cup {"mul", "mod"}
Comparisons == {"eq", "lt", "gt"}

Known(v)  == v[1] \in {"num", "bool"}
Number(v) == IF v[1] = "num" THEN v[2] ELSE IF v[2] THEN 1 ELSE 0
Truth(v)  == IF v[1] = "bool" THEN v[2] ELSE v[2] # 0

\* get_known_and_unknown_op: exactly one operand is known.
HalfKnown(v)   == v[1] \in Binary \cup Comparisons /\ (Known(v[2]) \/ Known(v[3]))
LeftKnown(v)   == Known(v[2])
KnownPart(v)   == IF Known(v[2]) THEN v[2] ELSE v[3]
UnknownPart(v) == IF Known(v[2]) THEN v[3] ELSE v[2]

NoRule == << >>

-----------------------------------------------------------------------------
(* simplify_op.                                                              *)

\* scratch_mod: the sign is that of the divisor.
ScratchMod(m, n) == IF n > 0 THEN m % n ELSE -((-m) % (-n))

\* Faulty: a product is not folded.
FoldNoProduct(v) ==
    IF v[1] \in Sums \cup {"mod"} /\ Known(v[2]) /\ Known(v[3])
    THEN LET m == Number(v[2])
             n == Number(v[3])
         IN  Num(CASE v[1] = "add" -> m + n [] v[1] = "sub" -> m - n
                   [] v[1] = "mod" -> ScratchMod(m, n))
    ELSE IF v[1] \in {"btf", "abs"} /\ Known(v[2])
    THEN LET m == Number(v[2]) IN Num(IF v[1] = "abs" /\ m < 0 THEN -m ELSE m)
    ELSE NoRule

\* All operands are known.
Fold(v) ==
    IF v[1] \in Binary /\ Known(v[2]) /\ Known(v[3])
    THEN LET m == Number(v[2])
             n == Number(v[3])
         IN  Num(CASE v[1] = "add" -> m + n [] v[1] = "sub" -> m - n
                   [] v[1] = "mul" -> m * n [] v[1] = "mod" -> ScratchMod(m, n))
    ELSE IF v[1] \in {"btf", "abs"} /\ Known(v[2])
    THEN LET m == Number(v[2]) IN Num(IF v[1] = "abs" /\ m < 0 THEN -m ELSE m)
    ELSE NoRule

\* x + 0, 0 + x, x - 0.
DropZero(v) ==
    IF v[1] \in Sums /\ HalfKnown(v) /\ Number(KnownPart(v)) = 0
       /\ ~(v[1] = "sub" /\ LeftKnown(v))
    THEN UnknownPart(v) ELSE NoRule

\* A sum of a number and a sum with a number in it, with every combination of
\* signs and sides.  If the two numbers cancel the inner sum is all that
\* remains, its number included.
Combine(v) ==
    IF v[1] \in Sums /\ HalfKnown(v)
       /\ UnknownPart(v)[1] \in Sums /\ HalfKnown(UnknownPart(v))
    THEN LET inner == UnknownPart(v)
             negated(e) == e[1] = "sub" /\ ~LeftKnown(e)  \* e subtracts its number
             turned(e)  == e[1] = "sub" /\ LeftKnown(e)   \* e subtracts the rest
             sign(b) == IF b THEN -1 ELSE 1
             sum == Number(KnownPart(v)) * sign(negated(v))
                    + Number(KnownPart(inner)) * sign(negated(inner)) * sign(turned(v))
         IN  CASE turned(v) # turned(inner) -> <<"sub", Num(sum), UnknownPart(inner)>>
               [] turned(v) = turned(inner) /\ sum = 0 -> inner
               [] turned(v) = turned(inner) /\ sum > 0 -> <<"add", UnknownPart(inner), Num(sum)>>
               [] turned(v) = turned(inner) /\ sum < 0 -> <<"sub", UnknownPart(inner), Num(-sum)>>
    ELSE NoRule

-----------------------------------------------------------------------------
(* simplify_bool_op.                                                         *)

SimplifyNot(v) ==
    IF v[1] # "not" THEN NoRule
    ELSE IF v[2][1] = "bool" THEN Bool(~v[2][2])
    ELSE IF v[2][1] = "not" THEN v[2][2] ELSE NoRule

Compare(op, m, n) == CASE op = "eq" -> m = n [] op = "lt" -> m < n [] op = "gt" -> m > n
                       [] op = "le" -> m <= n [] op = "ge" -> m >= n

Decide(v) ==
    IF v[1] \in Comparisons /\ Known(v[2]) /\ Known(v[3])
    THEN Bool(Compare(v[1], Number(v[2]), Number(v[3])))
    ELSE NoRule

\* and, or with at least one known operand.
ShortCircuit(v) ==
    IF v[1] \in {"and", "or"} /\ (Known(v[2]) \/ Known(v[3]))
    THEN LET settles == v[1] = "or"   \* the operand that decides the result
         IN  IF \E i \in 2 .. 3 : Known(v[i]) /\ Truth(v[i]) = settles THEN Bool(settles)
             ELSE IF ~Known(v[2]) THEN v[2] ELSE IF ~Known(v[3]) THEN v[3] ELSE Bool(~settles)
    ELSE NoRule

\* The sum that a number is compared with, before it was simplified, when it has
\* a number in it that can be moved: a sum, not a number less something.
Moves(v, original) ==
    /\ v[1] \in Comparisons /\ HalfKnown(v) /\ UnknownPart(v)[1] \in Sums
    /\ HalfKnown(original) /\ HalfKnown(UnknownPart(original))
    /\ ~(UnknownPart(original)[1] = "sub" /\ LeftKnown(UnknownPart(original)))

\* Faulty: the sign is that of the simplified sum.
MoveAcrossMixed(v, original) ==
    IF Moves(v, original)
    THEN LET sum == UnknownPart(original)
             added == IF UnknownPart(v)[1] = "add" THEN Number(KnownPart(sum)) ELSE -Number(KnownPart(sum))
             n == Number(KnownPart(original)) - added
         IN  IF LeftKnown(original) THEN <<v[1], Num(n), UnknownPart(sum)>>
             ELSE <<v[1], UnknownPart(sum), Num(n)>>
    ELSE NoRule

\* A number is compared with a sum that has a number in it: x + 1 < 3.  Whether
\* it is one is asked of the simplified operands, and what is moved is taken from
\* the original ones, whose simplification is lost.
MoveAcross(v, original) ==
    IF Moves(v, original)
    THEN LET sum == UnknownPart(original)
             added == IF sum[1] = "add" THEN Number(KnownPart(sum)) ELSE -Number(KnownPart(sum))
             n == Number(KnownPart(original)) - added
         IN  IF LeftKnown(original) THEN <<v[1], Num(n), UnknownPart(sum)>>
             ELSE <<v[1], UnknownPart(sum), Num(n)>>
    ELSE NoRule

\* Faulty: the comparison becomes its operand, number or not.
CompareTruthAsNumber(v) ==
    IF v[1] \in Comparisons /\ HalfKnown(v) /\ UnknownPart(v)[1] = "btf"
    THEN UnknownPart(v)
    ELSE NoRule

\* A number is compared with a truth value as a number: only 0 and 1 need be
\* tried.  With the number on the left the comparison is turned round, < into
\* >= and > into <=.
CompareTruth(v) ==
    IF v[1] \in Comparisons /\ HalfKnown(v) /\ UnknownPart(v)[1] = "btf"
    THEN LET op == IF ~LeftKnown(v) \/ v[1] = "eq" THEN v[1]
                   ELSE IF v[1] = "lt" THEN "ge" ELSE "le"
             holds(n) == Compare(op, n, Number(KnownPart(v)))
             truth == UnknownPart(v)[2]
         IN  IF holds(1) = holds(0) THEN Bool(holds(1))
             ELSE IF holds(1) THEN truth ELSE <<"not", truth>>
    ELSE NoRule

-----------------------------------------------------------------------------
(* partial_simplify_value and simplify_value.                                *)

Result(v, changed) == [value |-> v, changed |-> changed]

\* Rules are tried in this order; Combine and DropZero wait for a pass that
\* leaves the operands alone.
FirstRule(v, original, operandsChanged) ==
    LET rules == <<Fold(v), SimplifyNot(v), Decide(v), ShortCircuit(v), MoveAcross(v, original), CompareTruth(v)>>
                 \o (IF operandsChanged THEN << >> ELSE <<DropZero(v), Combine(v)>>)
        fitting == SelectSeq(rules, LAMBDA w : w # NoRule)
    IN  IF fitting = << >> THEN NoRule ELSE fitting[1]

\* What becomes of v when its operands have been simplified.  An operator that
\* cannot be folded, with an operand that turns out to be known, is left as it
\* was: its operand is not replaced.
Rewrite(v, operands) ==
    LET changed == \E i \in DOMAIN operands : operands[i].changed
        rebuilt == <<v[1]>> \o [i \in DOMAIN operands |-> operands[i].value]
        new     == FirstRule(rebuilt, v, changed)
    IN  IF v[1] = "other" /\ Known(rebuilt[2]) THEN Result(v, FALSE)
        ELSE IF new # NoRule THEN Result(new, TRUE) ELSE Result(rebuilt, changed)

\* Faulty: a product always counts as changed.
RECURSIVE PartialSimplifyProduct(_)
PartialSimplifyProduct(v) ==
    IF v[1] \in {"num", "bool", "var"} THEN Result(v, FALSE)
    ELSE CHOOSE r \in {[Rewrite(v, SubSeq(<<left, right>>, 1, Len(v) - 1)) EXCEPT !.changed = @ \/ v[1] = "mul"] :
                           left  \in {PartialSimplifyProduct(v[2])},
                           right \in {PartialSimplifyProduct(v[Len(v)])}} : TRUE

\* One pass over v, operands first.  The sets have one element each.
RECURSIVE PartialSimplify(_)
PartialSimplify(v) ==
    IF v[1] \in {"num", "bool", "var"} THEN Result(v, FALSE)
    ELSE CHOOSE r \in {Rewrite(v, SubSeq(<<left, right>>, 1, Len(v) - 1)) :
                           left  \in {PartialSimplify(v[2])},
                           right \in {PartialSimplify(v[Len(v)])}} : TRUE

Init == source \in Sources /\ value = source /\ done = FALSE

Pass == /\ ~done
        /\ LET result == PartialSimplify(value)
           IN  value' = result.value /\ done' = ~result.changed
        /\ UNCHANGED source

Spec     == Init /\ [][Pass]_vars
FairSpec == Spec /\ WF_vars(Pass)

-----------------------------------------------------------------------------
(* Correctness.                                                              *)

\* What kind of value an expression has: operands are of the kind their
\* operator takes.
RECURSIVE Sort(_)
Sort(v) ==
    LET all(kind) == \A i \in 2 .. Len(v) : Sort(v[i]) = kind
    IN  CASE v[1] \in {"num", "var"} -> "number"
          [] v[1] = "bool" -> "truth"
          [] v[1] \in Binary \cup {"abs", "other"} -> IF all("number") THEN "number" ELSE "mixed"
          [] v[1] = "btf" -> IF all("truth") THEN "number" ELSE "mixed"
          [] v[1] \in Comparisons -> IF all("number") THEN "truth" ELSE "mixed"
          [] v[1] \in {"and", "or", "not"} -> IF all("truth") THEN "truth" ELSE "mixed"

\* What Scratch computes.
RECURSIVE Eval(_, _)
Eval(v, env) ==
    LET a == Eval(v[2], env)
        b == Eval(v[3], env)
    IN  CASE v[1] \in {"num", "bool"} -> v[2]
          [] v[1] = "var" -> env[v[2]]
          [] v[1] = "add" -> a + b
          [] v[1] = "sub" -> a - b
          [] v[1] = "mul" -> a * b
          [] v[1] = "mod" -> a - b * (IF b < 0 THEN (-a) \div (-b) ELSE a \div b)
          [] v[1] = "abs" -> IF a < 0 THEN -a ELSE a
          [] v[1] = "other" -> 7 * a + 3
          [] v[1] = "btf" -> IF a THEN 1 ELSE 0
          [] v[1] = "eq"  -> a = b
          [] v[1] = "lt"  -> a < b
          [] v[1] = "gt"  -> a > b
          [] v[1] = "and" -> a /\ b
          [] v[1] = "or"  -> a \/ b
          [] v[1] = "not" -> ~a

\* The subterms the passes reach: what is below an operator that cannot be
\* folded may stay as it is.
RECURSIVE Subterms(_)
Subterms(v) ==
    {v} \cup IF v[1] \in {"num", "bool", "var", "other"} THEN {}
             ELSE UNION {Subterms(v[i]) : i \in 2 .. Len(v)}

\* No pass makes a number of a truth value or a truth value of a number: every
\* operator keeps the kind of operand it computes with.
TypeOK == done \in BOOLEAN /\ Sort(value) = Sort(source)

\* After any number of passes the expression still has the value it had in
\* the project, whatever the variables are: signs, sides and comparisons are
\* never confused when constants are moved and combined.
SameValue == \A env \in Envs : Eval(value, env) = Eval(source, env)

\* When the passes end no operation on known operands is left, no zero added,
\* no two numbers in one sum, no double negation: the rules, each of which
\* waits for others in the same or in a later pass, do not block each other.
Folded ==
    done => \A v \in Subterms(value) :
                /\ v[1] \in Binary \cup Comparisons => ~(Known(v[2]) /\ Known(v[3]))
                /\ v[1] \in {"and", "or", "not", "btf", "abs"} => \A i \in 2 .. Len(v) : ~Known(v[i])
                /\ v[1] \in Sums /\ HalfKnown(v) =>
                       ~(UnknownPart(v)[1] \in Sums /\ HalfKnown(UnknownPart(v)))
                /\ v[1] = "add" => Num(0) \notin {v[2], v[3]}
                /\ v[1] = "not" => v[2][1] # "not"

\* The passes end: no two rules undo each other.
Terminates == <>done
=============================================================================
