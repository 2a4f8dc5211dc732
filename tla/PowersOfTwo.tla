---------------------------- MODULE PowersOfTwo -----------------------------
(* Powers of two and the bits of a number, as recursive functions: about     *)
(* these, unlike ^ and the operators of Bitwise, theorems can be proved.      *)
EXTENDS Integers

\* 2f64.powi
Pow2[n \in Nat] == IF n = 0 THEN 1 ELSE 2 * Pow2[n - 1]

\* Bit i of a number, bit 0 being the lowest.
BitAt(v, i) == (v \div Pow2[i]) % 2

\* The operators &, | and ^ of Rust, on one bit and on the lowest bits of two
\* numbers.
BitOf(kind, a, b) == CASE kind = "and" -> a * b
                       [] kind = "or"  -> IF a + b > 0 THEN 1 ELSE 0
                       [] kind = "xor" -> (a + b) % 2

Bit(kind, l, r, bits) ==
    LET lowest[n \in Nat] ==
            IF n = 0 THEN 0
            ELSE lowest[n - 1] + Pow2[n - 1] * BitOf(kind, BitAt(l, n - 1), BitAt(r, n - 1))
    IN  lowest[bits]
=============================================================================
