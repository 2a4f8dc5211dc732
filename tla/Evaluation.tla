----------------------------- MODULE Evaluation ------------------------------
(* Ways of writing an expression so that its parts are evaluated once.       *)
EXTENDS Integers, Sequences, SequencesExt

\* F(v), F(v, w), with the operands evaluated once however often F reads them.
Let(v, F(_)) == CHOOSE r \in {F(x) : x \in {v}} : TRUE
Let2(v, w, F(_, _)) == CHOOSE r \in {F(x, y) : x \in {v}, y \in {w}} : TRUE

\* FoldLeft(F, start, s), and the sequence of F(x) for the x of s.
Accumulated(F(_, _), start, s) ==
    LET after[i \in 0 .. Len(s)] == IF i = 0 THEN start ELSE Let2(after[i - 1], s[i], F)
    IN  after[Len(s)]

Each(F(_), s) == Accumulated(LAMBDA r, x : Append(r, F(x)), << >>, s)
=============================================================================
