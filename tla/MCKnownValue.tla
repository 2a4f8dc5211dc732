---------------------------- MODULE MCKnownValue ----------------------------
(* Expressions for KnownValue, three operators deep.  No number occurs twice *)
(* in one, so that the numbers of a sum do not cancel, and a number that is  *)
(* compared with a truth value stands on the right or is tested for          *)
(* equality: the README says what the rules do otherwise.                    *)
EXTENDS KnownValue

MCEnvs == [{"x", "y"} -> -3 .. 3]

Two(Op, L, R) == {<<op, l, r>> : op \in Op, l \in L, r \in R}
One(Op, L)    == {<<op, l>> : op \in Op, l \in L}

Atoms(S)  == {Num(n) : n \in S} \cup {Var("x")}

\* x or y with three numbers, in sums, with every side and sign.
Around(Op, L, n) == Two(Op, L, {Num(n)}) \cup Two(Op, {Num(n)}, L)
Chains == Around(Sums \cup Comparisons, Around(Sums, Around(Sums, {Var("x")}, 1), 2), 4)
          \cup Around(Sums \cup Comparisons, Around(Sums, Around({"mul"}, {Var("x")}, 0), 2), 5)

\* Arithmetic, with numbers only or with variables.
Leaves  == Two(Sums \cup {"mul"}, Atoms({0, 1}), Atoms({-2, 3}))
           \cup Two({"mod"}, Atoms({1, -5}), {Num(3), Num(-2)}) \cup One({"abs", "other"}, Atoms({-5}))
Sum2    == Two(Sums \cup {"mul"} \cup Comparisons, Leaves, Atoms({7, -11}))
           \cup One({"abs", "other"}, Leaves) \cup Two({"mul", "eq"}, Leaves, Leaves)

\* Truth values, and truth values as numbers.
Truths  == {Bool(TRUE), Bool(FALSE), <<"lt", Var("x"), Num(2)>>, <<"eq", Num(1), Var("y")>>}
Logic   == Two({"and", "or"}, Truths, Truths) \cup One({"not"}, Truths)
Logic2  == Logic \cup Two({"and", "or"}, Logic, Logic) \cup One({"not"}, Logic)
Numbers == One({"btf"}, Logic)
Tests   == Two(Comparisons, Numbers, Atoms({-1, 0, 1, 2})) \cup Two({"eq"}, {Num(0), Num(1)}, Numbers)
           \cup Two(Comparisons, Two({"add"}, Numbers, {Num(3)}), {Num(3), Num(4)})

MCSources == Chains \cup Sum2 \cup Logic2 \cup Tests \cup One({"not", "btf"}, Tests)
=============================================================================
