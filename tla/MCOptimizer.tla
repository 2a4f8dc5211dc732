---------------------------- MODULE MCOptimizer -----------------------------
(* a and b belong to main; g and sp are shared with the procedures.           *)
EXTENDS Toolchain

MCPrices == [num |-> 0, var |-> 6, param |-> 6, now |-> 10000, counter |-> 8, item |-> 28,
             add |-> 10, lt |-> 10, not |-> 4, set |-> 34]

a == Var("a")
b == Var("b")
g == Var("g")

\* SB3_wait
TimedWait == <<Assign("a", Op("add", Now, Param)), Until(Op("lt", a, Now), <<Wait>>)>>

MCFragments ==
    {<<x>> : x \in
        {Assign("a", v) : v \in {Num(0), g, Item(Num(1))}}
        \cup {Assign("b", v) : v \in {Op("add", a, g), Op("lt", a, Num(1)), Var("sp")}}
        \cup {Assign("g", a), Change("g", Num(1)), Replace(Num(1), g)}
        \cup {Say(a)}
        \cup {Call("p", a), Call("q", Num(1))}
        \cup {If(Op("lt", a, Num(1)), <<Change("g", Num(1)), Say(a)>>),
              IfElse(<<"not", b>>, <<Say(a), Say(b)>>, <<Assign("g", Num(2)), Say(b)>>),
              Repeat(a, <<Say(a), Call("p", g)>>)}}
    \cup {TimedWait, <<If(b, <<Call("p", Num(1)), Stop>>), Say(b)>>}

\* With a block for each, or with the counter.
MCProcedures ==
    {[p |-> <<Change("sp", Num(-1)), Replace(Num(2), Param), Call("q", Param), Change("sp", Num(1))>>,
      q |-> <<Change("g", Param), ForEach("i", Num(2), <<Replace(Var("i"), Op("add", Item(Var("i")), g))>>)>>],
     [p |-> <<CountUp, Change("sp", Num(-1)), Call("q", Param), Change("sp", Num(1))>>,
      q |-> <<CountUp, Until(<<"not", Op("lt", Num(2), Counter)>>, <<Replace(Num(1), Op("add", Counter, g)), ResetCounter>>)>>]}

MCOrder == <<"main", "p", "q">>

\* Replacing a block for each does not keep what it does.
UsesForEach(project)   == "foreach" \in {block.op : block \in Range(project["q"])}
MCAllowHacked(project) == IF UsesForEach(project) THEN {TRUE} ELSE BOOLEAN

ForEachReplaced == {project \in MCProcedures : UsesForEach(project)}
NeverHacked(project) == {FALSE}

MCStores == {[vars |-> [x \in {"a", "b", "g", "i", "sp", COUNTER_REPLACEMENT_NAME} |-> CASE x = "g" -> n [] x = COUNTER_REPLACEMENT_NAME -> 0 [] OTHER -> 5],
              list |-> <<n + 1, 7>>, param |-> 1] : n \in 0 .. 1}
=============================================================================
