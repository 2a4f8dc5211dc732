---------------------------- MODULE MCStackAlloc ----------------------------
(* Programs of four functions, each with an entry block, a loop and an exit. *)
EXTENDS StackAlloc

Fun(entry, loop, variadic) ==
    [variadic |-> variadic,
     order |-> <<"entry", "loop", "exit">>,
     body |-> [b \in {"entry", "loop", "exit"} |->
                  IF b = "entry" THEN entry ELSE IF b = "loop" THEN loop ELSE << >>],
     next |-> [b \in {"entry", "loop", "exit"} |->
                  IF b = "exit" THEN {} ELSE {"loop", "exit"}]]

Program(main, f, g, v) ==
    [n \in {"main", "f", "g", "v"} |->
        CASE n = "main" -> main [] n = "f" -> f [] n = "g" -> g [] n = "v" -> v]

\* Allocas in entry blocks only, before and after calls, in caller and callee,
\* with direct and mutual recursion; the variadic function allocates nothing.
Fixed ==
    {Program(Fun(me, ml, FALSE), Fun(fe, fl, FALSE), Fun(ge, gl, FALSE), Fun(<< >>, << >>, TRUE)) :
        me \in {<<Alloca(2)>>, <<Alloca(1), Call("f", 0), Alloca(2)>>, <<Call("v", 0), Call("f", 0)>>},
        ml \in {<< >>, <<Call("g", 0)>>, <<Call("v", 2)>>},
        fe \in {<< >>, <<Alloca(1), Alloca(2)>>, <<Alloca(2), Call("g", 0)>>},
        fl \in {<< >>, <<Call("f", 0)>>, <<Call("g", 0)>>},
        ge \in {<< >>, <<Alloca(2)>>},
        gl \in {<< >>, <<Call("f", 0)>>}}

ASSUME \A p \in Fixed : Static(p) /\ Room(p, 3)

\* A function with an alloca in a loop.
Dynamic == {Program(Fun(<<Call("f", 0), Call("g", 0)>>, << >>, FALSE), Fun(<< >>, <<Alloca(1)>>, FALSE),
                    Fun(<<Alloca(1)>>, << >>, FALSE), Fun(<< >>, << >>, TRUE))}
=============================================================================
