------------------------------ MODULE MCCalls ------------------------------
(* Programs for Calls: every way a call is translated.  "main" calls "f".    *)
EXTENDS CallsInvariant

V == {0, 1}

Main == [params |-> << >>, first |-> "b", body |-> [b |-> <<Op("x", {}), Invoke("y", "f", <<"x">>)>>],
         term |-> [b |-> Term({"y"}, {})]]

\* A second call with the result of the first, in another block.
MainTwice ==
    [params |-> << >>, first |-> "b",
     body |-> [b |-> <<Op("x", {}), Invoke("y", "f", <<"x">>)>>,
               c |-> <<Invoke("z", "f", <<"y">>), Op("w", {"x", "y", "z"})>>],
     term |-> [b |-> Term({}, {"c"}), c |-> Term({"w"}, {})]]

\* Nothing recursive; the parameter is needed after a branch and a call.
Leaf == [params |-> <<"n">>, first |-> "b", body |-> [b |-> <<Op("m", {"n"})>>],
         term |-> [b |-> Term({"m"}, {})]]
Plain ==
    [main |-> MainTwice, g |-> Leaf,
     f |-> [params |-> <<"n">>, first |-> "b",
            body |-> [b |-> <<Op("c", {"n"}), Invoke("d", "g", <<"c">>)>>,
                      e |-> <<Invoke("h", "g", <<"n">>), Op("i", {"n", "c", "d", "h"})>>],
            term |-> [b |-> Term({"c"}, {"e"}), e |-> Term({"i"}, {})]]]

\* Recursion at the end of a block, with nothing needed afterwards.
TailRecursion ==
    [main |-> MainTwice,
     f |-> [params |-> <<"n">>, first |-> "b",
            body |-> [b |-> <<Op("c", {"n"})>>, r |-> <<Invoke("d", "f", <<"c">>)>>, e |-> << >>],
            term |-> [b |-> Term({"c"}, {"r", "e"}), r |-> Term({"d"}, {}), e |-> Term({"n"}, {})]]]

\* Recursion in a function with a loop, which returns to an address; after
\* the call a variable, the result and the parameter are needed.
InLoop ==
    [main |-> Main,
     f |-> [params |-> <<"n">>, first |-> "b",
            body |-> [b |-> <<Op("a", {"n"})>>,
                      l |-> <<Op("c", {"a"}), Invoke("d", "f", <<"c">>), Op("e", {"a", "c", "d"})>>,
                      x |-> << >>],
            term |-> [b |-> Term({"a"}, {"l", "x"}), l |-> Term({"e"}, {"l", "x"}),
                      x |-> Term({"n"}, {})]]]

\* A function that returns to an address, called twice, and one it calls.
Loop ==
    [main |-> [params |-> << >>, first |-> "a",
               body |-> [a |-> <<Op("x", {})>>,
                         b |-> <<Invoke("y", "f", <<"x">>)>>,
                         c |-> <<Invoke("z", "f", <<"y">>), Op("w", {"x", "y", "z"})>>],
               term |-> [a |-> Term({}, {"b"}), b |-> Term({}, {"c"}), c |-> Term({"w"}, {})]],
     g |-> Leaf,
     f |-> [params |-> <<"n">>, first |-> "b",
            body |-> [b |-> << >>, l |-> <<Invoke("c", "g", <<"n">>)>>, x |-> << >>],
            term |-> [b |-> Term({}, {"l"}), l |-> Term({"c"}, {"l", "x"}), x |-> Term({"n"}, {})]]]

\* Pointers to a function that returns to an address and to one that does not,
\* called twice; one of them is also called by its name, and a pointer there is
\* only one function for.
Spin == [params |-> <<"n">>, first |-> "b", body |-> [b |-> << >>, l |-> <<Op("m", {"n"})>>, x |-> << >>],
         term |-> [b |-> Term({}, {"l"}), l |-> Term({"m"}, {"l", "x"}), x |-> Term({"n"}, {})]]
Pointers ==
    [main |-> [params |-> << >>, first |-> "b",
               body |-> [b |-> <<Op("x", {}), Take("p", {"f", "g"})>>,
                         c |-> <<InvokePointer("y", "p", <<"x">>), InvokePointer("z", "p", <<"y">>)>>,
                         e |-> <<Invoke("w", "g", <<"z">>), Take("q", {"h"}), InvokePointer("v", "q", << >>)>>],
               term |-> [b |-> Term({}, {"c"}), c |-> Term({}, {"c", "e"}), e |-> Term({"v"}, {})]],
     f |-> Leaf, g |-> Spin,
     h |-> [params |-> << >>, first |-> "b", body |-> [b |-> <<Op("m", {})>>], term |-> [b |-> Term({"m"}, {})]]]

\* A function that is called through a pointer and calls itself through one.
PointerRecursion ==
    [main |-> [params |-> << >>, first |-> "b",
               body |-> [b |-> <<Op("x", {}), Take("p", {"f", "g"})>>,
                         c |-> <<InvokePointer("y", "p", <<"x">>)>>],
               term |-> [b |-> Term({}, {"c"}), c |-> Term({"y"}, {})]],
     f |-> [params |-> <<"n">>, first |-> "b",
            body |-> [b |-> <<Take("p", {"f", "g"}), InvokePointer("d", "p", <<"n">>)>>],
            term |-> [b |-> Term({"d"}, {})]],
     g |-> Spin]

\* Recursion by name, after which the next block calls through a pointer.
PointerKept ==
    [main |-> Main, g |-> Leaf, h |-> Leaf,
     f |-> [params |-> <<"n">>, first |-> "b",
            body |-> [b |-> <<Take("p", {"g", "h"})>>, l |-> <<Invoke("d", "f", <<"n">>)>>,
                      c |-> <<InvokePointer("e", "p", <<"d">>)>>, x |-> << >>, y |-> << >>],
            term |-> [b |-> Term({}, {"l", "x"}), l |-> Term({"d"}, {"c"}), c |-> Term({"e"}, {"x"}),
                      x |-> Term({"n"}, {"x", "y"}), y |-> Term({"n"}, {})]]]

\* Nothing called through the pointers returns to an address.
Leaves == [main |-> [Pointers.main EXCEPT !.term = [@ EXCEPT !.c = Term({}, {"e"})]],
           f |-> Leaf, h |-> Pointers.h,
           g |-> [params |-> <<"n">>, first |-> "b", body |-> [b |-> <<Op("c", {"n"})>>, e |-> <<Invoke("d", "f", <<"c">>)>>],
                  term |-> [b |-> Term({"c"}, {"e"}), e |-> Term({"d"}, {})]]]

\* Switches: with and without gaps, and with every value a case of its own.
Switching(cases) ==
    [main |-> [params |-> << >>, first |-> "b",
               body |-> [b |-> <<Pick("x", 0 .. 3)>>, c |-> <<Op("y", {"x"})>>, e |-> << >>, l |-> << >>, r |-> << >>],
               term |-> [b |-> Switch("x", 3, cases, "e"), c |-> Term({"y"}, {}), e |-> Term({"x"}, {}),
                         l |-> Term({}, {"c"}), r |-> Term({"x"}, {})]]]
Switches == {Switching(cases) : cases \in {2 :> "c", 0 :> "c" @@ 3 :> "l", 1 :> "c" @@ 2 :> "l" @@ 3 :> "r",
                                       0 :> "r" @@ 1 :> "c" @@ 2 :> "l" @@ 3 :> "r"}}

MCPointer == [f |-> 10, g |-> 11, h |-> 12]

Both == {Plain, TailRecursion, InLoop, Loop, Pointers, PointerRecursion, Leaves, PointerKept} \cup Switches

\* Recursion in a block of its own, as in a compiled factorial: the parameter
\* is needed after the call.
Recursion ==
    {[main |-> Main,
      f |-> [params |-> <<"n">>, first |-> "b",
             body |-> [b |-> <<Op("c", {"n"})>>,
                       r |-> <<Op("d", {"n"}), Invoke("e", "f", <<"d">>), Op("i", {"n", "e"})>>,
                       x |-> << >>],
             term |-> [b |-> Term({"c"}, {"r", "x"}), r |-> Term({"i"}, {}), x |-> Term({"n"}, {})]]]}

\* What is asked of the programs that the theorems are about holds of all of these
\* without recursion.
ASSUME \A mode \in BOOLEAN : \A p \in Both \cup Recursion :
           Covered(mode, p) <=> p \in {Plain, Loop, Pointers, Leaves} \cup Switches

\* By cfg.use_branch_jump_table: with them recursion keeps parameters.
Sound == TRUE :> (Both \cup Recursion) @@ FALSE :> Both
RecursiveByAddress == FALSE :> Recursion

Forward  == {<<"b", "c", "e", "h", "l", "r", "x", "y">>}
Backward == {Reverse(o) : o \in Forward}
BothWays == Forward \cup Backward
=============================================================================
