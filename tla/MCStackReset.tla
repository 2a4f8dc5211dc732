---------------------------- MODULE MCStackReset ----------------------------
(* A program for StackReset: main loops over A, B and C and calls g twice    *)
(* in B; g loops in L and calls h; h loops in M.  What the conditions of the *)
(* branches depend on is left open, so every path is explored.  The only    *)
(* variable that matters to control is g's return address.                  *)
EXTENDS StackReset, FiniteSets, TLC

MCProc == {"main", "main:A", "main:B", "main:B:return addr 0",
           "main:B:return addr 1", "main:C", "main:end",
           "g", "g:L", "g:X", "g:X:return addr 0", "h", "h:M", "h:Y"}

MCEnv  == {0, 1}
MCEnv0 == 0

\* Branches: they leave the variables alone.
Branches == {<<"main", "main:A">>, <<"main:A", "main:B">>, <<"main:A", "main:end">>,
             <<"main:B:return addr 1", "main:A">>, <<"main:B:return addr 1", "main:C">>,
             <<"main:C", "main:B">>, <<"g", "g:L">>, <<"g:L", "g:L">>, <<"g:L", "g:X">>,
             <<"h", "h:M">>, <<"h:M", "h:M">>, <<"h:M", "h:Y">>}

\* h has one return address, called directly; g is told which one to use.
MCStep ==
    {<<<<b[1], r>>, <<b[2], r>>>> : b \in Branches, r \in MCEnv}
    \cup {<<<<"g:X", r>>, <<"h", r>>>> : r \in MCEnv}
    \cup {<<<<"h:Y", r>>, <<"g:X:return addr 0", r>>>> : r \in MCEnv}
    \cup {<<<<"main:B", r>>, <<"g", 0>>>> : r \in MCEnv}
    \cup {<<<<"main:B:return addr 0", r>>, <<"g", 1>>>> : r \in MCEnv}
    \cup {<<<<"g:X:return addr 0", 0>>, <<"main:B:return addr 0", 0>>>>,
          <<<<"g:X:return addr 0", 1>>, <<"main:B:return addr 1", 1>>>>}

MCReturns == {<<"main:end", r>> : r \in MCEnv}

\* The blocks select_cycle_checks picks in each function, in the order
\* get_fn_info appends them.
MCCheckAt == (0 :> "main:B") @@ (1 :> "g:L") @@ (2 :> "h:M")

\* The longest run of unchecked procedures after each point.
RECURSIVE Unchecked(_)
Unchecked(p) ==
    LET next == {s[2] : s \in {t \in MCStep : t[1] = p /\ t[2][1] \notin {"main:B", "g:L", "h:M"}}}
        lens == {1 + Unchecked(q) : q \in next} \cup {0}
    IN  CHOOSE n \in lens : \A m \in lens : m <= n

MCRank == [p \in MCProc \X MCEnv |-> Unchecked(p)]
MCMaxRank == CHOOSE n \in {MCRank[p] : p \in DOMAIN MCRank} :
                 \A p \in DOMAIN MCRank : MCRank[p] <= n
=============================================================================
