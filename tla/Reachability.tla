---------------------------- MODULE Reachability ----------------------------
(* What the edges of a graph lead to; next gives each node's successors.  The *)
(* compiler asks it of the blocks of a function and of the call graph.        *)

\* Reached(next, n) is what one or more edges from n lead to: the least set
\* that has the successors of n and those of its members.
Closed(next, S)  == \A n \in S : next[n] \subseteq S
Reached(next, n) ==
    {m \in DOMAIN next : \A S \in SUBSET DOMAIN next :
                            next[n] \subseteq S /\ Closed(next, S) => m \in S}
=============================================================================
