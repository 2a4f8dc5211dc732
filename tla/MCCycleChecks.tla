--------------------------- MODULE MCCycleChecks ---------------------------
(* Every graph on three blocks, and every graph on four in which at most the *)
(* last one branches to itself.                                              *)
EXTENDS CycleChecks

MCGraphs == [1 .. 3 -> SUBSET (1 .. 3)]
            \cup {g \in [1 .. 4 -> SUBSET (1 .. 4)] : \A n \in 1 .. 3 : n \notin g[n]}
=============================================================================
