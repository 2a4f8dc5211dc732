------------------------------ MODULE Sorting -------------------------------
(* Numbers in increasing order: the keys of a BTreeMap, a Vec that is sorted. *)
EXTENDS Integers, FiniteSets

Increasing(s) == \A i, j \in DOMAIN s : i < j => s[i] < s[j]
Sorted(S)     == CHOOSE s \in [1 .. Cardinality(S) -> S] : Increasing(s)
=============================================================================
