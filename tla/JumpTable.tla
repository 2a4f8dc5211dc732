------------------------------ MODULE JumpTable ------------------------------
(* The nested conditions that choose among numbered branches: for switches,   *)
(* return addresses, function pointers and the blocks of a function in branch *)
(* jump table mode (binary_search_jump_table, src/src/compiler/translate.rs). *)
EXTENDS Integers, Sequences, FiniteSetsExt, SequencesExt, Sorting

\* What runs where the table has no branch and no default.
Nothing == "nothing"

\* Branches are a function of their numbers, in the order of a BTreeMap.
Keys(branches) == Sorted(DOMAIN branches)

\* Where the search of branches ends: most callers make it 1 at least.
Highest(branches) == Cardinality(DOMAIN branches) - 1
HighestOr1(branches) == Max({Highest(branches), 1})

\* The numbers still to choose from are those at lo to hi; the value is known to
\* be min at least and max at most, if they are given.
Unlimited == -1
Between(lo, hi, min, max) == [lo |-> lo, hi |-> hi, min |-> min, max |-> max]

\* What a comparison with the number in the middle leaves, unless none is there.
Middle(range) == (range.lo + range.hi) \div 2
Narrowed(value, keys, range) ==
    LET mid == Middle(range)
        key == keys[mid + 1]
    IN  IF mid >= Len(keys) \/ range.lo = range.hi THEN range
        ELSE IF value > key THEN [range EXCEPT !.lo = mid + 1, !.min = key + 1]
        ELSE [range EXCEPT !.hi = mid, !.max = key]

\* The last comparison, for a default, is left out where it is known to hold.
Chosen(value, branches, default, range) ==
    LET key == Keys(branches)[Middle(range) + 1]
    IN  IF Middle(range) >= Cardinality(DOMAIN branches) THEN default
        ELSE IF default = Nothing \/ <<range.min, range.max>> = <<key, key>> \/ value = key
        THEN branches[key] ELSE default

\* The branch the conditions between the numbers at lo and hi lead to.
Search(value, branches, default, min, max, lo, hi) ==
    LET keys == Keys(branches)
        range[n \in Nat] == IF n = 0 THEN Between(lo, hi, min, max) ELSE Narrowed(value, keys, range[n - 1])
    IN  Chosen(value, branches, default, range[hi - lo])

BinarySearch(value, branches, hi) == Search(value, branches, Nothing, Unlimited, Unlimited, 0, hi)
=============================================================================
