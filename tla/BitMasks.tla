------------------------------ MODULE BitMasks ------------------------------
(* And, or and xor (src/src/compiler/binop.rs).  Scratch has no such          *)
(* operator: the bits are looked up in tables, LookupBits at a time, and a    *)
(* constant operand is taken apart so that whole groups of bits can be had    *)
(* by division and mod.  Where two ways of doing so are compared by cost,     *)
(* the outcome is a parameter.                                               *)
EXTENDS PowersOfTwo, Sequences, FiniteSetsExt

CONSTANT LookupBits     \* BINOP_LOOKUP_BITS, 8

ASSUME LookupAssumption == LookupBits \in Nat \ {0}

\* extract_bits: bits of v, counted from the top of a number of width bits.
Extract(v, width, start, bits, inPlace) ==
    LET shift == width - (start + bits)
        low == v \div Pow2[shift]
        field == IF start = 0 THEN low ELSE low % Pow2[bits]
    IN  IF inPlace THEN field * Pow2[shift] ELSE field

\* build_lookup_table_comptime drops the first entry: what is at index 0 of a
\* Scratch list reads as 0.
TableItem(kind, index) ==
    IF index = 0 THEN 0 ELSE Bit(kind, index \div Pow2[LookupBits], index % Pow2[LookupBits], LookupBits)

\* bin_op_part_via_lookup_table
LookupPart(kind, l, r, width, start) ==
    LET bits == Min({LookupBits, width - start})
        index == Extract(l, width, start, bits, FALSE) * Pow2[LookupBits]
                 + Extract(r, width, start, bits, FALSE)
    IN  TableItem(kind, index) * Pow2[width - (start + bits)]

\* bin_op_with_unknown_via_lookup_table
LookupAll(kind, l, r, width) ==
    LET sum[start \in 0 .. width + LookupBits] ==
            IF start >= width THEN 0
            ELSE LookupPart(kind, l, r, width, start) + sum[start + LookupBits]
    IN  sum[0]

\* bin_op_with_known_via_lookup_table: bits of the constant that decide the
\* result by themselves are skipped, those set by or are added at the end.
LookupKnown(kind, unknown, known, width) ==
    LET bit(i) == Extract(known, width, i, 1, FALSE)
        skipped(i) == kind # "xor" /\ bit(i) = (IF kind = "and" THEN 0 ELSE 1)
        sum[i \in 0 .. width + LookupBits] ==
            IF i >= width THEN 0
            ELSE IF skipped(i)
                 THEN (IF kind = "or" THEN Pow2[width - i - 1] ELSE 0) + sum[i + 1]
            ELSE LookupPart(kind, unknown, known, width, i) + sum[i + LookupBits]
    IN  sum[0]

\* get_known_bit_groups: runs of equal bits from the top, <<bit, length>>.
BitGroups(known, width) ==
    LET longer(groups, bit) ==
            IF groups # << >> /\ groups[Len(groups)][1] = bit
            THEN [groups EXCEPT ![Len(groups)][2] = @ + 1] ELSE Append(groups, <<bit, 1>>)
        groups[n \in 0 .. width] ==
            IF n = 0 THEN << >> ELSE longer(groups[n - 1], Extract(known, width, n - 1, 1, FALSE))
    IN  groups[width]

\* Where the groups from i on end, if group i begins at bit `at`.
Ends(groups, i, at) ==
    LET end[n \in 0 .. Len(groups)] == IF n < i THEN at ELSE end[n - 1] + groups[n][2]
    IN  end

\* One pass of and_with_known_mask_parts: group i of the constant begins at bit
\* `at`, and sum is what the groups before it contribute.  A group of ones is
\* cut out of the unknown by division and mod, unless `at` is in lookups: then
\* all groups of ones that end within LookupBits are looked up at once, and the
\* lengths of the last groups touched are adjusted.
AndPass(unknown, known, width, lookups, s) ==
    LET groups == s.groups
        length == groups[s.i][2]
        end    == Min({s.at + LookupBits, width})
        ends   == Ends(groups, s.i, s.at)
        last   == Min({k \in s.i .. Len(groups) : ends[k] >= end \/ k = Len(groups)})
        whole  == {k \in s.i .. last : groups[k][1] = 1 /\ ends[k] <= end}
        cut    == groups[last][2] - (ends[last] - end)
        moved  == [k \in DOMAIN groups |-> CASE k = last     -> <<groups[k][1], groups[k][2] - cut>>
                                              [] k = last - 1 -> <<groups[k][1], groups[k][2] + cut>>
                                              [] OTHER        -> groups[k]]
        region == Max(whole)
        next   == ends[region - 1] + moved[region][2] + (IF region >= last THEN cut ELSE 0)
        skip   == [s EXCEPT !.i = @ + 1, !.at = @ + length]
    IN  CASE s.at >= width -> s
          [] s.at < width /\ groups[s.i][1] = 0 -> skip
          [] s.at < width /\ groups[s.i][1] = 1 /\ s.at \in lookups /\ whole # {} ->
                 [groups |-> moved, i |-> region + 1, at |-> next,
                  sum |-> s.sum + LookupPart("and", unknown, known, width, s.at)]
          [] s.at < width /\ groups[s.i][1] = 1 /\ ~(s.at \in lookups /\ whole # {}) ->
                 [skip EXCEPT !.sum = @ + Extract(unknown, width, s.at, length, TRUE)]

\* Every pass takes a group or more.
AndKnown(unknown, known, width, lookups) ==
    LET first == [groups |-> BitGroups(known, width), i |-> 1, at |-> 0, sum |-> 0]
        after[n \in Nat] == IF n = 0 THEN first ELSE AndPass(unknown, known, width, lookups, after[n - 1])
    IN  after[Len(first.groups)].sum

\* or_with_known_mask, xor_with_known_mask: through and, or by a table of their
\* own, whichever is cheaper.
OrKnown(unknown, known, width, lookups, viaAnd) ==
    IF viaAnd THEN AndKnown(unknown, Pow2[width] - 1 - known, width, lookups) + known
    ELSE LookupKnown("or", unknown, known, width)

XorKnown(unknown, known, width, lookups, viaAnd) ==
    IF known = Pow2[width] - 1 THEN known - unknown
    ELSE IF viaAnd THEN unknown - 2 * AndKnown(unknown, known, width, lookups) + known
    ELSE LookupKnown("xor", unknown, known, width)

\* binop of one bit.
BinopBit(kind, l, r, isKnown) ==
    CASE kind = "and" -> l * r
      [] kind = "or"  -> IF l + r > 0 THEN 1 ELSE 0
      [] kind = "xor" -> IF isKnown THEN 1 - l ELSE (l + r) % 2

\* binop: l and r are parts of numbers of width bits, r is a constant if isKnown.
Binop(kind, l, r, width, isKnown, lookups, viaAnd) ==
    IF width = 1 THEN BinopBit(kind, l, r, isKnown)
    ELSE IF ~isKnown THEN LookupAll(kind, l, r, width)
    ELSE CASE kind = "and" -> AndKnown(l, r, width, lookups)
           [] kind = "or"  -> OrKnown(l, r, width, lookups, viaAnd)
           [] kind = "xor" -> XorKnown(l, r, width, lookups, viaAnd)
=============================================================================
