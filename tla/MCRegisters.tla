---------------------------- MODULE MCRegisters -----------------------------
(* Parts of 5 bits: types of one part, of two (8 bits) and of three (11).     *)
EXTENDS Registers

MCWidths == {1, 3, 4, 5, 8, 11}

\* All numbers of the narrow types; of the wide ones those next to the edges
\* of the parts.
MCOperands ==
    [w \in MCWidths |->
        IF w <= 5 THEN 0 .. 2 ^ w - 1
        ELSE IF w = 8 THEN {0, 1, 2, 3, 4, 5, 31, 32, 33, 127, 255}
        ELSE {1, 31, 1056, 1023, 2047}]

MCDoubles == (-17 .. 17) \cup {-Infinity, Infinity, NaN}
=============================================================================
