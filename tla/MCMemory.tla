------------------------------ MODULE MCMemory -------------------------------
(* Slots of 2 bits, pointers of 6, parts of 7, doubles of 10: a record has an  *)
(* integer of one part and one of two.                                       *)
EXTENDS Memory

Small == <<"int", 2>>
Wide == <<"int", 10>>
Record == <<"struct", <<Small, Wide>>>>
Pair == <<"struct", <<Small, <<"arr", Small, 2>>>>>>

Known(w) == [width |-> w, known |-> TRUE]
Unknown(w) == [width |-> w, known |-> FALSE]

\* Arrays of records, copied and cleared.
Records ==
    [globals |-> <<[type |-> <<"arr", Record, 3>>, init |-> <<<<1, 129>>, <<2, 385>>, <<3, 5>>>>]>>,
     arguments |-> << >>, lists |-> {}, indices |-> {Known(6), Unknown(6)}, numbers |-> {700}, changes |-> 2]

\* Structs loaded and stored as a whole.
Pairs ==
    [globals |-> <<[type |-> Pair, init |-> <<1, <<2, 0>>>>], [type |-> Pair, init |-> <<2, <<0, 1>>>>]>>,
     arguments |-> << >>, lists |-> {}, indices |-> {Known(6)}, numbers |-> {3}, changes |-> 1]

\* Every form of index, in an array whose elements take up a large part of what
\* a double can count.
Indices ==
    [globals |-> <<[type |-> <<"arr", <<"arr", Small, 15>>, 2>>,
                    init |-> <<[i \in 1 .. 15 |-> i % 4], [i \in 1 .. 15 |-> 3 - (i % 4)]>>],
                   [type |-> <<"arr", <<"arr", Wide, 2>>, 2>>, init |-> <<<<1, 129>>, <<385, 5>>>>]>>,
     arguments |-> << >>, lists |-> {}, numbers |-> {}, changes |-> 0,
     indices |-> {Unknown(w) : w \in {4, 6, 7}} \cup {Known(w) : w \in {6, 13}}]

\* Two lists of arguments.
Variadic ==
    [globals |-> <<[type |-> Small, init |-> 1], [type |-> <<"ptr">>, init |-> 0], [type |-> <<"ptr">>, init |-> 0]>>,
     arguments |-> <<[type |-> Small, value |-> 3], [type |-> Wide, value |-> 70], [type |-> <<"ptr">>, value |-> 5]>>,
     lists |-> {2, 3}, indices |-> {Known(6)}, numbers |-> {}, changes |-> 5]

MCPrograms == {Records, Pairs, Indices, Variadic}
=============================================================================
