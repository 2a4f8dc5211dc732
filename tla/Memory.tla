------------------------------- MODULE Memory --------------------------------
(* The memory of a compiled program: one Scratch list.  Types take up slots   *)
(* by their size in bytes, a value fills the first of them, one for each of   *)
(* its parts.  Global variables come first, then the heap, and the stack ends *)
(* at the last slot (src/src/compiler/memory.rs, and init_memory, trans_load, *)
(* trans_store and the instructions that use them in translate.rs).           *)
(*                                                                          *)
(* A type is <<"int", width>>, <<"ptr">>, <<"arr", type, length>> or           *)
(* <<"struct", types>>.  A path leads from a variable to a part of it.         *)
(* Sequences of arguments are laid out like structs.                          *)
EXTENDS Arithmetic, Evaluation, Functions, TLC

CONSTANTS
    ByteBits,       \* 8
    PtrBits,        \* PTR_WIDTH_BITS, 32
    MemorySize,     \* memory_size, no more than SCRATCH_LIST_LIMIT
    Programs,       \* the programs checked: records of
                    \*   globals    the global variables: their types and initial values
                    \*   arguments  the variadic arguments of its function: types and values
                    \*   lists      the globals that are a va_list
                    \*   indices    how an index is given: its width and whether it is known
                    \*   numbers    what it stores
                    \*   changes    how often it changes memory
    Deviations      \* the deviations let in

VARIABLES
    program,
    memory,    \* the list, !mem
    pointer,   \* a variable that holds the address of place
    place,     \* where it points to: an object and a path
    value,     \* a variable: its type, the values of its parts, the numbers its scalars stand for
    contents,  \* what the program has stored: a function of the places of scalars
    read,      \* how many arguments have been taken from each list, or NotStarted
    steps

vars == <<program, memory, pointer, place, value, contents, read, steps>>

Globals == program.globals
Arguments == program.arguments
Lists == program.lists

-----------------------------------------------------------------------------
(* get_size_of.                                                              *)

RECURSIVE SizeOf(_, _)
SizeOf(t, padded) ==
    CASE t[1] = "int" -> IF padded THEN (t[2] + ByteBits - 1) \div ByteBits ELSE Parts(t[2])
      [] t[1] = "ptr" -> IF padded THEN (PtrBits + ByteBits - 1) \div ByteBits ELSE 1
      [] t[1] = "arr" -> t[3] * SizeOf(t[2], padded)
      [] t[1] = "struct" -> FoldLeft(LAMBDA n, u : n + SizeOf(u, padded), 0, t[2])

Scalar(t) == t[1] \in {"int", "ptr"}

-----------------------------------------------------------------------------
(* Where things are, by the definition of the layout.                        *)

RECURSIVE OffsetOf(_, _, _), TypeAt(_, _), ScalarPaths(_), InitialAt(_, _)
OffsetOf(t, path, padded) ==
    IF path = << >> THEN 0
    ELSE IF t[1] = "arr" THEN path[1] * SizeOf(t[2], padded) + OffsetOf(t[2], Tail(path), padded)
    ELSE SizeOf(<<"struct", SubSeq(t[2], 1, path[1])>>, padded)
         + OffsetOf(t[2][path[1] + 1], Tail(path), padded)

TypeAt(t, path) ==
    IF path = << >> THEN t
    ELSE TypeAt(IF t[1] = "arr" THEN t[2] ELSE t[2][path[1] + 1], Tail(path))

ScalarPaths(t) ==
    IF Scalar(t) THEN {<< >>}
    ELSE LET members == IF t[1] = "arr" THEN [i \in 1 .. t[3] |-> t[2]] ELSE t[2]
         IN  UNION {{<<i - 1>> \o path : path \in ScalarPaths(members[i])} : i \in DOMAIN members}

InitialAt(v, path) == IF path = << >> THEN v ELSE InitialAt(v[path[1] + 1], Tail(path))

\* Object 0 is the argument area, at the end of the stack.
ArgumentTypes == [i \in DOMAIN Arguments |-> Arguments[i].type]
TypeOf(o) == IF o = 0 THEN <<"struct", ArgumentTypes>> ELSE Globals[o].type
Base(o) ==
    IF o = 0 THEN MemorySize - SizeOf(TypeOf(0), TRUE)
    ELSE 1 + FoldLeft(LAMBDA n, g : n + SizeOf(g.type, TRUE), 0, SubSeq(Globals, 1, o - 1))
Scalars == UNION {{<<o, path>> : path \in ScalarPaths(TypeOf(o))} : o \in DOMAIN Globals \ Lists}
AddressOf(pl) == Base(pl[1]) + OffsetOf(TypeOf(pl[1]), pl[2], TRUE)
PlaceType(pl) == TypeAt(TypeOf(pl[1]), pl[2])

-----------------------------------------------------------------------------
(* getelementptr.                                                            *)

\* A double keeps DoubleBits bits of a number.
Double(n) ==
    LET magnitude == IF n < 0 THEN -n ELSE n
        unit == 2 ^ Max({0} \cup {k \in 1 .. 12 : magnitude >= 2 ^ (DoubleBits + k - 1)})
        rounded == ((magnitude + unit \div 2) \div unit) * unit
    IN  IF n < 0 THEN -rounded ELSE rounded

Index(n, form) == [raw |-> n % 2 ^ form.width, width |-> form.width, known |-> form.known]

\* comptime_undo_twos_complement, of the number as a double.
UndoKnown(n, w) == IF Double(n) >= 2 ^ (w - 1) THEN Double(n) - 2 ^ w ELSE Double(n)

\* get_gep_offsets: [known |-> the sum of the known offsets, unknown |-> the
\* indices not known and what they are multiplied by, type].  The first index is
\* one of an array of the base's type.
GepOffsets(base, indices, padded) ==
    LET byArray(g, index, inner) ==
            LET size == SizeOf(inner, padded)
            IN  IF index.known
                THEN [known |-> g.known + UndoKnown(index.raw, index.width) * size, unknown |-> g.unknown, type |-> inner]
                ELSE [known |-> g.known, unknown |-> Append(g.unknown, [index |-> index, by |-> size]), type |-> inner]
        byMember(g, index) ==
            [g EXCEPT !.known = @ + SizeOf(<<"struct", SubSeq(g.type[2], 1, index.raw)>>, padded),
                      !.type = @[2][index.raw + 1]]
        step(g, index) == IF g.type[1] = "arr" THEN byArray(g, index, g.type[2]) ELSE byMember(g, index)
    IN  Accumulated(step, byArray([known |-> 0, unknown |-> << >>], indices[1], base), Tail(indices))

Exact == 2 ^ DoubleBits   \* max_intermediate
Range2(item) == item.by * 2 ^ item.index.width
Sorted(items) == SortSeq(items, LAMBDA a, b : Range2(a) < Range2(b))

\* Items whose index can be added as it is, to be reduced with the pointer's
\* width at the end; the others are made signed first.
AddedAsIs(item) == item.index.width = PtrBits /\ 2 ^ PtrBits + Range2(item) < Exact

\* undo_twos_complement_with_offset
UndoneButOffset(index) == Mod(Double(index.raw + 2 ^ (index.width - 1) + 1), -(2 ^ index.width))
UndoOffset(w) == 2 ^ (w - 1) - 1

\* Faulty: what is left over of the indices made signed is not multiplied.
AddSignedOnce(sum, item) ==
    LET large == Range2(item) >= Exact
        rest == UndoOffset(item.index.width)
    IN  IF large
        THEN [sum EXCEPT !.value = Double(@ + Double(item.by * Double(UndoneButOffset(item.index) + rest)))]
        ELSE [value |-> Double(sum.value + Double(item.by * UndoneButOffset(item.index))), later |-> sum.later + rest]

\* later: what has to be added after all items, unless that would be too much.
AddSigned(sum, item) ==
    LET large == Range2(item) >= Exact
        rest == UndoOffset(item.index.width)
        flushed == IF sum.later + (IF large THEN 0 ELSE rest * item.by) >= Exact
                   THEN [value |-> Double(sum.value + sum.later), later |-> 0] ELSE sum
    IN  IF large
        THEN [flushed EXCEPT !.value = Double(@ + Double(item.by * Double(UndoneButOffset(item.index) + rest)))]
        ELSE [value |-> Double(flushed.value + Double(item.by * UndoneButOffset(item.index))),
              later |-> flushed.later + rest * item.by]

\* max: a bound of the value.
AddUnsigned(sum, item) ==
    LET tooMuch == sum.max + Range2(item) >= Exact
        reduced == IF tooMuch THEN Mod(sum.value, 2 ^ PtrBits) ELSE sum.value
    IN  [value |-> Double(reduced + Double(item.by * item.index.raw)),
         max |-> (IF tooMuch THEN 2 ^ PtrBits ELSE sum.max) + Range2(item)]

\* apply_gep_offsets: the value of the address computed.
ApplyGepOffsets(base, g, nuw) ==
    LET unsigned == Sorted(SelectSeq(g.unknown, AddedAsIs))
        signed == Sorted(SelectSeq(g.unknown, LAMBDA item : ~AddedAsIs(item)))
        signedSum == Accumulated(AddSigned, [value |-> base, later |-> g.known], signed)
        start(sum) == [value |-> Double(sum.value + sum.later), max |-> IF signed # << >> THEN 10 * MemorySize ELSE 0]
        sum == Accumulated(AddUnsigned, Let(signedSum, start), unsigned).value
    IN  IF nuw THEN Accumulated(LAMBDA n, item : Double(n + Double(item.by * item.index.raw)),
                                Double(base + g.known), g.unknown)
        ELSE IF unsigned = << >> THEN sum ELSE Mod(sum, 2 ^ PtrBits)

Gep(t, base, indices, nuw) == Let(GepOffsets(t, indices, TRUE), LAMBDA g : ApplyGepOffsets(base, g, nuw))

-----------------------------------------------------------------------------
(* Memory.                                                                   *)

Slots(n, t) == IF t[1] = "int" THEN Split(n, t[2]) ELSE <<n>>
NumberOf(slots) == FoldRight(LAMBDA part, n : part + n * 2 ^ PartBits, slots, 0)

\* trans_load, trans_store: the parts are next to each other.
Load(address, t) == [i \in 1 .. SizeOf(t, FALSE) |-> memory[address + i - 1]]
Stored(mem, address, slots) ==
    [a \in DOMAIN mem |-> IF a \in address .. address + Len(slots) - 1 THEN slots[a - address + 1] ELSE mem[a]]

\* value_to_init_mem: padded with zeros to the size of the type.
RECURSIVE InitialSlots(_, _)
InitialSlots(v, t) ==
    LET slots == CASE Scalar(t) -> Slots(v, t)
                   [] t[1] = "arr" -> FlattenSeq([i \in 1 .. t[3] |-> InitialSlots(v[i], t[2])])
                   [] t[1] = "struct" -> FlattenSeq([i \in DOMAIN t[2] |-> InitialSlots(v[i], t[2][i])])
    IN  slots \o [i \in 1 .. SizeOf(t, TRUE) - Len(slots) |-> 0]

\* init_memory: the list is filled with zeros only if it has not the right
\* length; the globals are written over what is there.
InitMemory(mem) ==
    LET initial == FlattenSeq([o \in DOMAIN Globals |-> InitialSlots(Globals[o].init, Globals[o].type)])
        saturated == IF Len(mem) = MemorySize THEN mem ELSE [a \in 1 .. MemorySize |-> 0]
    IN  Stored(saturated, 1, initial)

\* A call stores the variadic arguments one after another.
WithArguments(mem) ==
    FoldLeft(LAMBDA m, i : Stored(m, Base(0) + SizeOf(<<"struct", SubSeq(ArgumentTypes, 1, i - 1)>>, TRUE),
                                  Slots(Arguments[i].value, Arguments[i].type)),
             mem, [i \in DOMAIN Arguments |-> i])

\* Faulty: memmove always copies from the first slot on.
CopiedUpwards(mem, dest, src, n, downwards) ==
    FoldLeft(LAMBDA m, i : [m EXCEPT ![dest + i] = m[src + i]], mem, [i \in 1 .. n |-> i - 1])

\* Slot by slot, whether in one block each or in a loop.
Copied(mem, dest, src, n, downwards) ==
    FoldLeft(LAMBDA m, i : [m EXCEPT ![dest + i] = m[src + i]], mem,
             [i \in 1 .. n |-> IF downwards THEN n - i ELSE i - 1])

-----------------------------------------------------------------------------
NotStarted == -1
Nowhere == <<1, << >>>>

\* The value of type t with these numbers, a function of the paths of its scalars.
RECURSIVE SlotsOf(_, _)
SlotsOf(t, numbers) ==
    IF Scalar(t) THEN Slots(numbers[<< >>], t)
    ELSE FlattenSeq([i \in 1 .. (IF t[1] = "arr" THEN t[3] ELSE Len(t[2])) |->
                        LET inner == TypeAt(t, <<i - 1>>)
                        IN  SlotsOf(inner, [path \in ScalarPaths(inner) |-> numbers[<<i - 1>> \o path]])])
Value(t, numbers) == [type |-> t, slots |-> SlotsOf(t, numbers), numbers |-> numbers]
ScalarValue(t, n) == Value(t, << >> :> n)

Begin ==
    /\ pointer' = 1 /\ place' = Nowhere /\ value' = ScalarValue(<<"ptr">>, 0)
    /\ contents' = [pl \in Scalars |-> InitialAt(Globals[pl[1]].init, pl[2])]
    /\ read' = [l \in Lists |-> NotStarted] /\ steps' = 0

Init ==
    /\ program \in Programs
    /\ memory = WithArguments(InitMemory(<< >>))
    /\ pointer = 1 /\ place = Nowhere /\ value = ScalarValue(<<"ptr">>, 0)
    /\ contents = [pl \in Scalars |-> InitialAt(Globals[pl[1]].init, pl[2])]
    /\ read = [l \in Lists |-> NotStarted] /\ steps = 0

\* The green flag once more: the list is as it was left.
Restart == steps > 0 /\ Begin /\ memory' = WithArguments(InitMemory(memory)) /\ UNCHANGED program

Fits(n, w) == -(2 ^ (w - 1)) <= n /\ n < 2 ^ (w - 1)

\* A negative constant index whose type is wider than a double's digits.
IndexAllowed(n, form) ==
    /\ Fits(n, form.width)
    /\ form.known /\ form.width > DoubleBits /\ n < 0 => "wide constant index" \in Deviations

\* getelementptr of a global variable: the indices of arrays are given in any
\* form, those of structs are constants.
TakeAddress ==
    \E o \in DOMAIN Globals \ Lists :
        \E path \in UNION {{SubSeq(whole, 1, n) : n \in 0 .. Len(whole)} : whole \in ScalarPaths(TypeOf(o))},
           nuw \in BOOLEAN :
            \E forms \in [DOMAIN path -> program.indices] :
                /\ \A i \in DOMAIN path :
                       /\ TypeAt(TypeOf(o), SubSeq(path, 1, i - 1))[1] = "struct" => forms[i].known /\ forms[i].width = PtrBits
                       /\ IndexAllowed(path[i], forms[i])
                /\ pointer' = Gep(TypeOf(o), Base(o),
                                  <<Index(0, [width |-> PtrBits, known |-> TRUE])>>
                                  \o [i \in DOMAIN path |-> Index(path[i], forms[i])], nuw)
                /\ place' = <<o, path>>
                /\ UNCHANGED <<program, memory, value, contents, read, steps>>

\* The place n elements further in its array.
InArray(pl) == pl[2] # << >> /\ TypeAt(TypeOf(pl[1]), Front(pl[2]))[1] = "arr"
Room(pl) == -Last(pl[2]) .. TypeAt(TypeOf(pl[1]), Front(pl[2]))[3] - 1 - Last(pl[2])
Further(pl, n) == <<pl[1], Append(Front(pl[2]), Last(pl[2]) + n)>>

\* getelementptr of a pointer: pointer arithmetic.
MovePointer ==
    /\ InArray(place)
    /\ \E n \in Room(place), form \in program.indices, nuw \in BOOLEAN :
           /\ IndexAllowed(n, form) /\ (nuw => n >= 0)
           /\ pointer' = Gep(PlaceType(place), pointer, <<Index(n, form)>>, nuw)
           /\ place' = Further(place, n)
    /\ UNCHANGED <<program, memory, value, contents, read, steps>>

\* Structs and arrays are loaded and stored as a whole, too.  Their parts are not
\* where their members are, unless all of these take one slot.
Accessible(t) == Scalar(t) \/ SizeOf(t, TRUE) = SizeOf(t, FALSE) \/ "whole aggregates" \in Deviations

LoadValue ==
    /\ place[1] \notin Lists /\ Accessible(PlaceType(place))
    /\ value' = [type |-> PlaceType(place), slots |-> Load(pointer, PlaceType(place)),
                 numbers |-> [path \in ScalarPaths(PlaceType(place)) |-> contents[<<place[1], place[2] \o path>>]]]
    /\ UNCHANGED <<program, memory, pointer, place, contents, read, steps>>

Changes == steps < program.changes /\ steps' = steps + 1 /\ UNCHANGED program

Fitting(t) == {n \in program.numbers : t[1] = "ptr" \/ n < 2 ^ t[2]}
Literals(t) == IF Scalar(t) THEN {ScalarValue(t, n) : n \in Fitting(t)} ELSE {}

StoreValue ==
    /\ Changes /\ place[1] \notin Lists /\ Accessible(PlaceType(place))
    /\ \E v \in Literals(PlaceType(place)) \cup {value} :
           /\ v.type = PlaceType(place)
           /\ memory' = Stored(memory, pointer, v.slots)
           /\ contents' = [pl \in Scalars |->
                              IF pl[1] = place[1] /\ IsPrefix(place[2], pl[2])
                              THEN v.numbers[SubSeq(pl[2], Len(place[2]) + 1, Len(pl[2]))] ELSE contents[pl]]
    /\ UNCHANGED <<pointer, place, value, read>>

\* get_agg_offset: the parts of a member.
PartsOf(t, path) ==
    LET g == GepOffsets(t, <<Index(0, [width |-> PtrBits, known |-> TRUE])>>
                           \o [i \in DOMAIN path |-> Index(path[i], [width |-> PtrBits, known |-> TRUE])], FALSE)
    IN  g.known + 1 .. g.known + SizeOf(g.type, FALSE)

ExtractValue ==
    \E path \in ScalarPaths(value.type) \ {<< >>} :
        /\ value' = [type |-> TypeAt(value.type, path), numbers |-> << >> :> value.numbers[path],
                     slots |-> SubSeq(value.slots, Min(PartsOf(value.type, path)), Max(PartsOf(value.type, path)))]
        /\ UNCHANGED <<program, memory, pointer, place, contents, read, steps>>

InsertValue ==
    \E path \in ScalarPaths(value.type) \ {<< >>} :
        \E v \in Literals(TypeAt(value.type, path)) :
            /\ value' = [value EXCEPT
                            !.slots = [i \in DOMAIN @ |->
                                          IF i \in PartsOf(value.type, path)
                                          THEN v.slots[i - Min(PartsOf(value.type, path)) + 1] ELSE @[i]],
                            !.numbers = [@ EXCEPT ![path] = v.numbers[<< >>]]]
            /\ UNCHANGED <<program, memory, pointer, place, contents, read, steps>>

\* The contents after n elements at pl have been copied to those at other.
CopiedContents(pl, other, n) ==
    [x \in Scalars |->
        LET i == x[2][Len(pl[2])] - Last(other[2])
        IN  IF x[1] = pl[1] /\ Len(x[2]) >= Len(pl[2]) /\ IsPrefix(Front(pl[2]), x[2]) /\ i \in 0 .. n - 1
            THEN contents[<<x[1], ReplaceAt(x[2], Len(pl[2]), Last(pl[2]) + i)>>] ELSE contents[x]]

\* memmove, and memcpy where nothing overlaps: n elements from the pointer on to
\* distance elements further.
MoveMemory ==
    /\ Changes /\ InArray(place)
    /\ \E distance \in Room(place) \ {0} :
           \E dest \in {Gep(PlaceType(place), pointer, <<Index(distance, [width |-> PtrBits, known |-> TRUE])>>, FALSE)},
              n \in 1 .. 1 + Max(Room(place)) - (IF distance > 0 THEN distance ELSE 0),
              isMove \in BOOLEAN :
                  /\ ~isMove => n <= (IF distance < 0 THEN -distance ELSE distance)
                  /\ memory' = Copied(memory, dest, pointer, n * SizeOf(PlaceType(place), TRUE), isMove /\ dest > pointer)
                  /\ contents' = CopiedContents(place, Further(place, distance), n)
    /\ UNCHANGED <<pointer, place, value, read>>

\* memset with zero of what the pointer points to.
SetMemory ==
    /\ Changes
    /\ memory' = Stored(memory, pointer, [i \in 1 .. SizeOf(PlaceType(place), TRUE) |-> 0])
    /\ contents' = [x \in Scalars |-> IF x[1] = place[1] /\ IsPrefix(place[2], x[2]) THEN 0 ELSE contents[x]]
    /\ UNCHANGED <<pointer, place, value, read>>

\* The address of the variadic arguments is the stack pointer of the call.
VaStart ==
    /\ Changes
    /\ \E l \in Lists : /\ memory' = Stored(memory, Base(l), <<Base(0)>>)
                        /\ read' = [read EXCEPT ![l] = 0]
    /\ UNCHANGED <<pointer, place, value, contents>>

VaCopy ==
    /\ Changes
    /\ \E l, other \in Lists : /\ read[l] # NotStarted /\ other # l
                               /\ memory' = Stored(memory, Base(other), <<memory[Base(l)]>>)
                               /\ read' = [read EXCEPT ![other] = read[l]]
    /\ UNCHANGED <<pointer, place, value, contents>>

\* The next argument, and how far the list goes on.
TakenBy(l, size) ==
    LET argument == Arguments[read[l] + 1]
        at == memory[Base(l)]
    IN  /\ value' = [type |-> argument.type, slots |-> Load(at, argument.type), numbers |-> << >> :> argument.value]
        /\ memory' = Stored(memory, Base(l), <<at + size>>)

\* Faulty: a list goes on by the slots an argument uses.
VaArgUnpadded ==
    /\ Changes
    /\ \E l \in Lists : /\ read[l] \in 0 .. Len(Arguments) - 1
                        /\ TakenBy(l, SizeOf(Arguments[read[l] + 1].type, FALSE))
                        /\ read' = [read EXCEPT ![l] = @ + 1]
    /\ UNCHANGED <<pointer, place, contents>>

VaArg ==
    /\ Changes
    /\ \E l \in Lists : /\ read[l] \in 0 .. Len(Arguments) - 1
                        /\ TakenBy(l, SizeOf(Arguments[read[l] + 1].type, TRUE))
                        /\ read' = [read EXCEPT ![l] = @ + 1]
    /\ UNCHANGED <<pointer, place, contents>>

Next ==
    \/ Restart \/ TakeAddress \/ MovePointer
    \/ LoadValue \/ StoreValue \/ ExtractValue \/ InsertValue
    \/ MoveMemory \/ SetMemory \/ VaStart \/ VaCopy \/ VaArg

Spec == Init /\ [][Next]_vars

-----------------------------------------------------------------------------
(* Correctness.                                                              *)

\* However its indices are given, constant or not, of the pointer's width or not,
\* positive or negative, an address computed is the one the layout gives: no sum
\* on the way is rounded, no index loses its sign.
PointerRight == pointer = AddressOf(place)

\* Every scalar of every global variable holds what was stored there last: what
\* is stored, moved (over itself, too), cleared and initialised anew touches
\* nothing else, and the next start finds the initial values.
SameContents == \A pl \in Scalars : NumberOf(Load(AddressOf(pl), PlaceType(pl))) = contents[pl]

\* Variables have the parts of the value they stand for, the members of structs
\* among them, and each va_list is at the argument to be taken next.
SameValues ==
    /\ \A path \in ScalarPaths(value.type) :
           LET first == OffsetOf(value.type, path, FALSE) + 1
           IN  NumberOf(SubSeq(value.slots, first, first + SizeOf(TypeAt(value.type, path), FALSE) - 1))
               = value.numbers[path]
    /\ \A l \in Lists : read[l] # NotStarted =>
           memory[Base(l)] = Base(0) + SizeOf(<<"struct", SubSeq(ArgumentTypes, 1, read[l])>>, TRUE)
=============================================================================
