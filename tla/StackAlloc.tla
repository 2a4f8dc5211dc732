----------------------------- MODULE StackAlloc -----------------------------
(* The stack at the end of the generated project's memory: get_fn_info      *)
(* decides how much each function reserves and when, trans_funcs, trans_instr *)
(* (Alloca), trans_call_instr (varargs) and trans_terminator_instr (Ret)     *)
(* generate the code, all in src/src/compiler/translate.rs.                  *)
(*                                                                          *)
(* The stack grows down: bytes above the stack pointer are taken, and a      *)
(* function that reserves n bytes of them lowers the pointer by n.  Besides  *)
(* allocas only calls and branches matter here; which branch is taken is     *)
(* left open.  The first block of a function has no predecessor, as LLVM     *)
(* demands.                                                                 *)
EXTENDS Integers, Sequences, SequencesExt, Reachability

CONSTANTS
    Programs,    \* [Fn -> [variadic, order, body, next]]: the blocks of each
                 \* function in order, their instructions and their successors
    Entry,       \* cfg.entrypoint
    MemorySize,  \* cfg.memory_size
    MaxFrames    \* calls in progress, at most: a bound of the model

VARIABLES
    prog,
    info,        \* ctx.fn_info: what get_fn_info finds out about the functions
    sp,          \* the stack pointer variable
    frames       \* functions called and not returned from

vars == <<prog, info, sp, frames>>

Unknown == -1

Alloca(n)  == [op |-> "alloca", size |-> n, to |-> "", varargs |-> 0]
Call(f, n) == [op |-> "call", size |-> 0, to |-> f, varargs |-> n]

First(fn)  == fn.order[1]
Label(fn)  == DOMAIN fn.body

Instruction(p) ==
    [op : {"alloca", "call"}, size : Nat, to : DOMAIN p \cup {""}, varargs : Nat]

\* Allocas have a size, calls are of functions there are, only variadic ones
\* are passed variadic arguments, and nothing branches to a first block.
WellFormed(p) ==
    /\ Entry \in DOMAIN p
    /\ \A f \in DOMAIN p :
          /\ p[f].order \in Seq(Label(p[f])) /\ p[f].order # << >>
          /\ DOMAIN p[f].next = Label(p[f])
          /\ \A b \in Label(p[f]) :
                /\ p[f].next[b] \subseteq Label(p[f]) \ {First(p[f])}
                /\ p[f].body[b] \in Seq(Instruction(p))
                /\ \A k \in DOMAIN p[f].body[b] :
                      LET i == p[f].body[b][k]
                      IN  IF i.op = "alloca" THEN i.size > 0 /\ i.varargs = 0
                          ELSE /\ i.size = 0 /\ i.to \in DOMAIN p
                               /\ i.varargs > 0 => p[i.to].variadic

ASSUME BoundsAssumption == MemorySize \in Nat /\ MaxFrames \in Nat \ {0}

ASSUME ProgramsAssumption == \A p \in Programs : WellFormed(p)

-----------------------------------------------------------------------------
(* get_fn_info.                                                              *)

Instrs(fn) == UNION {ToSet(fn.body[b]) : b \in Label(fn)}
Sizes(is)  == [k \in DOMAIN is |-> is[k].size]

\* What the first k members of a sequence of numbers add up to.
Sums(s) ==
    LET sum[k \in 0 .. Len(s)] == IF k = 0 THEN 0 ELSE sum[k - 1] + s[k]
    IN  sum

BlockAllocaSize(fn) == [b \in Label(fn) |-> Sums(Sizes(fn.body[b]))[Len(fn.body[b])]]

\* find_nodes_with_cycle.
Repeating(fn) == {b \in Label(fn) : b \in Reached(fn.next, b)}

\* unavoidable_nodes is asked for the blocks on every path to "ret", a node
\* that no edge of the graph it is given leads to: it finds the source alone.
RanOnce(fn) == {First(fn)} \ Repeating(fn)

\* The sum over the blocks that run once, of which there is one at most.
TotalAllocaSize(fn) ==
    IF \E b \in Label(fn) \ RanOnce(fn) : BlockAllocaSize(fn)[b] # 0 THEN Unknown
    ELSE IF RanOnce(fn) = {} THEN 0 ELSE BlockAllocaSize(fn)[First(fn)]

\* The functions each function can call, directly or not.
Callees(p)   == [f \in DOMAIN p |-> {i.to : i \in {j \in Instrs(p[f]) : j.op = "call"}}]
CallGraph(p) == [f \in DOMAIN p |-> Reached(Callees(p), f)]

MakesVariadicAlloc(p, calls, f) ==
    \E g \in DOMAIN p : /\ g = f \/ g \in calls[f]
                        /\ \E i \in Instrs(p[g]) : i.op = "call" /\ p[i.to].variadic

\* Faulty: whether the callees allocate is not asked.
SkipIfKnown(p, calls, f) ==
    TotalAllocaSize(p[f]) # Unknown /\ ~MakesVariadicAlloc(p, calls, f)

\* Nothing it calls uses the stack, so the function may use it without
\* reserving.  An unknown size counts as none.
SkipStackSizeChange(p, calls, f) ==
    /\ TotalAllocaSize(p[f]) # Unknown
    /\ \A g \in calls[f] : TotalAllocaSize(p[g]) \in {0, Unknown}
    /\ ~MakesVariadicAlloc(p, calls, f)

FnInfo(p) ==
    LET calls == CallGraph(p)
    IN  [f \in DOMAIN p |-> [block |-> BlockAllocaSize(p[f]),
                             total |-> TotalAllocaSize(p[f]),
                             skip  |-> SkipStackSizeChange(p, calls, f)]]

-----------------------------------------------------------------------------
(* The generated code.                                                       *)

\* What a block reserves on entry: the first one, everything the function
\* allocates if that is known.
Reserved(f, b) ==
    IF info[f].skip THEN 0
    ELSE IF b # First(prog[f]) THEN info[f].block[b]
    ELSE IF info[f].total = Unknown THEN 0 ELSE info[f].total

\* Faulty: the stack pointer is raised whether or not it was lowered.
ReleasedAlways(f) == IF info[f].total = Unknown THEN 0 ELSE info[f].total

\* What Ret gives back.
Released(f) == IF info[f].skip \/ info[f].total = Unknown THEN 0 ELSE info[f].total

\* bctx.allocated when the k-th instruction of a block is translated; it is
\* carried from block to block in a function of unknown size.
Allocated(f, b, k) ==
    Sums(Sizes(prog[f].body[b]))[k - 1]
    + IF info[f].total # Unknown THEN 0
      ELSE LET order == prog[f].order
               at == CHOOSE n \in DOMAIN order : order[n] = b
           IN  Sums([n \in DOMAIN order |-> info[f].block[order[n]]])[at - 1]

\* Where an alloca finds its memory, below the stack pointer as it was.
AllocaAddr(f, b, k) ==
    LET reserved == IF info[f].skip THEN 0
                    ELSE IF info[f].total = Unknown THEN info[f].block[b]
                    ELSE info[f].total
    IN  sp + reserved - Allocated(f, b, k) - prog[f].body[b][k].size + 1

\* calledAt remembers the stack pointer for the properties.
Frame(f, at) == [fn |-> f, block |-> First(prog[f]), k |-> 1, slots |-> << >>, calledAt |-> at]

top   == Last(frames)
code  == prog[top.fn].body[top.block]
instr == code[top.k]
SetTop(frame) == frames' = [frames EXCEPT ![Len(frames)] = frame]

Init == /\ prog \in Programs
        /\ info = FnInfo(prog)
        /\ sp = MemorySize - Reserved(Entry, First(prog[Entry]))
        /\ frames = <<Frame(Entry, MemorySize)>>

DoAlloca ==
    /\ frames # << >> /\ top.k <= Len(code) /\ instr.op = "alloca"
    /\ LET addr == AllocaAddr(top.fn, top.block, top.k)
       IN  SetTop([top EXCEPT !.slots = Append(@, <<addr, addr + instr.size - 1>>),
                              !.k = @ + 1])
    /\ UNCHANGED <<prog, info, sp>>

\* Variadic arguments are stored from the lowered stack pointer up.
DoCall ==
    /\ frames # << >> /\ top.k <= Len(code) /\ instr.op = "call"
    /\ Len(frames) < MaxFrames
    /\ LET low == sp - instr.varargs
       IN  /\ sp' = low - Reserved(instr.to, First(prog[instr.to]))
           /\ frames' = Append([frames EXCEPT ![Len(frames)].slots =
                                   IF instr.varargs = 0 THEN @
                                   ELSE Append(@, <<low, low + instr.varargs - 1>>)],
                               Frame(instr.to, sp))
    /\ UNCHANGED <<prog, info>>

Branch ==
    /\ frames # << >> /\ top.k > Len(code)
    /\ \E b \in prog[top.fn].next[top.block] :
           /\ sp' = sp - Reserved(top.fn, b)
           /\ SetTop([top EXCEPT !.block = b, !.k = 1])
    /\ UNCHANGED <<prog, info>>

\* Faulty: the caller's memory for variadic arguments is not given back.
RetKeepsVarargs ==
    /\ frames # << >> /\ top.k > Len(code) /\ prog[top.fn].next[top.block] = {}
    /\ sp' = sp + Released(top.fn)
    /\ frames' = IF Len(frames) = 1 THEN << >>
                 ELSE [Front(frames) EXCEPT ![Len(frames) - 1].k = @ + 1]
    /\ UNCHANGED <<prog, info>>

\* Ret, and what the caller does after its call.
Ret ==
    /\ frames # << >> /\ top.k > Len(code) /\ prog[top.fn].next[top.block] = {}
    /\ IF Len(frames) = 1
       THEN /\ frames' = << >>
            /\ sp' = sp + Released(top.fn)
       ELSE LET caller == Last(Front(frames))
                passed == prog[caller.fn].body[caller.block][caller.k].varargs
            IN  /\ sp' = sp + Released(top.fn) + passed
                /\ frames' = Append(Front(Front(frames)),
                        [caller EXCEPT !.k = @ + 1,
                                       !.slots = IF passed = 0 THEN @ ELSE Front(@)])
    /\ UNCHANGED <<prog, info>>

Next == DoAlloca \/ DoCall \/ Branch \/ Ret
Spec == Init /\ [][Next]_vars

-----------------------------------------------------------------------------
(* Correctness.                                                              *)

Bytes == 1 .. MemorySize

\* The stack pointer and everything allocated stay within the list.
TypeOK ==
    /\ prog \in Programs
    /\ sp \in 0 .. MemorySize
    /\ \A n \in DOMAIN frames :
        /\ frames[n].fn \in DOMAIN prog
        /\ frames[n].block \in Label(prog[frames[n].fn])
        /\ frames[n].k \in 1 .. Len(prog[frames[n].fn].body[frames[n].block]) + 1
        /\ frames[n].slots \in Seq(Bytes \X Bytes)
        /\ frames[n].calledAt \in 0 .. MemorySize

\* No two allocations in use share a byte: not two of one call, not those of
\* a caller and a callee, not those of two calls of a recursive function, not
\* an alloca and a variadic argument.
LiveDisjoint ==
    \A m, n \in DOMAIN frames :
        \A s \in DOMAIN frames[m].slots, t \in DOMAIN frames[n].slots :
            \/ m = n /\ s = t
            \/ frames[m].slots[s][2] < frames[n].slots[t][1]
            \/ frames[n].slots[t][2] < frames[m].slots[s][1]

\* The programs these hold of: every function's frame has a size that is known,
\* and variadic arguments are passed where nothing is allocated below them.
Allocates(p, f) == \E i \in Instrs(p[f]) : i.op = "alloca"
Static(p) ==
    /\ \A f \in DOMAIN p : TotalAllocaSize(p[f]) # Unknown
    /\ \A f \in DOMAIN p : \A i \in Instrs(p[f]) : i.varargs > 0 =>
          \A g \in {i.to} \cup CallGraph(p)[i.to] : ~Allocates(p, g)

\* MaxFrames frames, with the variadic arguments they are called with, fit in
\* the memory.
Room(p, size) ==
    /\ size \in Nat /\ MaxFrames * size < MemorySize
    /\ \A f \in DOMAIN p :
          /\ TotalAllocaSize(p[f]) <= size
          /\ \A i \in Instrs(p[f]) : i.op = "call" =>
                TotalAllocaSize(p[i.to]) + i.varargs <= size

\* A call leaves the stack pointer where it found it.
SpRestored == [][Len(frames') < Len(frames) => sp' = top.calledAt]_vars
=============================================================================
