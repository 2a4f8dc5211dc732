# llvm2scratch in TLA+

llvm2scratch compiles LLVM IR to a Scratch project. This directory holds TLA+
modules of the parts of the compiler, and of the code it generates, where a
mistake does not show in a test: control flow by tail calls on a call stack
that cannot return, variables of recursive functions in global variables,
memory on one stack, phi nodes, and the rewriting of expressions. TLC checks
the modules on small instances; TLAPS proves the central properties for every
value of the constants.

Paths are relative to the repository. `translate.rs` and `graph_util.rs` are
`src/compiler/translate.rs` and `src/compiler/graph_util.rs`. `llvm2scratch/`
is the Python program this one is a port of.

    tlc -workers 2 -config MCStackReset.cfg MCStackReset     # a run
    tlapm StackResetProofs.tla                               # the proofs of a module

## 1. The system

    LLVM text --parser--> IR --compile--> project --optimize--> project
                                |                                  |
                 get_fn_info, trans_funcs, ...       post_opt_transform, optimize
                                                                   |
                                               export: .sb3, .sprite3, text

It is one sequential program. What it produces is a program as well, and most
of the state worth modelling is that program's: a Scratch project with one
script that runs procedures, variables and lists. The two meet in `FuncInfo`:
what the compiler decides about a function once (which blocks are checked, how
much stack it reserves, whether it returns to an address, which variables each
block needs) is relied on by the code generated for every call of it.

### Components

**Run-time trampoline** (`trans_funcs` 5411-5461, `trans_entrypoint_call` 6185-6270,
`binary_search_jump_table` 6111-6183). A basic block is a Scratch procedure;
branches, calls and returns are calls in tail position. State: Scratch's call
stack, the hidden counter, `!call stack reset id`. Operations: enter a
procedure, check the counter, unwind, search the jump table. Hard: the stack
must not grow for ever, and a reset in the middle of a computation must not be
noticed by it. Correct if: depth is bounded; the project is the program's
control flow; a reset resumes.

**Control-flow analysis** (`graph_util.rs`). Pure functions on the block graph:
simple cycles and a hitting set for them (`select_cycle_checks`), strongly
connected components (`find_nodes_with_cycle`), blocks on every path
(`unavoidable_nodes`), what each block reads and writes
(`analyze_function_block_var_use`). Everybody above relies on the answers.
Correct if: every loop is checked; a block that can repeat is found; a variable
that can be read later is found.

**Phi nodes** (`assign_phi_nodes` 4798-4904). State: the phi nodes left to
assign, what each waits for, temporaries. Correct if: the assignments emitted
are one simultaneous assignment, for chains, swaps and any mixture.

**Stack allocation** (`get_fn_info` 1820-1974, `trans_instr` 3401-3438,
`trans_call_instr` 3147-3199, `Ret` 5107-5128). State: the stack pointer, the
end of the list `!mem`. A function may reserve everything on entry, reserve per block,
or, if nothing it calls uses the stack, use memory below the stack pointer
without reserving it. Correct if: allocations in use are disjoint; a call
restores the pointer.

**Local variables and calls** (`compute_next_var_use`, `compute_must_store`,
`trans_funcs` 5490-5697, `trans_return_addr`, `assign_parameters`). LLVM gives
every call its own variables; the project has one variable per name and
function, parameters that live as long as a procedure, and a local stack for
what has to survive a recursive call. Correct if: every instruction reads what
it would read in LLVM; a return goes to the call it belongs to.

**Function-pointer dispatch** (`collect_fn_ptr_sigs`, `trans_func_ptr_sigs`).
Functions whose address is taken are grouped by signature and numbered; a call
through a pointer calls the procedure of the signature, which searches for the
function and passes the return on. **Branch-jump-table mode** (`replace_branch_calls`,
`post_opt_transform`): the blocks of a function become the branches of one loop, and
a branch an assignment of a label. Other ways of transferring control, with the same
obligations.

**Integer arithmetic and lookup tables** (`translate.rs` 1976-3015, `binop.rs`,
`twos_complement.rs`): numbers in parts of at most 48 bits in floating-point
variables that count to 2^53. State: the parts. Hard: every part must come out in
its range, because the next instruction relies on it. Correct if: results equal
those modulo 2^w.

**Memory** (`memory.rs`, `translate.rs` 202-252, 615-940, 3940-4042, 4229-4692): sizes,
offsets, loads and stores part by part, copies, variadic lists, and the initial memory,
which `init_memory` sets up anew at every start. State: one list. Correct if: an address is the
one the layout gives; memory holds what was stored last.

**Optimizer** (`optimizer/`). `optimize` alternates two passes until neither
changes the project. *Known values* folds constants and removes dead branches.
*Assignment elision* moves or drops assignments when nothing in between can tell,
which it decides from what blocks, loops and called procedures read and modify.
Correct if: the optimised project computes the same; it terminates.

**Export** (`scratch/mod.rs`, `scratch/export.rs`). The scripts become one table of
blocks that name each other by identifiers. A call needs the identifiers of the callee's
parameter, so it may have to wait until the callee is defined (`late_blocks`).
Blocks that the editor hides are replaced on request: the counter by a variable,
loops by other loops. Correct if: the table, read back, is the project.

**Command line** (`main.rs`): compile, optimise, export, in this order. `Toolchain`
composes the last two.

**Foreign functions and intrinsics, parser, IR, targets**: conversions and tables.
`src/graph_util/` is an unused second copy of the graph algorithms.

`PROJECT.json` lists the components with what is modelled of them, and the
hazards of the code line by line.

## 2. The modules

| module | models | kind |
|---|---|---|
| `ControlFlow` | what the generated code promises about control | abstract specification |
| `StackReset` | the trampoline | state machine, implements `ControlFlow` |
| `StackResetProofs` | | proofs |
| `Reachability`, `Sorting` | what a graph's edges lead to; sets of numbers in order | definitions |
| `CycleChecks` | `select_cycle_checks`, `find_nodes_with_cycle` | state machine over algorithms |
| `CycleChecksProofs` | | proofs |
| `PhiAssign` | `assign_phi_nodes` | state machine |
| `PhiAssignProofs` | | proofs |
| `StackAlloc` | stack allocation | state machine over programs |
| `StackAllocProofs` | | proofs |
| `InductionLemmas` | induction and recursion over the natural numbers, reachability, sorting, sequences | lemmas |
| `JumpTable` | `binary_search_jump_table` | operators, used by `Calls` |
| `Calls` | variables, parameters, return addresses, pointers, switches, both modes | program and project in step |
| `CallsInvariant` | | which programs are proved about, and the invariant |
| `CallsProofs` | | proofs |
| `PowersOfTwo` | powers of two, bits of a number | recursive functions |
| `Arithmetic` | sums, shifts, products, divisions, comparisons, conversions | operators |
| `BitMasks` | and, or, xor by tables and masks | operators |
| `BitMasksProofs` | powers, bits, tables and masks | lemmas |
| `Registers` | chains of instructions made of the two | number and variables in step |
| `RegistersProofs` | | proofs |
| `Memory` | layout, pointers, loads, stores, copies, lists, restart | program and project in step |
| `KnownValue` | `simplify_value` | state machine over expressions |
| `ScratchCode` | blocks, and what Scratch does with them | operators |
| `Elision` | `assignment_elision` | operators |
| `Optimizer` | `optimize` | state machine over projects |
| `Export` | `ScratchContext` | operators |
| `Toolchain` | optimise and export | state machine, extends `Optimizer` |
| `Evaluation` | | ways of evaluating an expression once |
| `MC...` | instances for TLC | |

### StackReset implements ControlFlow

`ControlFlow` has one variable, the procedure about to run and the contents of
the variables, and two steps: transfer to the next procedure as the program's
`Step` says, or finish. `StackReset` adds everything `ControlFlow` is silent
about. `pc` says where Scratch is: in the hat script, in the forever loop of
`!jump table`, in its nested if/else, at the entry of a procedure, in its body,
or returning from procedures with nothing left to do. Actions are the code's own
steps: `TableReset` (the loop clears the counter), `SearchBranch` (one if/else),
`SearchCall`/`SearchExit` (a leaf), `Enter`/`EnterChecked` (the counter, and the
check), `Body` (the instructions and the tail call), `RetEntry`, `Unwind`.

The refinement mapping `AtBar` says where the program is while the trampoline
runs: between the request of a reset and the resumption it is still at the block
that asked for it. So resets and searches are stuttering steps, and
`CF!Spec` says that they lose and repeat nothing.

`CheckedBlocks` is a constant; that the loops of the program go through it is
the assumption `RankAssumption`; that the compiler chooses the blocks of a function that
way is the theorem `EveryCycleBroken` about `CycleChecks`. Functions that do not return to an address are
run by Scratch inside one step.

### CycleChecks

`Split` enumerates the simple cycles (`find_all_simple_cycles`; `SimplePaths` has the paths
of its depth-first search by length) and takes out the self loops; `Greedy` and `GreedyDone` are the greedy cover;
`ExactMiss`, `ExactHit` and `NextCombination` the exhaustive search
that replaces it when there are few blocks; `Choose` the result. `Root`,
`Descend`, `Look`, `Close` and `Finish` are Tarjan's algorithm with the recursion of
`strongconnect` as an explicit stack. The properties compare the results with
reachability, which neither algorithm uses.

### PhiAssign

`Resolve` is the assignment of a phi node nobody waits for, `CycleTemp` and
`CycleReuse` the two ways of breaking a cycle, `Fail` the error. The code is
straight-line, so the model executes an assignment when it emits it.
`Resolve` allows any order among the phi nodes that are ready; the code takes
them in the order of the map.

### StackAlloc

The program is chosen in `Init` and `FnInfo` computes for it what `get_fn_info`
does. Then the generated code runs: `DoAlloca`, `DoCall` (with variadic
arguments), `Branch`, `Ret`. A frame records the bytes each allocation got;
`calledAt` is there for the properties only. Other instructions do not touch
the stack and are left out; which branch is taken is left open.

### Calls and JumpTable

The program (`acts`: a stack of activations, each with its own variables) and
the project (`at`, `params`, `conts`, `glob`, `retVar`, `localStack`) execute
the same instruction in one step, as long as both are at the same instruction
(`InStep`). `DoOp` gives the result of an instruction any value, the same to
both, so the properties do not depend on what is computed. `CallAndReturn` and
`CallToAddress` are the two ways of calling; `AssignParameters` happens at
branches; `AfterCall` is the code of the return procedure. Programs that the compiler
refuses have no initial state (`Compiles`). Variables have one part.

`pointers` are the functions by signature, `sigInfo` what the compiler decided about the
procedure of each signature, like `info` for functions. `DispatchToAddress` calls it with
a return address, `CallAndReturn` without; both look the function up with `DispatchTable`.
A function called with an address that does not take one comes back to the
procedure, whose callback returns to the caller, in the same step. `Branch` looks switches up with
`JumpTable`. To the program the addresses of functions are `Pointer`, to the project numbers from
`FirstAddress` on, so nothing works because they happen to be equal.

`jumpTable` is the mode. With it, parameters are variables that last, recursive
calls save them and the label (`branch_id`) on the local stack, and a branch assigns the label and
goes on with the loop (`Iterate`).

Two analyses say what is needed later, as in the code. `Depends`, of blocks, counts the
address of a call through a pointer among what it uses; `NextVarUse`, of the rest of a block, does not (`Collected`).

`Orders` stands for the order in which Rust's `HashSet` happens to be
enumerated, which one of the functions depends on.

### Arithmetic, BitMasks, Registers

The operators have the names of the Rust functions that build the expressions and are
the values of the expressions. `Registers` has one register: its type `width`, the number
`value` that LLVM says it holds, and the `parts` in the Scratch variables. `BinaryOp`,
`ICmpStep`, `Convert`, `ToDouble`, `Select` and `FloatOp` put the result of an instruction with another operand
into it, so that a number out of range shows in what is computed from it.
`Meaning` and `Compares` say what LLVM means, from integers, without reference to
the code. What depends on the cost tables or an option (mod or comparison, table or mask, how
often carries are stored) is a choice of `Outcomes`. Powers of two, single bits and the passes over
the groups of a mask are recursive functions, so that theorems about them can be proved.

The code departs from LLVM in some places (section 5). Those of operations on two integers are what
`Deviation` says; three more are guards of the steps, named "wide icmp" (`DeviatesWide`), "fptoui" and "frem". The constant
`Deviations` lets them in by name; the run lets none in, so it shows that
there are no others within its bounds.

### Memory

The program has `contents`, the number in each scalar of each global variable, and
`place`, what its pointer points to; the project has the list `memory` and the address `pointer`. `value` is
a loaded value with both its parts and its numbers. `TakeAddress` and `MovePointer` are the forms of
getelementptr, `LoadValue`, `StoreValue`, `ExtractValue` and `InsertValue` what their
names say, `MoveMemory` and `SetMemory` the copies, `VaStart`, `VaArg` and `VaCopy` the
lists. `Restart` is the stop button and the flag: the list is full already and `InitMemory`
runs on it, whatever was going on. `OffsetOf` defines the layout without the code.

### KnownValue

A pass (`PartialSimplify`) simplifies the operands, then applies the first rule
that fits (`FirstRule`); `Pass` is one turn of `simplify_value_with`'s loop. Numbers are
integers; rounding, infinities, NaN and strings are left out, as are list
lookups. `Eval` is Scratch's meaning of an expression.
The rule that moves a number across a comparison looks at the simplified operands (`Moves`) but
rewrites those before the pass (`MoveAcross`), as the code does (known_value_prop.rs:319), so what the pass did to them is
done again.

### Elision, Optimizer, Export, Toolchain

A script `Main` is written fragment by fragment (`Write`), so that any sequence of them is
optimised, beside two procedures. Then `Propagate` (the rules of known values for blocks) and
`Elide` alternate like the loop of `optimize`; `changed` is what it knows of the first
when it decides on another turn. `Propagate` keeps the quirk that a change that was
not reported is thrown away.

`Elision` follows `assignment_elision.rs`: `Mods`, `AllReads` and `Dependencies` are the sets it computes for
blocks, bodies and callees, `Candidates` the assignments that may go, with the uses they
would be written to, `LoopUse` and `Prices` the comparison of costs. Sets of names replace the
bit sets.

When the optimiser is done, `Collect` (`get_ctx`) and `Finish` (`ctx_get_raw`) export the
project, with or without hidden blocks. The block table is a function of numbers, given out in the order the
code draws identifiers: a script's first and next before any of its blocks, the one after that when a block and
all the blocks inside it are done (`Below`), one more at the last block (`DrawNext`), and within a block the body
before the condition and the other body (`GetRawBlock`). So those of nested scripts are drawn between two uses of
the same one, which is what `Linked` is about. `Loaded` is the other direction, what Scratch makes of a
table: it follows `next`, the substacks and the arguments, and knows nothing of how they came there.
`Shown` runs a project, so `SameOutput` and `SameWhenExported` compare what is said and what is left in
shared variables and the list, from several stores.

## 3. The runs

Passing runs, with the bounds:

| run | instance | shows |
|---|---|---|
| `stack_reset` | 14 procedures of 3 functions, two nested calls, limit 4 | the stack is bounded (`StackBounded`), the jump table finds its target, the counter counts, the project is the program (`Transparent`), resets resume (`Resumes`) |
| `cycle_checks` | all graphs on 3 blocks, 8192 on 4 | the checks break every cycle and only cycles, are as few as possible when searched for, repeating blocks are exactly those that reach themselves, the loops end |
| `phi_assign` | 4 phi nodes, 7 incoming values each | simultaneous assignment, no panic, termination |
| `stack_alloc` | 4 functions, 3 blocks each, 14 bytes, 4 frames | allocations in use are disjoint, calls restore the stack pointer |
| `calls` | 12 programs, one more in branch-jump-table mode, 2 values, 4 calls, both enumeration orders | project and program are at the same instruction, reads agree, nothing stays on the local stack; the invariant of `CallsProofs`, where it is claimed |
| `known_value` | 8866 expressions up to four operators deep, 49 environments | values kept after every pass, nothing foldable left, the passes end |
| `registers` | parts of 5 bits, types of 1, 3, 4, 5, 8 and 11 bits, doubles from -8.5 to 8.5 | every part in its range, the number is LLVM's after any chain, products stay exact |
| `memory` | slots of 2 bits, parts of 7, pointers of 6, doubles of 10; 4 programs | addresses, memory and values are the program's |
| `toolchain` | scripts of up to 3 of 17 fragments, 2 pairs of procedures, 2 stores | the optimised and the exported project do the same, nothing after a stop, the loop ends before its limit, the block table is one tree per script |

Why the bounds are enough. In `stack_reset` the limit of 4 is smaller than a
turn of the outer loop, so every check fires, from several depths, with
either return address pending. The exact search of `cycle_checks` is limited to 3
blocks instead of 15 (`ExactLimit`), so both searches are exercised. Four phi
nodes contain two swaps, a cycle of four, a cycle with a tail, and cycles that share
a source with a chain. In `stack_alloc` four frames hold a recursive function twice with
its caller and a callee. In `calls` four calls reach a recursion in a recursion,
with a value in each activation that differs from the others, and a pointer called from
a function that was called through it; the switches have gaps at either end and
none. In `known_value` rules feed each other at most three deep before they end.

In `registers` the widths are a part, less than a part, two parts with a short second one
and three parts. One-part types take all their numbers as operands; the wider
ones those around the borders of the parts, where carries and shifts differ. A double counts to
2^8 with parts of 5 bits, as it counts to 2^53 with parts of 48: three more bits instead of
five, which is as tight as `BitsAssumption` allows. In `memory` the array of `Indices` is long enough that an index
times its size leaves what a double counts, and all indices of a type occur,
known and not. In `toolchain` three fragments are an assignment, something that may change
what it depends on, and a use, where any of them can be a branch, a loop or a call of a
procedure that calls another. The recursion in `Shown` is bounded by `Fuel`, more than any of the scripts needs.

Where a run uses `CHECK_DEADLOCK FALSE`, the program stops when it is done. `registers` uses it
because a chain may end in a double no instruction is defined for.

Runs that end in a violation (`alloc_dynamic`, `calls_recursion`, `export_for_each`)
each show a disagreement between the code and what the repository says of it
(section 5).

Every property of a passing run is also checked against a fault put into the
model. The faults are definitions next to the ones they replace, with `Faulty:`
in the comment.

**Fairness.** `StackReset`, `PhiAssign`, `CycleChecks` and `KnownValue` assume
weak fairness of their whole next-state relation and no more: one script, or one loop of a
sequential compiler, goes on whenever it can. Which branch the
program takes is never assumed to be fair; `Resumes` holds for every choice.
`Toolchain` assumes it of `Propagate` and `Elide`: once the loop of `optimize` runs, it
goes on. Nothing is assumed of `Write`.

## 4. The proofs

`StackResetProofs` proves for every program, every set of checks and every limit,
from `ProgramAssumption`, `ChecksAssumption` and `RankAssumption`:

* `TypeCorrect`, `SearchIsCorrect`, `CounterIsCorrect`, `StackIsBounded`
* `TrampolineIsTransparent`: `Spec => Transparent`, the refinement.

The invariant is `IInv`. `StackBounded` alone is not inductive: `depth` is
bounded because the counter is, and the counter grows without a test in unchecked
blocks. So `CountInv` relates depth and counter at each `pc`, and `RoomInv` says
how far the counter may be beyond the limit: at most the rank used up since the
last check. `TableInv` holds what the other two need of the jump table: nothing
is on the call stack, and the id asked for is a key. The refinement then needs
one lemma about ids, `ResetIdTarget`: the entry of a block's id is the block.

`PhiAssignProofs` proves for any number of phi nodes, values and temporaries:

* `TypeCorrect`, `PhiNodesCorrect` (`ParallelCopy`), `CycleValueKnown`.

The invariant says what must be true half way: a variable somebody waits for
holds its old value, or the temporary they were redirected to does
(`Waiting`); what is no longer pending has its final value (`Settled`); a `set_by` entry
names a variable with the same old value (`SetByHolds`); temporaries are fresh
(`TempsUsed`); a pending variable that is waited for has an entry in `val_lookup`
(`PendingKnown`). That the code never takes the error path does not follow, and is not true
(section 5).

`CycleChecksProofs` proves for every finite graph and every `ExactLimit` (15 in the code,
3 in the run):

* `Exact` (`RepeatingIsExact`), `EveryCycleBroken` (`BreaksEveryCycle`), `OnlyLoopsChecked`
  (`ChecksOnlyLoops`), `CoverIsMinimum` (`ExactIsMinimum`).

The assumptions are `GraphsAssumption` (edges lead to nodes, the nodes are numbers and finitely many) and
`LimitAssumption`. Two invariants, one for each algorithm, hold side by side.

* *Tarjan* (`TarjanInv`). Numbers are distinct and the stack is in their order (`NumbersOK`,
  `StackOK`); the nodes of the calls are on it, each a successor of the one before (`CallsOK`).
  A node of the stack leads to those after it, and back to the node of a call that is under way (`Connected`); the
  low link of a call is the number of a node of the stack that its node leads to (`LowOK`), and no smaller one has
  been seen from the part of the stack that belongs to the call (`LookedAt`). Finished nodes lead to finished nodes only, and
  those on a cycle, but for self loops, are in `repeating` (`DoneOK`). A
  call whose low link is its number then closes a strongly connected component (`CloseRoot`), any other leaves
  its node connected to a call that is under way (`CloseInner`).
* *Cover* (`CoverInv`). Before the search: the greedy nodes meet the cycles that are no longer uncovered. During the
  search: every combination before the present one in the order they are tried (`Before`: by size, then
  lexicographic) misses a cycle. `NextCovers` says that `next_combination` skips none. So the first hit is a
  smallest cover, since all smaller sets are combinations that were tried.

The lemmas at the beginning connect both with the definitions the properties use: the enumeration finds exactly the simple cycles
(`CyclesAre`), a node that reaches itself lies on one (`ShortCycle`), and a loop that meets a self loop is
settled by it. So the assumption on which `StackIsBounded` rests, that each loop has a checked
block, is what `EveryCycleBroken` proves of the function that chooses them.

`StackAllocProofs` proves, however many calls are in progress and however they recurse:

* `Disjoint` (`LiveDisjoint`), `Restores` (`SpRestored`), `TypeCorrect` (`TypeOK`),

of programs that are `Static`: every function's frame has a known size, and functions that are passed variadic arguments
allocate nothing, nor does what they call. The first is needed because a frame of unknown size is never given back (`alloc_dynamic`), the second
because variadic arguments are stored one byte too high (section 5), where the callee's first
alloca would be. `TypeCorrect` also asks for `Room`, enough memory for the calls in progress: the code checks
no bound. That the programs of the run have both is an `ASSUME` of `MCStackAlloc`. The invariant (`IInv`) lays the frames
out: each begins where its caller's stack pointer was, less the arguments it was passed, its allocas are in the order
of the block within what it reserved, and the functions of the frames are a path in the call graph
(`Nested`). The last is what makes a function that skips reserving safe: get_fn_info lets it skip only if nothing it
reaches reserves, and later frames are of functions it reaches.

`CallsProofs` proves first of the operators of `JumpTable`, for every finite table of natural numbers:

* `SearchFinds`: a value with a branch leads to it, and any other to the default, if there is one
  and the value is within the limits the caller states; `BinarySearchFinds` for the callers that have neither.

A run of the conditions is a sequence of ranges (`Ranges`). `Holds` says of each that the number is at one
of its indices if it is in the table, that the limits are true of the value, and that it ends no
further than one past the table; every comparison shortens it (`NarrowedHolds`), so that `hi - lo` of them
are enough (`SearchEnds`). The bound on the end matters: the callers pass 1 at least, so a table of one branch is
searched one past its end, and there the code takes the default. That the last comparison can be left out when
the limits meet at a number (`Chosen`) is sound only because they are true of the value: a hypothesis on the caller
(a switch on an integer of its width), which `SamePosition` checks for the switches of `Calls`.

And of `Calls`, of both modes and with any values, pointers and number of calls in progress:

* `Follows` (`SamePosition`), `ReadsRight` (`ReadsAgree`), `Cleared` (`NothingLeftSaved`), `TypeCorrect` (`TypeOK`)
  and `Invariant` (`InvWhereCovered`),

of programs that are `Covered`. Programs are what `IsProgram` says, LLVM's rules: SSA form, no branch
to the first block, calls with as many arguments as there are parameters. `Covered` adds what the code needs:

* `NoRecursion`: no function can call itself through others or pointers, and nothing calls the entry point.
  What is saved around recursive calls is not always read again (`calls_recursion`), and recursion of two functions is not
  recognised at all (section 5), so the restriction is one of the code. It also means that nothing is ever saved.
* `KeepsParams`: no parameter is needed in the first block after a call to an address, and no function that takes a return
  address has such a call there or ends there. Otherwise the parameters are lost (5664).

That these hold of the programs of the run that are not recursive, and of no other, is an `ASSUME` of `MCCalls`; `calls`
checks the invariant on them. Recursion in branch-jump-table mode, and where nothing is needed afterwards, is
only model-checked.

`IInv` is about all calls in progress, since a value must survive until its call goes on:

* `StaticInv`: what the compiler found out. `Settled` has of every call that what it can call returns to the right place and
  that the caller of a function that returns to an address is one, and that nothing is saved.
* `FramesInv`: each call in progress waits at a call of the next one's function, and later ones are of functions the earlier
  ones can reach. So no function has two calls in progress, and its Scratch variables belong to one of them.
* `ContsInv`: the calls up to `Base` return to addresses and leave nothing on Scratch's stack; those
  above it are there, one each, with the parameters of the procedure they came from.
* `ValuesInv`: every variable that is live in a call in progress (`LiveOf`: after the call it waits at, if it does) is where it
  will be looked for then (`Where`): in the parameters it will find (`Kept`) or in its Scratch variable.
* `AddressInv`: the return address of each is that of the place it was called from, in the function's
  variable or in the procedure's for the signature.

The lemmas go the same way as the compiler. `DependsSettles`: the analysis of `Depends` has reached its fixed point after as many
passes as there are blocks, since it only grows; `LiveFacts` then says that it is liveness. `AmongReturnAddresses` and `ReturnFacts`:
every place a function can be called from is among its return addresses, and the number given for it leads back. `DispatchFinds`: the
addresses of different signatures do not overlap. `CalleeFacts` and `BranchFacts` take the rest from the lemmas on jump tables.
`InitSettled` puts them together; after that there is one lemma for each action.

`RegistersProofs` proves, for every width of integer, any operands, and parts and doubles of every size that
`BitsAssumption` allows (a double counts at least three bits further than a part; 48 and 53 in the code, 5 and 8 in
the run), whatever the width of the lookup tables:

* `NumberIsRight` (`SameNumber`), `TypeCorrect` (`TypeOK`), `ProductsAreExact` (`ExactProducts`).

The hypotheses are `RegistersAssumption` (operands are numbers of their width; the doubles that occur are those up to some
size, the infinities and NaN; comparisons need the type of one bit) and `Deviations = {}`: where an instruction
departs from LLVM in a way that `Deviation`, `DeviatesWide` or the guards named "fptoui" and "frem" exclude, the
result can be wrong (section 5). So the list of departures there is complete, up to `Defined` and `Supported`, for the instructions modelled: not within the bounds
of a run but for all widths. The product of odd width is one of them only if the product of the upper halves is odd.

Neither property is inductive alone: `SameNumber` says nothing of the range of the number, without which its parts
do not determine it, and `TypeOK` nothing of its value. The invariant `IInv` (`Holds`) has both, the number in the range of its type
and the parts its digits (`RegisterHolds`). The next result then depends on the operands only, and what remains is one
lemma per instruction: `Situated` operands (in range, defined, supported, no departure) have an `Exact`
result, whatever `Outcomes` chooses.

* *Parts* (`PartFacts`, `SplitFacts`, `LowerFacts`). The parts of a number are its digits, and what is below a part is less
  than one unit of it.
* *Sums.* The sum of two parts with the carry from below, taken modulo the part, is the digit of the sum (`PartOfSum`).
  A part alone tells whether it carries (`OutOfRange`), so the carry handed on (`CarriedIs`) is the same wherever it is
  put into a variable (`RawSumsAre`).
* *Bits* (`BitMasksProofs`). A number is the sum of its bits (`RemaindersFacts`). A table looked up
  group by group (`LookupKnownIsLowest`) and the masks, which pass over groups of equal bits of the known operand, add up the bits of
  the result from the top: `Passing` says which are accounted for before each step, `PassKeeps` that the step
  accounts for those it passes over and no other. Or and xor are reduced to and (`OrByAnd`, `XorKnownIsLowest`).
* *Products.* Of the four products of halves the code leaves one out, a multiple of 2^w for even widths. `CrossBound` bounds the others:
  `StepsAreExact` is why the limits 26, 34 and 50 are what they are.
* *Comparisons* go through the parts from the top; the first that differs decides (`PartsDecide`). Signed ones
  compare numbers moved by half the range (`Reversed`).

*Induction.* The induction theorems of the library cannot be used here, as they take an operator. `InductionLemmas` has them with a
set instead (`Induction`: a set of naturals with 0 and the successor of each member is all of
them), proved from the least element, and from them that a recursive function has the value its
recursion says (`RecursionExists`), which `Sums`, `SimplePaths`, `Pow2` and the passes over a mask need.

Only model-checked: liveness (`Resumes`, `Terminates`, `Settles`), which is out of the prover's reach; recursion in `Calls`;
`KnownValue`, `Memory` and the modules of `Toolchain`, whose expressions, layouts and scripts are trees that recursive
operators work on.

## 5. Where the code and the documentation disagree

Shown by a run:

* `alloc_dynamic`: a function whose allocas are not all in its first block never
  gives back its stack; the saved pointer is never read (translate.rs:5118).
* `calls_recursion`: variables saved as parameters around a recursive call are not read
  as parameters afterwards (translate.rs:5532).
* `export_for_each`: without hidden blocks a for-each loop counts twice (scratch/mod.rs:329 and
  349), the loop of `init_memory` (translate.rs:932) among them.

Met while modelling, without a run of their own. Where a passing run leaves something
out because of them, it says so.

Control and calls (line numbers of translate.rs unless named):

* `p2 = phi p3, p3 = phi p2, p4 = phi p2` cannot be compiled: the variable that would be
  reused has no value to copy (4896). `Fail` is that step.
* Variadic arguments are stored one byte too high, in the byte of the callee's first
  alloca (3147).
* What is saved around a call depends on the order of a hash set (5050).
* A call to an address in the first block loses the parameters and the return address
  (5664); in `calls`, such calls are in other blocks.
* Two functions that call each other are not considered recursive (5522); the Python program asks
  whether the caller is among what the callee can call. Recursion through pointers to functions
  that return to an address is missed the same way, and an entry function with a single
  return address then returns to the callback of the pointer's procedure.
* A saved variable with several parts is saved as its first part and zeros (698).
* The address of a call through a pointer is not among the uses collected for the rest of a block (4977), unlike those of
  whole blocks (graph_util.rs:131). After a call of the function itself in the same block it is the one of the inner call,
  so another function may be called. In `calls`, calls through a pointer that is kept are in later blocks.
* Restoring a parameter from the local stack is an error (variable.rs:24).
* `unavoidable_nodes` finds the first block only, because nothing leads to `ret`
  (graph_util.rs:474); the consequence is that more functions reserve their stack block by block.
* Recursion through functions that return to an address is not checked, so a deep recursion
  without a loop may still overflow Scratch's stack (5411).
* In branch-jump-table mode, calls of the first block are not replaced in branches to it (6015).
* A callee whose stack is of unknown size counts as one that uses none (1930). `Unreachable` emits
  nothing, so the procedure just ends.

Numbers (left out of `registers` by `Deviation`, `Supported` and the guards named "wide icmp", "fptoui" and "frem"):

* With `compiler_minify`, a sum whose constant is on the left and shorter as its complement becomes the
  complement minus the other operand (2019-2047).
* `ashr` rounds negative numbers towards zero (2782); `sdiv` of operands with different signs gives 2^w when
  the quotient is 0 (2565-2620); `srem` has the wrong sign or 2^w for some signs (2667).
* `shl` of two parts by more than the width of the second (2290-2302); shifts of wide integers
  by more than a part are refused.
* Products of odd width from 27 to 47 bits can be wrong in the top bit: the product of the upper halves is
  left out, but counts there if it is odd (2842). The proof in README.md is for even widths and is
  "generalised for n bits" (203).
* `uge` and `ule` of several parts, and `sge` and `sle` of three, compare the parts above the lowest
  the wrong way round (2418).
* `xor i1` with the constant 0 is the negation (binop.rs:471).
* `fptoui` of a number between -1 and 0, which LLVM makes 0, rounds down and gives -1 (3936-3938).
* `frem` of an exact multiple takes the divisor away once more if the signs differ, and so does `frem` of a constant 0 by a
  positive number, which counts as a difference (3556-3604). Comparisons with NaN
  are right at run time, but folded by rules that do not know it.
* Conversions to and from types of more than 48 bits are refused or take the first part
  (3870-3900).
* The tables that `gen_lut_runtime` asks for are never generated (5942).

Memory:

* A negative constant index of more than 53 bits loses its sign (twos_complement.rs:63), since it is
  rounded before it is taken apart.
* Loads and stores of a whole struct or array use sizes without padding (615-685), and the initial
  memory pads even with `--no-accurate-byte-spacing` (784).

Optimizer and export:

* `(x + c) - c` is simplified to `x + c` (known_value_prop.rs:531, with the comment
  "Python quirk"); `SameValue` fails in two steps if such an expression is added to `MCSources`.
* `k < bool_to_float(b)` is decided as `bool_to_float(b) >= k`
  (known_value_prop.rs:375), so `0 < b` becomes true. Same test.
* A number is moved across a comparison in the operands as they were before the pass (known_value_prop.rs:319), so their
  simplification is lost: `4 < 2 + (1 - x)` ends as `2 < 1 - x`, which is right but not folded.
* `while` with a condition known to be true is deleted (known_value_prop.rs:730).
* A known branch that ends the script leaves the loop before the change is counted (705-728), so it is lost
  when nothing else changes.
* What a called procedure modifies is followed through one pass over the callees
  (assignment_elision.rs:1303-1334, said in a comment), enough for the chains of two calls of the run.
* An assignment with one use is moved whatever it reads, the clock in days included, against the comment
  at assignment_elision.rs:848; the reads of a loop's condition do not count as reads of its
  body (585); the variable of a for-each loop does not count as modified.
* Replacing nested for-each loops turns every other one (scratch/mod.rs:205-241).
  `item of list` names the parent of the expression as parent of its index, as the Python program does.
  A decrement of the counter is exported as an increment, the length of a list as an item of it.

## 6. Not modelled, and why

Values, in `Calls` and `StackReset`: they leave open what instructions compute, and `Calls` has
variables of one part, because with two every save fails (section 5). Fractions, except where a
double is converted or compared; vectors, which are translated element by element; the
bit-counting intrinsics. In `Memory`, loads as another type than was stored and `memset` with
bytes other than 0, for which one slot per part has no meaning. `KnownValue` leaves out floating-point
effects, strings and lists.

Broadcasts and the scripts they start, questions and their answer, costumes, volume, pen and motion:
`assignment_elision.rs` treats a broadcast like a call and the answer and the costume like variables
(115-121, 231-254, 485, 537, 611-657, 713-747), and the export has a case for each (such as scratch/mod.rs:317-321 and 455-459).
`Elision`, `Optimizer` and `Export` have calls, variables, `say` and `wait` instead.

Formatting and file I/O, identifiers' characters, the zip file, the text form of a
project and TOML have no state. The parser is a syntax-directed conversion from
the vendored one's tree, the IR and the targets are data. The foreign functions are fixed block
lists. The dominator tree inside `unavoidable_nodes` is not, as its result has one value
(section 5). Branches back to the first block in branch-jump-table mode fail by one line
(section 5).

## 7. The plan

What the modules still lack, the most important first:

1. The theorems of `CallsProofs` for recursion in branch-jump-table mode, where the local stack has to be
   matched with the calls in progress.
2. Wide variables in `Calls`, once the code saves all their parts.
3. `Unavoidable`: the dominator tree against paths.
