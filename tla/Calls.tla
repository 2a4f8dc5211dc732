------------------------------- MODULE Calls -------------------------------
(* Local variables, parameters and return addresses across calls.            *)
(*                                                                          *)
(* LLVM gives every call of a function its own variables.  The generated     *)
(* project has one Scratch variable "%f:x" for the variable x of function f, *)
(* parameters "%x" of the procedure that is running, and, for functions      *)
(* that return to an address, the address in "%f:return address".            *)
(* get_fn_info, analyze_function_block_var_use and compute_must_store decide *)
(* at compile time what is saved around a call; trans_funcs and              *)
(* trans_terminator_instr generate the code, trans_func_ptr_sigs that of      *)
(* calls through pointers, and post_opt_transform makes each function one     *)
(* procedure for targets that prefer branch jump tables                      *)
(* (src/src/compiler/translate.rs, graph_util.rs).                           *)
(*                                                                          *)
(* The program and its generated project run in step, for as long as they    *)
(* are at the same instruction.  What an instruction computes and which way  *)
(* a branch goes is left open, but both do the same.  Programs are in SSA    *)
(* form without phi nodes (see PhiAssign); resets of Scratch's stack are     *)
(* invisible here (see StackReset).  Every variable has one part, so a        *)
(* signature is a number of parameters.                                      *)
EXTENDS JumpTable, Reachability, TLC

CONSTANTS
    Programs,  \* by cfg.use_branch_jump_table: sets of [Fn -> [params, first, body, term]]
    Entry,     \* cfg.entrypoint
    Orders,    \* the orders a set of labels can be enumerated in
    Val,       \* values of variables; 0 is among them
    Pointer,   \* the addresses of functions, to the program
    FirstAddress, \* min_func_ptr_addr: the first one in the project
    MaxCalls   \* calls in progress, at most: a bound of the model

VARIABLES
    prog, order,
    jumpTable, \* cfg.use_branch_jump_table
    pointers,  \* ctx.fn_ptr_sigs: signatures, and the functions whose addresses are taken
    info,      \* ctx.fn_info and the variables saved around each call
    sigInfo,   \* ctx.fn_ptr_sig_info
    acts,      \* the program: calls in progress, each with its variables
    at,        \* the project: function, block and instruction
    params,    \* the parameters of the procedure that is running
    conts,     \* calls Scratch will come back from, with their parameters
    glob,      \* the Scratch variables, by function and name
    sigReturn, \* the variable "return address" of the procedure for each signature
    retVar,    \* the variable "return value"
    localStack \* the list of saved variables

vars == <<prog, order, jumpTable, pointers, info, sigInfo, acts, at, params, conts, glob, sigReturn, retVar, localStack>>

Op(dst, uses)         == [op |-> "op", dst |-> dst, uses |-> uses, vals |-> Val, refs |-> {}]
Pick(dst, vals)       == [Op(dst, {}) EXCEPT !.vals = vals]
Take(dst, fns)        == [Op(dst, {}) EXCEPT !.vals = {Pointer[f] : f \in fns}, !.refs = fns]
Invoke(dst, to, args) == [op |-> "call", dst |-> dst, uses |-> ToSet(args), to |-> to, args |-> args, refs |-> {}]
InvokePointer(dst, ptr, args) ==
    [op |-> "call", dst |-> dst, uses |-> {ptr} \cup ToSet(args), to |-> "", ptr |-> ptr, args |-> args, refs |-> {}]
Term(uses, to)        == [uses |-> uses, to |-> to, on |-> ""]
Switch(on, max, cases, default) ==
    [uses |-> {on}, to |-> {default} \cup Range(cases), on |-> on, max |-> max, cases |-> cases, default |-> default]

return_address == "return address"
branch_id      == "branch id"        \* branch_jump_table_addr_local

-----------------------------------------------------------------------------
(* Which variables a block uses: analyze_function_block_var_use.             *)

Label(fn)      == DOMAIN fn.body
Size(fn, b)    == Len(fn.body[b])
Uses(fn, b, j) == IF j <= Size(fn, b) THEN fn.body[b][j].uses ELSE fn.term[b].uses
Results(fn, b, from, to) == {fn.body[b][j].dst : j \in from .. to}

\* Used by an instruction of a block and not set before.
DirectDepends(fn, b) ==
    UNION {Uses(fn, b, j) \ Results(fn, b, 1, j - 1) : j \in 1 .. Size(fn, b) + 1}

\* What the blocks after a block depend on, as known so far.
Following(fn, d, b) == UNION {d[c] : c \in fn.term[b].to}

\* analyze: repeated until nothing changes, at most once for every block.
DependsStep(fn, d) ==
    [b \in Label(fn) |-> DirectDepends(fn, b) \cup (Following(fn, d, b) \ Results(fn, b, 1, Size(fn, b)))]

Depends(fn) ==
    LET d[n \in Nat] == IF n = 0 THEN [b \in Label(fn) |-> DirectDepends(fn, b)] ELSE DependsStep(fn, d[n - 1])
    IN  d[Cardinality(Label(fn))]

Modifies(fn) ==
    LET m[n \in Nat] == [b \in Label(fn) |-> Results(fn, b, 1, Size(fn, b))
                                             \cup IF n = 0 THEN {} ELSE UNION {m[n - 1][c] : c \in fn.term[b].to}]
    IN  m[Cardinality(Label(fn))]

-----------------------------------------------------------------------------
(* Function pointers: collect_fn_ptr_sigs, get_func_ptr_addr.                *)

Instrs(fn)   == UNION {ToSet(fn.body[b]) : b \in Label(fn)}
AllInstrs(p) == UNION {Instrs(p[f]) : f \in DOMAIN p}
IsCall(i)    == i.op = "call"
ByPointer(i) == i.to = ""

\* The functions whose addresses are taken, and the calls through pointers.
Refs(p)           == UNION {i.refs : i \in AllInstrs(p)}
PointerCalls(p)   == {i \in AllInstrs(p) : IsCall(i) /\ ByPointer(i)}
Sharing(p, count) == {f \in Refs(p) : Len(p[f].params) = count}

\* In some order.
FnPtrSigs(p) ==
    LET signatures == SetToSeq({Len(p[f].params) : f \in Refs(p)} \cup {Len(i.args) : i \in PointerCalls(p)})
    IN  [s \in DOMAIN signatures |->
            [params |-> signatures[s], targets |-> SetToSeq(Sharing(p, signatures[s]))]]

FirstOf(sigs, s) ==
    LET first[n \in DOMAIN sigs] == IF n = 1 THEN FirstAddress ELSE first[n - 1] + Len(sigs[n - 1].targets)
    IN  first[s]

FuncPtrAddr(sigs, f) ==
    LET s == CHOOSE s \in DOMAIN sigs : f \in ToSet(sigs[s].targets)
    IN  FirstOf(sigs, s) + (CHOOSE n \in DOMAIN sigs[s].targets : sigs[s].targets[n] = f) - 1

SignatureOf(sigs, i) == CHOOSE s \in DOMAIN sigs : sigs[s].params = Len(i.args)

\* A pointer that can be the address of one function only is not looked at.
CouldCall(sigs, i)  == IF ByPointer(i) THEN sigs[SignatureOf(sigs, i)].targets ELSE <<i.to>>
Dispatched(sigs, i) == Len(CouldCall(sigs, i)) # 1

-----------------------------------------------------------------------------
(* get_fn_info and compute_must_store.                                       *)

HasLoop(fn) == LET next == [b \in Label(fn) |-> fn.term[b].to] IN \E b \in Label(fn) : b \in Reached(next, b)

Callees(sigs, fn)  == UNION {ToSet(CouldCall(sigs, i)) : i \in {i \in Instrs(fn) : IsCall(i)}}
CallGraph(p, sigs) == [f \in DOMAIN p |-> Callees(sigs, p[f])]

\* Functions with a loop, and those that call one; none with branch jump tables.
ReturnsToAddress(mode, p, sigs) ==
    LET calls == CallGraph(p, sigs)
    IN  {f \in DOMAIN p : ~mode /\ \E g \in {f} \cup Reached(calls, f) : HasLoop(p[g])}

Site(f, b, k) == [fn |-> f, block |-> b, k |-> k]

\* localize_func_ptr_sig_callback
Callback(s)      == Site("", "callback", s)
IsCallback(site) == site.fn = ""

\* The places of some instructions in a program, in some order.
SitesOf(p, instrs) ==
    SetToSeq(UNION {UNION {{Site(f, b, k) : k \in {k \in DOMAIN p[f].body[b] : p[f].body[b][k] \in instrs}} :
                           b \in Label(p[f])} : f \in DOMAIN p})

\* The return addresses of a function: the calls of it, and the end of a call
\* through a pointer that may be one.
ReturnAddresses(p, sigs, f) ==
    SitesOf(p, {i \in AllInstrs(p) : IsCall(i) /\ CouldCall(sigs, i) = <<f>>})
    \o SetToSeq({Callback(s) : s \in {s \in DOMAIN sigs : /\ Len(sigs[s].targets) # 1
                                                         /\ f \in ToSet(sigs[s].targets)}})

\* The calls through pointers of one signature.
SigReturnAddresses(p, sigs, s) ==
    SitesOf(p, {i \in PointerCalls(p) : Dispatched(sigs, i) /\ SignatureOf(sigs, i) = s})

\* What counts as used by an instruction after a call: of another call the
\* arguments, not the pointer it is made through.
Collected(fn, b, j) ==
    IF j <= Size(fn, b) /\ IsCall(fn.body[b][j]) THEN ToSet(fn.body[b][j].args) ELSE Uses(fn, b, j)

\* Used by the rest of the block, and set neither there nor by the k-th instruction.
Rest(fn, b, k) ==
    UNION {Collected(fn, b, j) \ Results(fn, b, k, j - 1) : j \in k + 1 .. Size(fn, b) + 1}

\* Faulty: only what the rest of the block uses.
NextVarUseOfBlock(fn, b, k) == Rest(fn, b, k)

\* compute_next_var_use: the variables used after the k-th instruction.  The
\* results of one label's blocks are taken off what the next one depends on.
NextVarUse(fn, b, k) ==
    LET before(c) == {d \in fn.term[b].to : \E m, n \in DOMAIN order :
                         m < n /\ order[m] = d /\ order[n] = c}
    IN  Rest(fn, b, k) \cup
        UNION {Depends(fn)[c] \ (Results(fn, b, k, Size(fn, b))
                                 \cup UNION {Modifies(fn)[d] : d \in before(c)}) :
               c \in fn.term[b].to}

\* Faulty: the return address is not among the saved variables.
MustStoreLocals(f, b, k, takes) ==
    IF IsCall(prog[f].body[b][k]) /\ CouldCall(pointers, prog[f].body[b][k]) = <<f>>
    THEN NextVarUse(prog[f], b, k) \ (IF jumpTable THEN ToSet(prog[f].params) ELSE {}) ELSE {}

\* compute_must_store, for a call that is recursive.  With branch jump tables
\* parameters are there until the function ends.
MustStore(f, b, k, takes) ==
    IF IsCall(prog[f].body[b][k]) /\ CouldCall(pointers, prog[f].body[b][k]) = <<f>>
    THEN (NextVarUse(prog[f], b, k) \ (IF jumpTable THEN ToSet(prog[f].params) ELSE {}))
         \cup (IF takes THEN {return_address} ELSE {}) \cup (IF jumpTable THEN {branch_id} ELSE {})
    ELSE {}

FnInfo ==
    LET rta == ReturnsToAddress(jumpTable, prog, pointers)
    IN  [f \in DOMAIN prog |->
            LET sites == ReturnAddresses(prog, pointers, f)
                takes == f \in rta /\ Len(sites) > 1
            IN  [returnsToAddress |-> f \in rta,
                 takesReturnAddress |-> takes,
                 returnAddresses |-> sites,
                 depends |-> Depends(prog[f]),
                 mustStore |-> [b \in Label(prog[f]) |->
                                   [k \in DOMAIN prog[f].body[b] |-> MustStore(f, b, k, takes)]]]]

SigInfo ==
    LET rta == ReturnsToAddress(jumpTable, prog, pointers)
        calls == CallGraph(prog, pointers)
    IN  [s \in DOMAIN pointers |->
            LET targets == ToSet(pointers[s].targets)
                sites == SigReturnAddresses(prog, pointers, s)
                returns == targets \cap rta # {}
            IN  [returnsToAddress |-> returns,
                 takesReturnAddress |-> returns /\ Len(sites) > 1,
                 returnAddresses |-> sites,
                 couldRecurse |-> \E n \in DOMAIN sites : \E f \in targets :
                                      sites[n].fn \in {f} \cup Reached(calls, f)]]

-----------------------------------------------------------------------------
(* What a program is, as LLVM has it.                                        *)

\* The edges between the blocks, but for those that set x.
Without(fn, x) == [b \in Label(fn) |-> IF x \in Results(fn, b, 1, Size(fn, b)) THEN {} ELSE fn.term[b].to]

\* No variable is read before it is set.
ReadsAfterSets(fn) ==
    \A b \in Label(fn) : \A x \in DirectDepends(fn, b) \ ToSet(fn.params) :
        b \notin {fn.first} \cup Reached(Without(fn, x), fn.first)

\* An address is in a value only where the function is named.
IsInstruction(p, i) ==
    /\ i.refs \subseteq DOMAIN p \cap DOMAIN Pointer
    /\ \/ /\ i.op = "op" /\ i.vals \subseteq Nat
          /\ {f \in DOMAIN Pointer : Pointer[f] \in i.vals} \subseteq i.refs
       \/ /\ i.op = "call" /\ i.args \in Seq(i.uses)
          /\ IF ByPointer(i) THEN i.ptr \in i.uses
             ELSE i.to \in DOMAIN p /\ Len(i.args) = Len(p[i.to].params)

\* The first block of a function is branched to by none.
IsTerminator(fn, t) ==
    /\ t.to \subseteq Label(fn) \ {fn.first}
    /\ t.to = {} => t.uses # {}
    /\ t.on # "" => /\ t.on \in t.uses /\ t.max \in Nat
                    /\ IsFiniteSet(DOMAIN t.cases) /\ DOMAIN t.cases \subseteq Nat
                    /\ Range(t.cases) \cup {t.default} \subseteq t.to

IsFunction(p, fn) ==
    /\ IsFiniteSet(Label(fn)) /\ fn.first \in Label(fn) /\ Nothing \notin Label(fn)
    /\ fn.params \in Seq(ToSet(fn.params))
    /\ DOMAIN fn.term = Label(fn)
    /\ \A b \in Label(fn) :
           /\ fn.body[b] \in Seq(ToSet(fn.body[b])) /\ IsTerminator(fn, fn.term[b])
           /\ \A i \in ToSet(fn.body[b]) : /\ IsInstruction(p, i)
                                          /\ i.dst \notin {return_address, branch_id} \cup ToSet(fn.params)
    /\ {return_address, branch_id} \cap ToSet(fn.params) = {}
    /\ ReadsAfterSets(fn)

IsProgram(p) == /\ IsFiniteSet(DOMAIN p) /\ "" \notin DOMAIN p
                /\ Entry \in DOMAIN p /\ p[Entry].params = << >>
                /\ \A f \in DOMAIN p : IsFunction(p, p[f])

ASSUME ProgramsAssumption ==
    /\ DOMAIN Programs \subseteq BOOLEAN
    /\ \A mode \in DOMAIN Programs : \A p \in Programs[mode] : IsProgram(p)
ASSUME PointerAssumption ==
    /\ FirstAddress \in Nat
    /\ \A f, g \in DOMAIN Pointer : Pointer[f] = Pointer[g] => f = g

-----------------------------------------------------------------------------
(* The generated code.                                                       *)

\* get_call_return_addr_info
CallInfo(i)     == IF Dispatched(pointers, i) THEN sigInfo[SignatureOf(pointers, i)]
                   ELSE info[CouldCall(pointers, i)[1]]
CallsAddress(i) == IsCall(i) /\ CallInfo(i).returnsToAddress

\* bctx.available_params: in the first block, up to the first call that comes
\* back to another procedure; with branch jump tables everywhere.
Available(s) ==
    IF jumpTable \/ (/\ s.block = prog[s.fn].first
                     /\ \A j \in 1 .. s.k - 1 : ~CallsAddress(prog[s.fn].body[s.block][j]))
    THEN ToSet(prog[s.fn].params)
         \cup (IF info[s.fn].takesReturnAddress THEN {return_address} ELSE {})
    ELSE {}

NoParams       == [n \in {} |-> 0]
GetParam(p, x) == IF <<x>> \in DOMAIN p THEN p[<<x>>] ELSE 0

\* trans_value, with some names taken for parameters.
Value(x, avail, p) == IF x \in avail THEN GetParam(p, x) ELSE glob[<<at.fn, x>>]
Read(x)            == Value(x, Available(at), params)

fn    == prog[at.fn]
instr == fn.body[at.block][at.k]

\* Saving a parameter on the local stack is an error: it cannot be restored.
Compiles ==
    \A f \in DOMAIN prog : \A b \in Label(prog[f]) : \A k \in DOMAIN prog[f].body[b] :
        CallsAddress(prog[f].body[b][k]) =>
            (info[f].mustStore[b][k] \ {return_address}) \cap Available(Site(f, b, k)) = {}

Act(f, env) == [fn |-> f, block |-> prog[f].first, k |-> 1, env |-> env]
Names       == {<<f, x>> : f \in DOMAIN prog,
                           x \in {return_address, branch_id} \cup UNION {
                               ToSet(prog[g].params) \cup UNION {Results(prog[g], b, 1, Size(prog[g], b)) :
                                                                 b \in Label(prog[g])} : g \in DOMAIN prog}}

Init == /\ jumpTable \in DOMAIN Programs /\ prog \in Programs[jumpTable]
        /\ order \in Orders
        /\ pointers = FnPtrSigs(prog)
        /\ info = FnInfo /\ sigInfo = SigInfo /\ Compiles
        /\ acts = <<Act(Entry, [x \in {} |-> 0])>>
        /\ at = Site(Entry, prog[Entry].first, 1)
        /\ params = NoParams /\ conts = << >>
        /\ glob = [n \in Names |-> 0]
        /\ sigReturn = [s \in DOMAIN pointers |-> 0]
        /\ retVar = 0
        /\ localStack = << >>

Stopped == Site("", "", 0)

act      == Last(acts)
Position == IF acts = << >> THEN Stopped ELSE Site(act.fn, act.block, act.k)
InStep   == at = Position /\ at # Stopped
static   == <<prog, order, jumpTable, pointers, info, sigInfo>>

\* Local variables of the program.
Set(env, x, v)  == [y \in DOMAIN env \cup {x} |-> IF y = x THEN v ELSE env[y]]
SetAct(a)       == acts' = [acts EXCEPT ![Len(acts)] = a]

\* A value of the program in the project: trans_value of an address.
Translated(sigs, v) ==
    IF v \in Range(Pointer) THEN FuncPtrAddr(sigs, CHOOSE f \in DOMAIN Pointer : Pointer[f] = v) ELSE v

DoOp == /\ InStep /\ at.k <= Size(fn, at.block) /\ instr.op = "op"
        /\ \E v \in instr.vals : /\ SetAct([act EXCEPT !.k = @ + 1, !.env = Set(@, instr.dst, v)])
                                 /\ glob' = [glob EXCEPT ![<<at.fn, instr.dst>>] = Translated(pointers, v)]
        /\ at' = [at EXCEPT !.k = @ + 1]
        /\ UNCHANGED <<static, params, conts, sigReturn, retVar, localStack>>

\* The function a call of the program calls.  A pointer must be the address of
\* a function with as many parameters: the program means nothing otherwise.
CalledByAddress(v) == CHOOSE f \in DOMAIN Pointer : Pointer[f] = v
Called    == IF ByPointer(instr) THEN CalledByAddress(act.env[instr.ptr]) ELSE instr.to
Pointed   == ByPointer(instr) => \E f \in Sharing(prog, Len(instr.args)) : Pointer[f] = act.env[instr.ptr]

AtCall == InStep /\ at.k <= Size(fn, at.block) /\ IsCall(instr) /\ Pointed /\ Len(acts) < MaxCalls
Saved  == info[at.fn].mustStore[at.block][at.k]

\* Faulty: no addresses are left for pointers that are not looked at.
DispatchTableDense(sigs, s) ==
    LET targets == sigs[s].targets
        first == FoldLeft(LAMBDA a, sig : a + (IF Len(sig.targets) = 1 THEN 0 ELSE Len(sig.targets)),
                          FirstAddress, SubSeq(sigs, 1, s - 1))
    IN  [a \in first .. first + Len(targets) - 1 |-> targets[a - first + 1]]

\* trans_func_ptr_sigs: the branches of the procedure for a signature.
DispatchTable(sigs, s) ==
    LET targets == sigs[s].targets
    IN  [a \in FirstOf(sigs, s) .. FirstOf(sigs, s) + Len(targets) - 1 |-> targets[a - FirstOf(sigs, s) + 1]]

Looked(value, table) == BinarySearch(value, table, HighestOr1(table))

Callee == IF Dispatched(pointers, instr) THEN Looked(Read(instr.ptr), DispatchTable(pointers, SignatureOf(pointers, instr)))
          ELSE CouldCall(pointers, instr)[1]

Numbered(s, x) == CHOOSE n \in DOMAIN s : s[n] = x

\* The callee starts, with the values of its parameters.
Enter(values, from) ==
    LET bound(f, vs) == [n \in {<<prog[f].params[i]>> : i \in DOMAIN prog[f].params} |->
                            vs[CHOOSE i \in DOMAIN prog[f].params : <<prog[f].params[i]>> = n]]
        env    == [i \in DOMAIN instr.args |-> act.env[instr.args[i]]]
    IN  /\ at' = Site(Callee, prog[Callee].first, 1)
        /\ params' = IF info[Callee].takesReturnAddress
                     THEN Set(bound(Callee, values), <<return_address>>,
                              Numbered(info[Callee].returnAddresses, from) - 1)
                     ELSE bound(Callee, values)
        /\ acts' = Append(acts, Act(Called, [x \in ToSet(prog[Called].params) |-> bound(Called, env)[<<x>>]]))

Arguments(avail, p) == [i \in DOMAIN instr.args |-> Value(instr.args[i], avail, p)]
Pushed == IF Saved = {} THEN localStack ELSE Append(localStack, [x \in Saved |-> glob[<<at.fn, x>>]])

\* A call that Scratch comes back from.  Variables needed afterwards, if the
\* call is recursive, become the parameters of a procedure of their own, in
\* which the arguments are translated with all of them taken for parameters;
\* with branch jump tables they go to the local stack.
CallAndReturn ==
    /\ AtCall /\ ~CallsAddress(instr)
    /\ LET avail == Available(at)
           name(x) == IF x \in avail THEN <<x>> ELSE <<at.fn, x>>
           inner == [n \in {name(x) : x \in Saved} |-> Read(CHOOSE x \in Saved : name(x) = n)]
       IN  IF jumpTable \/ Saved = {}
           THEN Enter(Arguments(avail, params), at) /\ conts' = Append(conts, [at |-> at, params |-> params])
           ELSE Enter(Arguments(Saved, inner), at) /\ conts' = Append(conts, [at |-> at, params |-> inner])
    /\ localStack' = IF jumpTable THEN Pushed ELSE localStack
    /\ UNCHANGED <<static, glob, sigReturn, retVar>>

\* A call that returns to an address.  Variables needed afterwards, if it is
\* recursive, go to the local stack.
CallToAddress ==
    /\ AtCall /\ CallsAddress(instr) /\ ~Dispatched(pointers, instr)
    /\ Enter(Arguments(Available(at), params), at)
    /\ localStack' = Pushed
    /\ UNCHANGED <<static, conts, glob, sigReturn, retVar>>

\* The same through a pointer: the procedure for the signature keeps the return
\* address, and is what the function called returns to.
DispatchToAddress ==
    /\ AtCall /\ CallsAddress(instr) /\ Dispatched(pointers, instr)
    /\ LET s == SignatureOf(pointers, instr)
           address == Numbered(sigInfo[s].returnAddresses, at) - 1
       IN  /\ Enter(Arguments(Available(at), params), Callback(s))
           /\ sigReturn' = IF sigInfo[s].takesReturnAddress /\ ~sigInfo[s].couldRecurse
                           THEN [sigReturn EXCEPT ![s] = address] ELSE sigReturn
           /\ localStack' = IF sigInfo[s].takesReturnAddress /\ sigInfo[s].couldRecurse
                            THEN Append(localStack, return_address :> address) ELSE localStack
           /\ conts' = IF info[Callee].returnsToAddress THEN conts
                       ELSE Append(conts, [at |-> Callback(s), params |-> NoParams])
    /\ UNCHANGED <<static, glob, retVar>>

\* Faulty: the return address is not among what a block may need.
PossDependsLocals(to) == UNION {info[at.fn].depends[b] : b \in to}

\* terminator_poss_depends: what the blocks branched to may need.
PossDepends(to) == {return_address} \cup UNION {info[at.fn].depends[b] : b \in to}

\* assign_parameters: parameters become variables, if they are needed.
AssignParameters(needed) ==
    LET keep == Available(at) \cap needed
    IN  glob' = [n \in DOMAIN glob |-> IF n[1] = at.fn /\ n[2] \in keep THEN GetParam(params, n[2])
                                       ELSE glob[n]]

\* Where a branch of the program goes to, and the one of the project.
\* A switch is on a number of its width.
Targets == LET t == fn.term[at.block]
               v == act.env[t.on]
           IN  IF t.on = "" THEN t.to
               ELSE {b \in t.to : /\ v \in 0 .. t.max /\ v \notin Range(Pointer)
                                  /\ b = IF v \in DOMAIN t.cases THEN t.cases[v] ELSE t.default}
Selected(b) == LET t == fn.term[at.block]
               IN  IF t.on = "" THEN b
                   ELSE Search(Read(t.on), t.cases, t.default, 0, t.max, 0, HighestOr1(t.cases))

\* A branch to the procedure of another block.
Branch ==
    /\ InStep /\ at.k > Size(fn, at.block) /\ ~jumpTable
    /\ AssignParameters(PossDepends(fn.term[at.block].to))
    /\ \E b \in Targets : /\ at' = Site(at.fn, Selected(b), 1)
                          /\ SetAct([act EXCEPT !.block = b, !.k = 1])
    /\ params' = NoParams
    /\ UNCHANGED <<static, conts, sigReturn, retVar, localStack>>

\* post_opt_transform: the blocks but the first are the branches of one loop,
\* and a call of one of them sets the variable that chooses among them.
BlockTable(f) == LET labels == SetToSeq(Label(f) \ {f.first})
                 IN  [n \in 0 .. Len(labels) - 1 |-> labels[n + 1]]

Iterate ==
    /\ InStep /\ at.k > Size(fn, at.block) /\ jumpTable
    /\ \E b \in Targets :
           LET table == BlockTable(fn)
               id == CHOOSE n \in DOMAIN table : table[n] = Selected(b)
           IN  /\ glob' = [glob EXCEPT ![<<at.fn, branch_id>>] = id]
               /\ at' = Site(at.fn, BinarySearch(id, table, Highest(table)), 1)
               /\ SetAct([act EXCEPT !.block = b, !.k = 1])
    /\ UNCHANGED <<static, params, conts, sigReturn, retVar, localStack>>

\* The program returns to the caller.
PopAct(v) ==
    IF Len(acts) = 1 THEN acts' = << >>
    ELSE LET caller == acts[Len(acts) - 1]
         IN  acts' = Append(Front(Front(acts)),
                 [caller EXCEPT !.k = @ + 1,
                                !.env = Set(@, prog[caller.fn].body[caller.block][caller.k].dst, v)])

Result(s) == <<s.fn, prog[s.fn].body[s.block][s.k].dst>>

\* Faulty: the procedure after the next instruction is taken for the one after
\* the call.
AfterCallNext(s, p, v, stack) ==
    /\ at' = [s EXCEPT !.k = @ + 2]
    /\ params' = p /\ glob' = [glob EXCEPT ![Result(s)] = v] /\ localStack' = stack

Restored(s, saved, set) == [n \in DOMAIN glob |-> IF n[1] = s.fn /\ n[2] \in DOMAIN saved THEN saved[n[2]] ELSE set[n]]

\* Faulty: the local stack keeps its size.
AfterCallKeeps(s, p, v, stack) ==
    LET set == [glob EXCEPT ![Result(s)] = v]
    IN  /\ at' = [s EXCEPT !.k = @ + 1] /\ params' = p /\ localStack' = stack
        /\ glob' = IF info[s.fn].mustStore[s.block][s.k] # {} /\ stack # << >>
                   THEN Restored(s, Last(stack), set) ELSE set

\* The code after a call: the result, then the variables that were saved.
AfterCall(s, p, v, stack) ==
    LET restore == /\ info[s.fn].mustStore[s.block][s.k] # {} /\ stack # << >>
                   /\ jumpTable \/ CallInfo(prog[s.fn].body[s.block][s.k]).returnsToAddress
        set == [glob EXCEPT ![Result(s)] = v]
    IN  /\ at' = [s EXCEPT !.k = @ + 1]
        /\ params' = p
        /\ glob' = IF restore THEN Restored(s, Last(stack), set) ELSE set
        /\ localStack' = IF restore THEN Front(stack) ELSE stack

\* trans_return_addr: the call that what returns to an address was entered from,
\* if it has only one or as the address says.
ReturnTarget(i, address) ==
    IF i.takesReturnAddress THEN Looked(address, [n \in 0 .. Len(i.returnAddresses) - 1 |-> i.returnAddresses[n + 1]])
    ELSE i.returnAddresses[1]

\* The end of a call: what called, or the procedure for a signature, which goes on
\* to what called that.
Arrive(site, p, v) ==
    IF IsCallback(site)
    THEN LET s == site.k
             kept == sigInfo[s].takesReturnAddress /\ sigInfo[s].couldRecurse
             address == IF kept THEN Last(localStack)[return_address] ELSE sigReturn[s]
         IN  AfterCall(ReturnTarget(sigInfo[s], address), NoParams, v, IF kept THEN Front(localStack) ELSE localStack)
    ELSE AfterCall(site, p, v, localStack)

\* Ret: the result, then to the return address, or back to Scratch.
Ret ==
    /\ InStep /\ at.k > Size(fn, at.block) /\ fn.term[at.block].to = {}
    /\ LET x == CHOOSE y \in fn.term[at.block].uses : TRUE
           addresses == info[at.fn].returnAddresses
           last == Last(conts)
       IN  /\ PopAct(act.env[x])
           /\ retVar' = Read(x)
           /\ \/ /\ info[at.fn].returnsToAddress /\ addresses # << >>
                 /\ Arrive(ReturnTarget(info[at.fn], glob[<<at.fn, return_address>>]), NoParams, Read(x))
                 /\ UNCHANGED conts
              \/ /\ ~info[at.fn].returnsToAddress /\ conts # << >>
                 /\ Arrive(last.at, last.params, Read(x))
                 /\ conts' = Front(conts)
              \/ /\ IF info[at.fn].returnsToAddress THEN addresses = << >> ELSE conts = << >>
                 /\ at' = Stopped /\ params' = NoParams
                 /\ UNCHANGED <<conts, glob, localStack>>
    /\ UNCHANGED <<static, sigReturn>>

Next == DoOp \/ CallAndReturn \/ CallToAddress \/ DispatchToAddress \/ Branch \/ Iterate \/ Ret
Spec == Init /\ [][Next]_vars

-----------------------------------------------------------------------------
(* Correctness.                                                              *)

TypeOK ==
    /\ \A n \in DOMAIN acts : acts[n].fn \in DOMAIN prog /\ acts[n].block \in Label(prog[acts[n].fn])
    /\ at # Stopped => /\ at.fn \in DOMAIN prog /\ at.block \in Label(fn)
                       /\ at.k \in 1 .. Size(fn, at.block) + 1
    /\ \A n \in DOMAIN params : params[n] \in Nat
    /\ \A n \in DOMAIN conts : IsCallback(conts[n].at) \/ ~CallsAddress(prog[conts[n].at.fn].body[conts[n].at.block][conts[n].at.k])
    /\ \A n \in DOMAIN localStack : localStack[n] \in [DOMAIN localStack[n] -> Nat]
    /\ glob \in [Names -> Nat] /\ sigReturn \in [DOMAIN pointers -> Nat]
    /\ retVar \in Nat

\* The project goes where the program goes: a return never ends up at another
\* call than its own.
SamePosition == at = Position

\* An instruction reads the values it would read in the program, in whatever
\* way the variables got there: parameters, Scratch variables, saved copies.
ReadsAgree ==
    InStep => \A x \in Uses(fn, at.block, at.k) : Read(x) = Translated(pointers, act.env[x])

\* What a call saved is gone when it is over.
NothingLeftSaved == at = Stopped => localStack = << >> /\ conts = << >>
=============================================================================
