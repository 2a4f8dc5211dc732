------------------------------ MODULE Optimizer ------------------------------
(* optimize (src/src/optimizer/mod.rs): known value propagation and           *)
(* assignment elision take turns on a project until neither changes it.  The  *)
(* script Main is written piece by piece first, beside the procedures it      *)
(* calls.                                                                    *)
EXTENDS Elision

CONSTANTS
    Fragments,      \* what Main may be made of: sequences of blocks
    MaxFragments,   \* and how many
    Procedures,     \* the projects' procedures: functions of their names
    Order,          \* the order of the scripts in the project, Main and the procedures
    Stores,         \* the values of the shared variables at the beginning
    Locals,         \* Main's own variables
    DontRemove,     \* dont_remove
    Ignored,        \* ignore_external_change: variables that calls leave as they were
    MaxIterations   \* max_iterations, 100

VARIABLES
    written,     \* the project as it was written
    code,        \* the project
    phase,       \* "write", "values", "elide" or "done"; Toolchain goes on from there
    pieces,      \* fragments written
    changed,     \* any_changed
    iterations

vars == <<written, code, pieces, phase, changed, iterations>>

Main == "main"

-----------------------------------------------------------------------------
(* known_value_propagation_block.  What it does to a value (KnownValue) is    *)
(* reduced to computing what is made of constants.                           *)

Start == [vars |-> << >>, list |-> << >>, now |-> 0, counter |-> 0]

Folded(v) ==
    IF v[1] \in {"add", "lt", "not"} /\ \A i \in DOMAIN Operands(v) : Operands(v)[i][1] = "num"
    THEN Num(Eval(v, Start, 0)) ELSE v

RECURSIVE Simplified(_)
Simplified(v) == Folded(WithOperands(v, Each(Simplified, Operands(v))))

Known(b) == b.op \in {"if", "ifelse", "until", "while"} /\ b.inputs[1][1] = "num"
Truth(b) == b.inputs[1][2] # 0

\* The branch that a known condition takes.
Taken(b) == IF Truth(b) THEN b.bodies[1] ELSE IF b.op = "ifelse" THEN b.bodies[2] ELSE << >>

\* not c: the branches or the two kinds of loop change places.
Negated(b) == b.op \in {"ifelse", "until", "while"} /\ b.inputs[1][1] = "not"
WithoutNot(b) ==
    [b EXCEPT !.inputs[1] = @[2],
              !.op = CASE b.op = "until" -> "while" [] b.op = "while" -> "until" [] OTHER -> @,
              !.bodies = IF b.op = "ifelse" THEN <<@[2], @[1]>> ELSE @]

\* Faulty: what follows a branch that ends the script is kept.
KeepGoing(b) == FALSE

\* The rest of the script is dropped, without the change being reported.
Cut(b) == Known(b) /\ b.op \in {"if", "ifelse"} /\ Taken(b) # << >> /\ EndsScript(Last(Taken(b)))

\* What becomes of the block b, whose inputs and bodies have been simplified, and
\* of what follows it: <<the new script, whether a change is reported>>.
Simplify(b, did, rest) ==
    LET with(blocks, d) == <<blocks \o rest[1], d \/ rest[2]>>
    IN  IF Cut(b) THEN <<Taken(b), did>>
        ELSE IF Known(b) /\ b.op \in {"if", "ifelse"} THEN with(Taken(b), TRUE)
        ELSE IF Known(b) /\ ~Truth(b) THEN <<<<Block("forever", "", << >>, b.bodies)>>, TRUE>>
        ELSE IF Known(b) THEN with(<< >>, TRUE)
        ELSE IF Negated(b) THEN with(<<WithoutNot(b)>>, TRUE)
        ELSE with(<<b>>, did)

RECURSIVE Propagated(_)
Propagated(script) ==
    IF script = << >> THEN <<script, FALSE>>
    ELSE LET b == Head(script)
             simplify(inputs, bodies) ==
                 Let(Propagated(Tail(script)), LAMBDA rest :
                     Simplify([b EXCEPT !.inputs = inputs, !.bodies = Each(LAMBDA r : r[1], bodies)],
                              inputs # b.inputs \/ \E r \in Range(bodies) : r[2], rest))
         IN  Let2(Each(Simplified, b.inputs), Each(Propagated, b.bodies), simplify)

\* Faulty: a script that ends counts as cut.
RECURSIVE SettledIfCut(_, _)
SettledIfCut(script, did) ==
    Let(Propagated(script), LAMBDA r : IF r[2] THEN SettledIfCut(r[1], TRUE)
                                       ELSE <<r[1], did \/ (r[1] # << >> /\ EndsScript(Last(r[1])))>>)

\* known_value_propagation: until no change is reported.
RECURSIVE Settled(_, _)
Settled(script, did) ==
    Let(Propagated(script), LAMBDA r : IF r[2] THEN Settled(r[1], TRUE) ELSE <<r[1], did>>)

-----------------------------------------------------------------------------
Init ==
    /\ \E procedures \in Procedures : written = [f \in Range(Order) |-> IF f = Main THEN << >> ELSE procedures[f]]
    /\ code = written /\ phase = "write" /\ pieces = 0 /\ changed = FALSE /\ iterations = 0

\* A compiled script reads its own variables only after assigning them.
AssignedBefore(script, fragment) ==
    AllReads(<<fragment[1]>>) \cap Locals \subseteq {b.name : b \in {c \in Range(script) : c.op = "set"}}

Write ==
    /\ phase = "write" /\ pieces < MaxFragments
    /\ code[Main] # << >> => ~EndsScript(Last(code[Main]))
    /\ \E fragment \in Fragments : /\ AssignedBefore(code[Main], fragment)
                                   /\ code' = [code EXCEPT ![Main] = @ \o fragment]
    /\ written' = code' /\ pieces' = pieces + 1
    /\ UNCHANGED <<phase, changed, iterations>>

StartOptimizing ==
    /\ phase = "write" /\ code[Main] # << >>
    /\ phase' = "values"
    /\ UNCHANGED <<written, code, pieces, changed, iterations>>

\* A project whose change was not reported is thrown away.
Propagate ==
    /\ phase = "values"
    /\ \E new \in {[f \in DOMAIN code |-> Settled(code[f], FALSE)]} :
           /\ changed' = \E f \in DOMAIN code : new[f][2]
           /\ code' = IF changed' THEN [f \in DOMAIN code |-> new[f][1]] ELSE code
    /\ phase' = "elide"
    /\ UNCHANGED <<written, pieces, iterations>>

Elide ==
    /\ phase = "elide"
    /\ code' = AssignmentElision(code, Order, DontRemove, Ignored)
    /\ iterations' = iterations + 1
    /\ LET again == changed \/ code' # code
       IN  phase' = IF again /\ iterations' < MaxIterations THEN "values" ELSE "done"
    /\ changed' = FALSE
    /\ UNCHANGED <<written, pieces>>

Next == Write \/ StartOptimizing \/ Propagate \/ Elide

Spec == Init /\ [][Next]_vars /\ WF_vars(Propagate) /\ WF_vars(Elide)

-----------------------------------------------------------------------------
(* Correctness.                                                              *)

Fuel == 60

\* What the project shows and leaves behind for other scripts.
Shown(project, store) ==
    LET end == Run(project[Main], [vars |-> store.vars, list |-> store.list, now |-> 0, counter |-> 0,
                                   shown |-> << >>, stopped |-> FALSE, fuel |-> Fuel], store.param, project)
    IN  <<end.shown, end.list, [x \in DOMAIN end.vars \ Locals |-> end.vars[x]], end.now>>

\* The optimized project does what the written one does: an assignment moved
\* across branches, loops, calls and changes of the list, however deep, reads
\* what it read before, and so does one moved after other passes.
SameOutput ==
    code # written => \A store \in Stores : Shown(code, store) = Shown(written, store)

\* No block is left behind one that ends the script: adding one is a panic.
NothingAfterStop == \A f \in DOMAIN code : StopsLast(code[f])

\* The passes come to an end by themselves, not because of max_iterations.
Settles == phase = "values" ~> (phase = "done" /\ iterations < MaxIterations)
=============================================================================
