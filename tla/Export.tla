------------------------------- MODULE Export --------------------------------
(* ScratchContext (src/src/scratch/mod.rs, export.rs): the scripts of a       *)
(* project become one table of blocks that refer to each other by their       *)
(* identifiers, and what Scratch reads in such a table.                       *)
(*                                                                          *)
(* An identifier is a number, in the order they are drawn, and 0 is none; the  *)
(* list has the first.                                                       *)
(* A block in the table has an opcode (the op of ScratchCode), what it names  *)
(* (a variable's identifier or a procedure), its inputs, and the blocks above *)
(* or around it and below it.  Procedures have one parameter.                 *)
EXTENDS ScratchCode, TLC

None == 0
NewContext(hidden) ==
    [hidden |-> hidden, ids |-> 1, vars |-> << >>, funcs |-> << >>, blocks |-> << >>, late |-> << >>]

Literal(n)   == <<"literal", n>>
Variable(id) == <<"variable", id>>
Reporter(id) == <<"block", id>>
Empty        == <<"empty">>

COUNTER_REPLACEMENT_NAME == "!control:counter"

\* The names of a block's inputs, and those that take a Boolean.
InputNames(op) ==
    CASE op = "list" -> <<"INDEX", "ITEM">>
      [] op = "item" -> <<"INDEX">>
      [] op = "add" -> <<"NUM1", "NUM2">>
      [] op = "lt" -> <<"OPERAND1", "OPERAND2">>
      [] op = "not" -> <<"OPERAND">>
      [] op = "say" -> <<"MESSAGE">>
      [] op = "repeat" -> <<"TIMES">>
      [] op \in {"set", "change", "foreach"} -> <<"VALUE">>
      [] op \in {"if", "ifelse", "until", "while"} -> <<"CONDITION">>
      [] OTHER -> << >>
Substacks == <<"SUBSTACK", "SUBSTACK2">>
TakesBoolean(op) == op \in {"not", "if", "ifelse", "until", "while"}

AddOrGetVar(x, ctx) ==
    IF x \in DOMAIN ctx.vars THEN ctx
    ELSE [ctx EXCEPT !.ids = @ + 1, !.vars = (x :> ctx.ids + 1) @@ @]

AddRaw(id, opcode, name, inputs, parent, next, ctx) ==
    [ctx EXCEPT !.blocks = (id :> [opcode |-> opcode, name |-> name, inputs |-> inputs,
                                   parent |-> parent, next |-> next]) @@ @]

-----------------------------------------------------------------------------
(* Values, with the context they leave.                                      *)

RECURSIVE GetRawValue(_, _, _), GetRawBoolValue(_, _, _), Inputs(_, _, _, _)

NoInputs(ctx) == [ctx |-> ctx, inputs |-> << >>]

\* The inputs of a block, beside those it has; a Boolean that is false is left out.
Inputs(op, values, parent, before) ==
    Accumulated(LAMBDA r, i :
        Let(IF TakesBoolean(op) THEN GetRawBoolValue(values[i], parent, r.ctx)
            ELSE GetRawValue(values[i], parent, r.ctx),
            LAMBDA v : [ctx |-> v.ctx, inputs |-> IF v.input = Empty THEN r.inputs
                                                  ELSE (InputNames(op)[i] :> v.input) @@ r.inputs]),
        before, [i \in 1 .. Len(values) |-> i])

\* A value in a block of its own.  What is in an item of the list gets the
\* block around the item for a parent.
GetRawValue(v, parent, ctx) ==
    LET id == ctx.ids + 1
    IN  CASE v[1] = "num" -> [ctx |-> ctx, input |-> Literal(v[2])]
          [] v[1] = "var" -> Let(AddOrGetVar(v[2], ctx), LAMBDA c : [ctx |-> c, input |-> Variable(c.vars[v[2]])])
          [] v[1] = "counter" /\ ~ctx.hidden -> GetRawValue(Var(COUNTER_REPLACEMENT_NAME), parent, ctx)
          [] OTHER ->
                Let(Inputs(v[1], Operands(v), IF v[1] = "item" THEN parent ELSE id, NoInputs([ctx EXCEPT !.ids = id])), LAMBDA r :
                    [ctx |-> AddRaw(id, v[1], "", r.inputs, parent, None, r.ctx), input |-> Reporter(id)])

\* There is no Boolean literal: true is not nothing.
GetRawBoolValue(v, parent, ctx) ==
    IF v[1] # "num" THEN GetRawValue(v, parent, ctx)
    ELSE IF v[2] = 0 THEN [ctx |-> ctx, input |-> Empty]
    ELSE GetRawValue(<<"not", Num(0)>>, parent, ctx)

-----------------------------------------------------------------------------
(* Scripts.                                                                  *)

Define(f) == Block("def", f, << >>, << >>)
Flag      == Block("flag", "", << >>, << >>)

\* Faulty: while becomes until as it is.
ReplacedKeepsCondition(b) ==
    CASE b.op = "count" -> Change(COUNTER_REPLACEMENT_NAME, Num(1))
      [] b.op = "reset" -> Assign(COUNTER_REPLACEMENT_NAME, Num(0))
      [] b.op = "while" -> [b EXCEPT !.op = "until"]
      [] OTHER -> b

\* What is written for a block that Scratch's editor does not offer.  A for each
\* block stays one, although its body now counts by itself.
Replaced(b) ==
    CASE b.op = "count" -> Change(COUNTER_REPLACEMENT_NAME, Num(1))
      [] b.op = "reset" -> Assign(COUNTER_REPLACEMENT_NAME, Num(0))
      [] b.op = "while" -> [b EXCEPT !.op = "until", !.inputs[1] = <<"not", @>>]
      [] b.op = "foreach" -> [b EXCEPT !.bodies[1] = <<Change(b.name, Num(1))>> \o @]
      [] OTHER -> b

\* The first of two such blocks, the third, ... starts from 0.
ExpandForEach(script, ctx) ==
    IF ctx.hidden THEN script
    ELSE Accumulated(LAMBDA r, b :
            IF b.op # "foreach" THEN [r EXCEPT !.script = Append(@, b)]
            ELSE [script |-> r.script \o (IF r.set THEN << >> ELSE <<Assign(b.name, Num(0))>>) \o <<b>>, set |-> ~r.set],
            [script |-> << >>, set |-> FALSE], script).script

\* The prototype of a procedure, with its parameter.
AddPrototype(id, f, ctx) ==
    LET proto == ctx.ids + 1
        param == ctx.ids + 2
        reporter == ctx.ids + 3
    IN  AddRaw(proto, "prototype", f, param :> Reporter(reporter), id, None,
            AddRaw(reporter, "param", "", << >>, proto, None,
                [ctx EXCEPT !.ids = reporter, !.funcs = (f :> <<param>>) @@ @]))

\* The arguments of a call, under the identifiers of the parameters.
Arguments(params, b, id, ctx) ==
    Accumulated(LAMBDA r, i : Let(GetRawValue(b.inputs[i], id, r.ctx), LAMBDA v :
                    [ctx |-> v.ctx,
                     inputs |-> IF i \in DOMAIN params THEN (params[i] :> v.input) @@ r.inputs ELSE r.inputs]),
                NoInputs(ctx), [i \in 1 .. Len(b.inputs) |-> i])

\* ctx_get_raw: the calls, when all procedures are known.
ResolveCall(late, ctx) ==
    LET f == late.block.name
    IN  Let(Arguments(IF f \in DOMAIN ctx.funcs THEN ctx.funcs[f] ELSE << >>, late.block, late.id, ctx),
            LAMBDA r : AddRaw(late.id, "call", f, r.inputs, late.parent, late.next, r.ctx))
GetRaw(ctx) == Accumulated(LAMBDA c, late : ResolveCall(late, c), [ctx EXCEPT !.late = << >>], ctx.late)

\* Faulty: a call is written at once, and the procedure may not be there yet.
AddLateNow(late, ctx) == ResolveCall(late, ctx)

AddLate(late, ctx) == [ctx EXCEPT !.late = Append(@, late)]

RECURSIVE GetRawBlock(_, _, _, _, _), AddBlockList(_, _, _), Body(_, _, _, _)

\* The i-th script inside a block, beside the inputs it has.
Body(i, b, id, r) ==
    IF i \notin DOMAIN b.bodies THEN r
    ELSE Let(AddBlockList(b.bodies[i], id, r.ctx), LAMBDA body :
             [ctx |-> body.ctx, inputs |-> IF body.first = None THEN r.inputs
                                           ELSE (Substacks[i] :> Reporter(body.first)) @@ r.inputs])

\* get_raw_block and what add_block adds to it.  The variable comes before the
\* value, and the body before the condition, the other body and the variable.
GetRawBlock(id, b, parent, next, ctx) ==
    CASE b.op = "def" ->
            AddRaw(id, b.op, "", "custom_block" :> Reporter(ctx.ids + 1), parent, next, AddPrototype(id, b.name, ctx))
      [] b.op \in {"set", "change"} ->
            Let(AddOrGetVar(b.name, ctx), LAMBDA c : Let(Inputs(b.op, b.inputs, id, NoInputs(c)), LAMBDA r :
                AddRaw(id, b.op, c.vars[b.name], r.inputs, parent, next, r.ctx)))
      [] OTHER ->
            Let(Body(2, b, id, Inputs(b.op, b.inputs, id, Body(1, b, id, NoInputs(ctx)))), LAMBDA r :
                IF b.op = "foreach"
                THEN Let(AddOrGetVar(b.name, r.ctx), LAMBDA c :
                         AddRaw(id, b.op, c.vars[b.name], r.inputs, parent, next, c))
                ELSE AddRaw(id, b.op, b.name, r.inputs, parent, next, r.ctx))

AddBlock(id, b, parent, next, ctx) ==
    IF b.op = "call" THEN AddLate([id |-> id, block |-> b, parent |-> parent, next |-> next], ctx)
    ELSE GetRawBlock(id, IF ctx.hidden THEN b ELSE Replaced(b), parent, next, ctx)

\* A new identifier, drawn as the one of the block below the next.
DrawNext(r) == [r EXCEPT !.next = r.ctx.ids + 1, !.ctx.ids = @ + 1]

\* Faulty: the block that follows draws an identifier of its own.
BelowAnew(r) == LET drawn == DrawNext(r) IN DrawNext([drawn EXCEPT !.last = r.curr, !.curr = drawn.next])

\* The block that follows has the identifier drawn for it before the blocks
\* inside this one drew theirs.
Below(r) == DrawNext([r EXCEPT !.last = r.curr, !.curr = r.next])

\* <<the context, the first block>>
AddBlockList(script, parent, ctx) ==
    IF script = << >> THEN [ctx |-> ctx, first |-> None]
    ELSE Let(ExpandForEach(script, ctx), LAMBDA expanded :
             LET add(r, i) ==
                     IF i < Len(expanded)
                     THEN Below([r EXCEPT !.ctx = AddBlock(r.curr, expanded[i], r.last, r.next, @)])
                     ELSE Below([DrawNext(r) EXCEPT !.ctx = AddBlock(r.curr, expanded[i], r.last, None, @)])
                 drawn == DrawNext([ctx |-> [ctx EXCEPT !.ids = @ + 1], last |-> parent, curr |-> ctx.ids + 1, next |-> None])
             IN  [first |-> ctx.ids + 1,
                  ctx |-> Accumulated(add, drawn, [i \in 1 .. Len(expanded) |-> i]).ctx])

\* get_ctx, with the scripts of a project in order
GetCtx(scripts, hidden) ==
    Accumulated(LAMBDA c, script : AddBlockList(script, None, c).ctx, NewContext(hidden), scripts)

-----------------------------------------------------------------------------
(* Scratch, reading the table.                                               *)

RECURSIVE ValueAt(_, _), ScriptAt(_, _), BlockAt(_, _)

InputAt(table, id, name) ==
    IF name \in DOMAIN table.blocks[id].inputs THEN table.blocks[id].inputs[name] ELSE Literal(0)
ValueAt(table, input) ==
    CASE input[1] = "literal" -> Num(input[2])
      [] input[1] = "variable" -> Var(CHOOSE x \in DOMAIN table.vars : table.vars[x] = input[2])
      [] input[1] = "block" ->
            LET op == table.blocks[input[2]].opcode
            IN  <<op>> \o Each(LAMBDA name : ValueAt(table, InputAt(table, input[2], name)), InputNames(op))

Prototype(table, f) ==
    CHOOSE id \in DOMAIN table.blocks : table.blocks[id].opcode = "prototype" /\ table.blocks[id].name = f
ParameterOf(table, f) == CHOOSE param \in DOMAIN table.blocks[Prototype(table, f)].inputs : TRUE

BlockAt(table, id) ==
    LET raw == table.blocks[id]
        op == raw.opcode
        name == IF op \in {"set", "change", "foreach"} THEN ValueAt(table, Variable(raw.name))[2] ELSE raw.name
        stacks == CASE op \in {"if", "until", "while", "forever", "repeat", "foreach"} -> <<"SUBSTACK">>
                    [] op = "ifelse" -> Substacks
                    [] OTHER -> << >>
    IN  Block(op, name,
              IF op = "call" THEN <<ValueAt(table, InputAt(table, id, ParameterOf(table, name)))>>
              ELSE Each(LAMBDA n : ValueAt(table, InputAt(table, id, n)), InputNames(op)),
              Each(LAMBDA n : IF n \in DOMAIN raw.inputs THEN ScriptAt(table, raw.inputs[n][2]) ELSE << >>, stacks))

ScriptAt(table, id) ==
    IF id = None \/ id \notin DOMAIN table.blocks THEN << >>
    ELSE <<BlockAt(table, id)>> \o ScriptAt(table, table.blocks[id].next)

\* The script under the block that defines f, or under the flag.
Hat(table, f, main) ==
    CHOOSE id \in DOMAIN table.blocks :
        IF f = main THEN table.blocks[id].opcode = "flag"
        ELSE table.blocks[id].opcode = "def" /\ table.blocks[id].inputs["custom_block"] = Reporter(Prototype(table, f))
Loaded(table, names, main) == [f \in names |-> ScriptAt(table, table.blocks[Hat(table, f, main)].next)]

-----------------------------------------------------------------------------
\* The blocks that a block names, other than the one it is in or under.
Named(raw) ==
    (IF raw.next = None THEN {} ELSE {raw.next})
    \cup {raw.inputs[n][2] : n \in {n \in DOMAIN raw.inputs : raw.inputs[n][1] = "block"}}
=============================================================================
