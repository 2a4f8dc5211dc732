----------------------------- MODULE ScratchCode -----------------------------
(* The Scratch blocks the optimizer works on (src/src/scratch/ast.rs) and     *)
(* what Scratch does when they run.                                          *)
(*                                                                          *)
(* A value is a tuple: a number, a variable, the parameter of the procedure,  *)
(* the clock, an item of the list, or an operator and its operands.  A block  *)
(* is a record of its kind, the variable or procedure it names, its inputs    *)
(* and the scripts inside it; say stands for every block that shows its input *)
(* and does nothing else.  A project maps names to scripts.                  *)
EXTENDS Evaluation, FiniteSets

Num(n)  == <<"num", n>>
Var(x)  == <<"var", x>>
Param   == <<"param">>
Now     == <<"now">>
Counter == <<"counter">>
Item(v) == <<"item", v>>
Op(kind, l, r) == <<kind, l, r>>

Operands(v) == IF v[1] \in {"num", "var"} THEN << >> ELSE Tail(v)
WithOperands(v, operands) == IF v[1] \in {"num", "var"} THEN v ELSE <<v[1]>> \o operands

Block(op, name, inputs, bodies) == [op |-> op, name |-> name, inputs |-> inputs, bodies |-> bodies]
Assign(x, v)   == Block("set", x, <<v>>, << >>)
Change(x, v)   == Block("change", x, <<v>>, << >>)
Replace(i, v)  == Block("list", "", <<i, v>>, << >>)
Say(v)         == Block("say", "", <<v>>, << >>)
Wait           == Block("wait", "", << >>, << >>)
Stop           == Block("stop", "", << >>, << >>)
Call(f, v)     == Block("call", f, <<v>>, << >>)
If(c, body)    == Block("if", "", <<c>>, <<body>>)
IfElse(c, t, f) == Block("ifelse", "", <<c>>, <<t, f>>)
CountUp        == Block("count", "", << >>, << >>)
ResetCounter   == Block("reset", "", << >>, << >>)
ForEach(x, n, body) == Block("foreach", x, <<n>>, <<body>>)
Repeat(n, body) == Block("repeat", "", <<n>>, <<body>>)
Until(c, body) == Block("until", "", <<c>>, <<body>>)

-----------------------------------------------------------------------------
(* Running a project.  fuel bounds the blocks run.                           *)

RECURSIVE Eval(_, _, _)
Eval(v, s, param) ==
    CASE v[1] = "num" -> v[2]
      [] v[1] = "var" -> s.vars[v[2]]
      [] v[1] = "param" -> param
      [] v[1] = "now" -> s.now
      [] v[1] = "counter" -> s.counter
      [] v[1] = "item" -> LET i == Eval(v[2], s, param) IN IF i \in DOMAIN s.list THEN s.list[i] ELSE 0
      [] v[1] = "add" -> Eval(v[2], s, param) + Eval(v[3], s, param)
      [] v[1] = "lt" -> IF Eval(v[2], s, param) < Eval(v[3], s, param) THEN 1 ELSE 0
      [] v[1] = "not" -> IF Eval(v[2], s, param) = 0 THEN 1 ELSE 0

RECURSIVE Run(_, _, _, _), Do(_, _, _, _), Times(_, _, _, _, _, _)
Run(script, s, param, code) ==
    IF script = << >> \/ s.stopped \/ s.fuel = 0 THEN s
    ELSE Run(Tail(script), Do(Head(script), [s EXCEPT !.fuel = @ - 1], param, code), param, code)

\* The i-th to n-th time, which is what the variable of a for each block says.
Times(i, n, b, s, param, code) ==
    IF i > n \/ s.stopped THEN s
    ELSE Times(i + 1, n, b, Run(b.bodies[1], IF b.op = "foreach" THEN [s EXCEPT !.vars[b.name] = i] ELSE s, param, code),
               param, code)

Do(b, s, param, code) ==
    LET input(i) == Eval(b.inputs[i], s, param)
        body(i)  == Run(b.bodies[i], s, param, code)
        again    == IF s.stopped \/ s.fuel = 0 THEN s ELSE Run(<<b>>, body(1), param, code)
    IN  CASE b.op = "set"    -> [s EXCEPT !.vars[b.name] = input(1)]
          [] b.op = "change" -> [s EXCEPT !.vars[b.name] = @ + input(1)]
          [] b.op = "list"   -> IF input(1) \in DOMAIN s.list THEN [s EXCEPT !.list[input(1)] = input(2)] ELSE s
          [] b.op = "say"    -> [s EXCEPT !.shown = Append(@, input(1))]
          [] b.op = "wait"   -> [s EXCEPT !.now = @ + 1]
          [] b.op = "stop"   -> [s EXCEPT !.stopped = TRUE]
          [] b.op = "call"   -> [Run(code[b.name], s, input(1), code) EXCEPT !.stopped = FALSE]
          [] b.op = "if"     -> IF input(1) # 0 THEN body(1) ELSE s
          [] b.op = "ifelse" -> IF input(1) # 0 THEN body(1) ELSE body(2)
          [] b.op = "count"  -> [s EXCEPT !.counter = @ + 1]
          [] b.op = "reset"  -> [s EXCEPT !.counter = 0]
          [] b.op \in {"repeat", "foreach"} -> Times(1, input(1), b, s, param, code)
          [] b.op = "until"  -> IF input(1) # 0 THEN s ELSE again
          [] b.op = "while"  -> IF input(1) = 0 THEN s ELSE again
          [] b.op = "forever" -> again

\* is_end: the scripts of a project have such a block at their end only, if
\* not the BlockList panics.
EndsScript(b) == b.op = "stop"

RECURSIVE StopsLast(_)
StopsLast(script) ==
    \A i \in DOMAIN script : /\ EndsScript(script[i]) => i = Len(script)
                             /\ \A j \in DOMAIN script[i].bodies : StopsLast(script[i].bodies[j])
=============================================================================
