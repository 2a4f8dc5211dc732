------------------------------- MODULE Elision -------------------------------
(* assignment_elision (src/src/optimizer/assignment_elision.rs): an           *)
(* assignment is dropped and its value written wherever the variable is read, *)
(* if what the value depends on is the same there and it pays.               *)
(*                                                                          *)
(* What a block modifies or a value depends on is a set of names; "mem" is    *)
(* the list.  Numbers of uses count quarters, because a branch counts half.   *)
EXTENDS ScratchCode, Functions, TLC

CONSTANTS
    Prices,    \* the target's costs: a function of the kinds of values, and of "set"
    LoopUse    \* LOOP_USE_MULTIPLIER, 5000

-----------------------------------------------------------------------------
(* What values and blocks read and modify.                                   *)

RECURSIVE Reads(_), Dependencies(_)
Reads(v) == IF v[1] = "var" THEN {v[2]} ELSE UNION {Reads(u) : u \in Range(Operands(v))}

\* collect_value_dependencies
Dependencies(v) ==
    (IF v[1] = "item" THEN {"mem"} ELSE IF v[1] = "counter" THEN {"counter"} ELSE {})
    \cup (IF v[1] = "var" THEN {v[2]} ELSE UNION {Dependencies(u) : u \in Range(Operands(v))})

\* A call is ending if nothing of this script runs after it.
Ending(script, i, endingScript) ==
    \/ endingScript /\ i = Len(script)
    \/ i < Len(script) /\ EndsScript(script[i + 1])

BodyEnding(b, ending) == ending /\ b.op \in {"if", "ifelse"}

\* Faulty: what a called procedure modifies does not count.
ModsOfCaller(b, calleeMods, ignored, ending) == IF b.op \in {"set", "change"} THEN {b.name} ELSE {}

\* block_modifications_with_callees; the effect of an ending call is of no
\* interest to the script.
RECURSIVE Mods(_, _, _, _)
Mods(b, calleeMods, ignored, ending) ==
    CASE b.op \in {"set", "change"} -> {b.name}
      [] b.op = "list" -> {"mem"}
      [] b.op \in {"count", "reset"} -> {"counter"}
      [] b.op = "call" -> IF ending THEN {} ELSE calleeMods[b.name] \ ignored
      [] OTHER -> UNION {UNION {Mods(body[i], calleeMods, ignored, Ending(body, i, BodyEnding(b, ending))) :
                                    i \in DOMAIN body} : body \in Range(b.bodies)}

\* collect_block_reads without and with the scripts inside.
InputReads(b) ==
    UNION {Reads(v) : v \in Range(b.inputs)} \cup (IF b.op = "change" THEN {b.name} ELSE {})

RECURSIVE AllReads(_), CalleeReads(_, _, _)
AllReads(script) ==
    UNION {InputReads(b) \cup UNION {AllReads(body) : body \in Range(b.bodies)} : b \in Range(script)}

\* What the procedures read that are called in b.
CalleeReads(b, calleeReads, ending) ==
    IF b.op = "call" THEN IF ending THEN {} ELSE calleeReads[b.name]
    ELSE UNION {UNION {CalleeReads(body[i], calleeReads, Ending(body, i, BodyEnding(b, ending))) :
                           i \in DOMAIN body} : body \in Range(b.bodies)}

\* block_variable_reads_combined
CombinedReads(b, calleeReads, ending) == AllReads(<<b>>) \cup CalleeReads(b, calleeReads, ending)

\* A block that does not change anything before all its inputs are evaluated.
Atomic(b) == b.op # "call" /\ b.bodies = << >>

\* block_variable_reads_body: what may be read after something was modified.
BodyReads(b, calleeReads, ending) ==
    IF Atomic(b) THEN InputReads(b)
    ELSE UNION {AllReads(body) : body \in Range(b.bodies)} \cup CalleeReads(b, calleeReads, ending)

\* collect_blocklist_var_names: the variables read before the script modifies
\* them, and those it modifies.
RECURSIVE Names(_, _)
Names(script, found) ==
    IF script = << >> THEN found
    ELSE LET b == Head(script)
             here == [reads |-> found.reads \cup (InputReads(b) \ found.writes),
                      writes |-> found.writes \cup (IF b.op \in {"set", "change"} THEN {b.name} ELSE {})]
         IN  Names(Tail(script), Accumulated(LAMBDA f, body : Names(body, f), here, b.bodies))

RECURSIVE Callees(_)
Callees(script) ==
    UNION {(IF b.op = "call" THEN {b.name} ELSE {}) \cup UNION {Callees(body) : body \in Range(b.bodies)} :
               b \in Range(script)}

\* What each script modifies by itself.
OwnMods(code) ==
    [f \in DOMAIN code |-> UNION {Mods(b, [g \in DOMAIN code |-> {}], {}, FALSE) : b \in Range(code[f])}]

\* What f and what it calls make of found, an account of all procedures.
WithCallees(code, found, f) == (f :> (found[f] \cup UNION {found[g] : g \in Callees(code[f])})) @@ found

\* One pass over the scripts, in order: a script takes over what its callees are
\* known to modify by then.
CalleeMods(code, order) ==
    Accumulated(LAMBDA mods, f : WithCallees(code, mods, f), OwnMods(code), order)

\* What they read: repeated until nothing changes.
CalleesRead(code, order) ==
    Accumulated(LAMBDA reads, i : Accumulated(LAMBDA now, f : WithCallees(code, now, f), reads, order),
                [f \in DOMAIN code |-> Names(code[f], [reads |-> {}, writes |-> {}]).reads], order)

-----------------------------------------------------------------------------
(* Does it pay?                                                              *)

RECURSIVE Uses(_, _), Used(_, _), Cost(_)
Uses(x, v) ==
    IF v[1] = "var" THEN IF v[2] = x THEN 1 ELSE 0
    ELSE Accumulated(LAMBDA n, u : n + Uses(x, u), 0, Operands(v))

\* get_blocklist_var_use, repeat_count_multiplier
Rounds(b) ==
    CASE b.op \in {"repeat", "foreach"} -> IF b.inputs[1][1] = "num" THEN b.inputs[1][2] ELSE LoopUse
      [] b.op \in {"until", "while", "forever"} -> LoopUse
      [] OTHER -> 1

Used(x, script) ==
    Accumulated(LAMBDA n, b :
                 n + Accumulated(LAMBDA k, v : k + Uses(x, v), 0, b.inputs)
                     * 4 * (IF b.op \in {"until", "while"} THEN LoopUse ELSE 1)
                   + (IF b.op \in {"change", "foreach"} /\ b.name = x THEN 4 ELSE 0)
                   + (Accumulated(LAMBDA k, body : k + Used(x, body), 0, b.bodies) * Rounds(b))
                     \div (IF b.op = "ifelse" THEN 2 ELSE 1),
             0, script)

\* get_value_cost: reading the clock costs more than anything, so that it stays
\* where it is.
Cost(v) == Accumulated(LAMBDA n, u : n + Cost(u), Prices[v[1]], Operands(v))

ShouldElide(v, used) ==
    used <= 4 \/ Cost(v) * used < 4 * (Prices["set"] + Cost(v)) + used * Prices["var"]

-----------------------------------------------------------------------------
(* collect_elisions.                                                         *)

\* elide: the candidates <<variable, value>>; unread: those whose value is out of
\* date, but that have not been read since; cannot: the variables that must stay.
Candidates(script, cannot, calleeMods, calleeReads, ignored) ==
    LET consider(c, i, b, ending, mods) ==
            LET written(e) == e[1] \in mods
                stale(e) == Dependencies(e[2]) \cap mods # {}
                readLater(e) == ~Atomic(b) /\ e[1] \in BodyReads(b, calleeReads, ending)
                kept == SelectSeq(c.elide, LAMBDA e : ~written(e) /\ ~stale(e))
                late == SelectSeq(c.elide, LAMBDA e : ~written(e) /\ stale(e) /\ ~readLater(e))
                barred == c.cannot \cup {e[1] : e \in Range(c.elide) \ Range(kept)}
                                   \cup (IF b.op \in {"set", "change"} THEN {} ELSE mods \ {"mem", "counter"})
                new == /\ b.op = "set" /\ b.name \notin barred
                       /\ b.name \notin Dependencies(b.inputs[1])
            IN  [elide |-> kept \o (IF new THEN <<<<b.name, b.inputs[1]>>>> ELSE << >>),
                 unread |-> SelectSeq(c.unread, LAMBDA e : e[1] \notin CombinedReads(b, calleeReads, ending)) \o late,
                 cannot |-> barred]
        next(c, i) ==
            Let2(Ending(script, i, TRUE), Mods(script[i], calleeMods, ignored, Ending(script, i, TRUE)),
                 LAMBDA ending, mods : consider(c, i, script[i], ending, mods))
        end == Accumulated(next, [elide |-> << >>, unread |-> << >>, cannot |-> cannot],
                           [i \in 1 .. Len(script) |-> i])
    IN  Let(end, LAMBDA c : c.elide \o c.unread)

\* A value that reads another variable elided, or shares what it depends on with
\* one elided before, waits for the next pass.
Elisions(script, cannot, calleeMods, calleeReads, ignored) ==
    Accumulated(LAMBDA c, e :
                 IF ShouldElide(e[2], Used(e[1], script))
                    /\ c.names \cap ({e[1]} \cup Dependencies(e[2])) = {}
                 THEN [values |-> Append(c.values, e), names |-> c.names \cup {e[1]} \cup Dependencies(e[2])]
                 ELSE c,
             [values |-> << >>, names |-> {}],
             Candidates(script, cannot, calleeMods, calleeReads, ignored)).values

-----------------------------------------------------------------------------
(* The change itself.                                                        *)

\* assignment_elision_value, elide_block
RECURSIVE Substituted(_, _), Rewritten(_, _)
Substituted(v, elided) ==
    IF v[1] = "var" /\ v[2] \in DOMAIN elided THEN elided[v[2]]
    ELSE WithOperands(v, Each(LAMBDA u : Substituted(u, elided), Operands(v)))

Rewritten(script, elided) ==
    Each(LAMBDA b : [b EXCEPT !.inputs = Each(LAMBDA v : Substituted(v, elided), @),
                              !.bodies = Each(LAMBDA body : Rewritten(body, elided), @)], script)

ElidedScript(script, found) ==
    LET elided == [x \in {e[1] : e \in Range(found)} |-> (CHOOSE e \in Range(found) : e[1] = x)[2]]
    IN  Rewritten(SelectSeq(script, LAMBDA b : ~(b.op = "set" /\ b.name \in DOMAIN elided)), elided)

\* The variables that other scripts read or modify.
UsedByOthers(code, f) ==
    UNION {names.reads \cup names.writes :
               names \in {Names(code[g], [reads |-> {}, writes |-> {}]) : g \in DOMAIN code \ {f}}}

AssignmentElision(code, order, dontRemove, ignored) ==
    Let2(CalleeMods(code, order), CalleesRead(code, order), LAMBDA mods, reads :
         [f \in DOMAIN code |->
             Let(Elisions(code[f], dontRemove \cup UsedByOthers(code, f), mods, reads, ignored),
                 LAMBDA found : IF found = << >> THEN code[f] ELSE ElidedScript(code[f], found))])
=============================================================================
