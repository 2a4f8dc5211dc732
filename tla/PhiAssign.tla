----------------------------- MODULE PhiAssign -----------------------------
(* assign_phi_nodes (src/src/compiler/translate.rs): the phi nodes of a      *)
(* block take their incoming values all at once, Scratch sets one variable   *)
(* at a time.  The function orders the assignments so that no variable is    *)
(* set while another still waits for its old value, and breaks a cycle with  *)
(* a temporary, or with a variable already set to the value.                 *)
(*                                                                          *)
(* The code is straight-line, so env, the variables the emitted assignments  *)
(* would leave behind, is kept up to date as they are emitted.               *)
CONSTANTS
    Local,    \* local variables of the function
    Phi,      \* those that are phi nodes of the block branched to
    Temp,     \* names gen_temp_var can make
    Val,      \* values of variables
    Constant, \* an incoming value that is not a local variable
    ConstVal, \* [Phi -> Val]: what it evaluates to
    Undef,    \* an incoming undef, which is not assigned
    None,     \* no entry in set_by
    Env0      \* the variables before the branch

Name == Local \cup Temp

ASSUME NamesAssumption ==
    /\ Phi \subseteq Local
    /\ Local \cap Temp = {}
    /\ Constant \notin Local /\ Undef \notin Local /\ Constant # Undef
    /\ None \notin Name
    /\ ConstVal \in [Phi -> Val]
    /\ Env0 \in [Name -> Val]

VARIABLES
    incoming,  \* the incoming value of each phi node on this edge
    status,    \* resolving, done, or failed when the function returns Err
    pending,   \* the keys of to_resolve
    source,    \* to_resolve: what a pending phi node is to be set to
    setBy,     \* set_by: a phi node set to the value of a variable
    known,     \* the keys of val_lookup
    used,      \* temporaries made so far
    env

vars == <<incoming, status, pending, source, setBy, known, used, env>>

Sources == {source[v] : v \in pending}

\* A phi node with a local variable as its incoming value enters to_resolve,
\* the variable val_lookup.
Init == /\ incoming \in [Phi -> Local \cup {Constant, Undef}]
        /\ status = "resolving"
        /\ pending = {v \in Phi : incoming[v] \in Local}
        /\ source = [v \in Phi |-> incoming[v]]
        /\ setBy = [n \in Name |-> None]
        /\ known = {incoming[v] : v \in pending}
        /\ used = {}
        /\ env = Env0

\* Faults the runs of this module must notice: assignments in the order of the
\* phi nodes, an entry of val_lookup or of to_resolve used up too early or not
\* at all, and a cycle broken at a variable no other was set to.
ResolveInOrder(v) ==
    /\ status = "resolving" /\ v \in pending
    /\ source[v] \in known
    /\ env' = [env EXCEPT ![v] = env[source[v]]]
    /\ setBy' = [setBy EXCEPT ![source[v]] = v]
    /\ pending' = pending \ {v}
    /\ UNCHANGED <<incoming, status, source, known, used>>

ResolveTakesValue(v) ==
    /\ status = "resolving" /\ v \in pending /\ v \notin Sources
    /\ source[v] \in known
    /\ env' = [env EXCEPT ![v] = env[source[v]]]
    /\ setBy' = [setBy EXCEPT ![source[v]] = v]
    /\ pending' = pending \ {v}
    /\ known' = known \ {source[v]}
    /\ UNCHANGED <<incoming, status, source, used>>

ResolveKeepsKey(v) ==
    /\ status = "resolving" /\ v \in pending /\ v \notin Sources
    /\ source[v] \in known
    /\ env' = [env EXCEPT ![v] = env[source[v]]]
    /\ setBy' = [setBy EXCEPT ![source[v]] = v]
    /\ UNCHANGED <<incoming, status, pending, source, known, used>>

\* Nothing pending depends on v, so it can be set.  The code takes all such
\* variables of a round together, in the order of the map; every order of
\* taking them one by one is allowed here.
Resolve(v) ==
    /\ status = "resolving" /\ v \in pending /\ v \notin Sources
    /\ source[v] \in known
    /\ env' = [env EXCEPT ![v] = env[source[v]]]
    /\ setBy' = [setBy EXCEPT ![source[v]] = v]
    /\ pending' = pending \ {v}
    /\ UNCHANGED <<incoming, status, source, known, used>>

\* Every pending variable waits for another: a cycle.
Cycle == status = "resolving" /\ pending # {} /\ pending \subseteq Sources

\* Others that wait for v will read its old value from t instead.
Redirect(v, t) ==
    source' = [w \in Phi |-> IF w \in pending \ {v} /\ source[w] = v THEN t ELSE source[w]]

\* No variable already set holds the value of a pending one: save v in a new
\* temporary, then set it.
CycleTemp(v, t) ==
    /\ Cycle /\ \A w \in pending : setBy[w] = None
    /\ v \in pending /\ t \in Temp \ used
    /\ source[v] \in known
    /\ env' = [env EXCEPT ![t] = env[v], ![v] = env[source[v]]]
    /\ used' = used \cup {t}
    /\ known' = known \cup {t}
    /\ pending' = pending \ {v}
    /\ Redirect(v, t)
    /\ UNCHANGED <<incoming, status, setBy>>

\* Faulty: any pending variable, whether or not another was set to it.
CycleReuseAny(v) ==
    /\ Cycle /\ v \in pending
    /\ source[v] \in known
    /\ env' = [env EXCEPT ![v] = env[source[v]]]
    /\ pending' = pending \ {v}
    /\ Redirect(v, setBy[v])
    /\ UNCHANGED <<incoming, status, setBy, known, used>>

\* setBy[v] was set to the value of v earlier: use it as the temporary.
CycleReuse(v) ==
    /\ Cycle /\ v \in pending /\ setBy[v] # None
    /\ source[v] \in known
    /\ env' = [env EXCEPT ![v] = env[source[v]]]
    /\ pending' = pending \ {v}
    /\ Redirect(v, setBy[v])
    /\ UNCHANGED <<incoming, status, setBy, known, used>>

\* "Missing phi resolution value": the variable to be set next depends on a
\* name that val_lookup does not have.
Fail(v) ==
    /\ status = "resolving" /\ v \in pending
    /\ v \notin Sources \/ Cycle
    /\ source[v] \notin known
    /\ status' = "failed"
    /\ UNCHANGED <<incoming, pending, source, setBy, known, used, env>>

\* end_assignments, once to_resolve is empty.
EndAssignments ==
    /\ status = "resolving" /\ pending = {}
    /\ env' = [n \in Name |-> IF n \in Phi /\ incoming[n] = Constant
                              THEN ConstVal[n] ELSE env[n]]
    /\ status' = "done"
    /\ UNCHANGED <<incoming, pending, source, setBy, known, used>>

Next == \/ \E v \in Phi : \/ Resolve(v) \/ CycleReuse(v) \/ Fail(v)
                          \/ \E t \in Temp : CycleTemp(v, t)
        \/ EndAssignments

Spec     == Init /\ [][Next]_vars
FairSpec == Spec /\ WF_vars(Next)

-----------------------------------------------------------------------------
(* Correctness.                                                              *)

TypeOK ==
    /\ incoming \in [Phi -> Local \cup {Constant, Undef}]
    /\ status \in {"resolving", "done", "failed"}
    /\ pending \subseteq Phi
    /\ source \in [Phi -> Name \cup {Constant, Undef}]
    /\ \A v \in pending : source[v] \in Name
    /\ setBy \in [Name -> Phi \cup {None}]
    /\ known \subseteq Name
    /\ used \subseteq Temp
    /\ env \in [Name -> Val]

\* The value a phi node takes, by the meaning of phi nodes: all of them read
\* the variables as they were before the branch.
PhiValue(v) == IF incoming[v] = Constant THEN ConstVal[v] ELSE Env0[incoming[v]]

\* The assignments emitted amount to one simultaneous assignment, whatever
\* the phi nodes take from each other, and touch no other local variable.
ParallelCopy ==
    status = "done" =>
        /\ \A v \in Phi : incoming[v] # Undef => env[v] = PhiValue(v)
        /\ \A n \in Local \ Phi : env[n] = Env0[n]

\* A variable a cycle is broken at has an entry in val_lookup, so the unwrap
\* of that entry does not panic.
CycleIsKnown == Cycle => pending \subseteq known

\* Every phi assignment is resolved one way or the other.
Terminates == <>(status \in {"done", "failed"})
=============================================================================
