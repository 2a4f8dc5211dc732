-------------------------- MODULE PhiAssignProofs --------------------------
(* Whenever assign_phi_nodes succeeds, for any phi nodes, any incoming       *)
(* values and any order of its maps, the assignments it emits amount to the  *)
(* simultaneous assignment phi nodes stand for.                              *)
EXTENDS PhiAssign, TLAPS

\* A pending phi node can still reach the value it is to take, and neither it
\* nor any variable that is not a phi node has changed yet.
Waiting ==
    /\ \A v \in pending : incoming[v] \in Local /\ env[source[v]] = Env0[incoming[v]]
    /\ \A n \in pending \cup (Local \ Phi) : env[n] = Env0[n]

\* A phi node that left to_resolve has its value.
Settled == \A v \in Phi \ pending : incoming[v] \in Local => env[v] = Env0[incoming[v]]

\* The variable recorded in set_by for a pending one holds its old value and
\* will not be set again.
SetByHolds == \A k \in pending : setBy[k] # None =>
                  setBy[k] \in Phi \ pending /\ env[setBy[k]] = Env0[k]

\* A temporary something waits for has been made: no other will overwrite it.
TempsUsed == \A v \in pending : source[v] \in Temp => source[v] \in used

\* A pending variable others wait for is in val_lookup.
PendingKnown == \A v \in pending : source[v] \in pending => source[v] \in known

\* The constants come last.
Ended == status = "done" =>
             pending = {} /\ \A v \in Phi : incoming[v] = Constant => env[v] = ConstVal[v]

IInv == TypeOK /\ Waiting /\ Settled /\ SetByHolds /\ TempsUsed /\ PendingKnown /\ Ended

LEMMA InitIInv == Init => IInv
<1> SUFFICES ASSUME Init PROVE IInv
  OBVIOUS
<1> USE NamesAssumption DEF Init, Name
<1>1. TypeOK
  BY DEF TypeOK
<1>2. Waiting /\ Settled
  BY DEF Waiting, Settled
<1>3. SetByHolds /\ TempsUsed /\ PendingKnown /\ Ended
  BY DEF SetByHolds, TempsUsed, PendingKnown, Ended
<1> QED
  BY <1>1, <1>2, <1>3 DEF IInv

(* Setting a variable nothing waits for.                                     *)
LEMMA ResolveIInv ==
    ASSUME IInv, NEW v \in Phi, Resolve(v)
    PROVE  IInv'
<1> USE NamesAssumption DEF IInv, Resolve, Name
<1>1. /\ v \in Name /\ source[v] \in Name /\ v \in pending /\ v \in Local
      /\ \A w \in pending : source[w] # v
  BY DEF TypeOK, Sources
<1>2. TypeOK'
  BY <1>1 DEF TypeOK
<1>3. Waiting'
  BY <1>1 DEF TypeOK, Waiting
<1>4. Settled'
  BY <1>1 DEF TypeOK, Waiting, Settled
<1>5. SetByHolds'
  BY <1>1 DEF TypeOK, Waiting, SetByHolds
<1>6. TempsUsed' /\ PendingKnown' /\ Ended'
  BY <1>1 DEF TempsUsed, PendingKnown, Ended
<1> QED
  BY <1>2, <1>3, <1>4, <1>5, <1>6 DEF IInv

(* Breaking a cycle at v with another name t that holds v's old value.       *)
LEMMA RedirectIInv ==
    ASSUME IInv, NEW v \in pending, NEW t \in Name, Redirect(v, t)
    PROVE  /\ source' \in [Phi -> Name \cup {Constant, Undef}]
           /\ source'[v] = source[v]
           /\ \A w \in pending \ {v} :
                source'[w] = IF source[w] = v THEN t ELSE source[w]
BY NamesAssumption DEF IInv, TypeOK, Redirect, Name

LEMMA CycleTempIInv ==
    ASSUME IInv, NEW v \in Phi, NEW t \in Temp, CycleTemp(v, t)
    PROVE  IInv'
<1> USE NamesAssumption DEF IInv, CycleTemp, Name
<1>1. /\ v \in pending /\ v \in Local /\ source[v] \in Name /\ t \notin Local /\ v # t
      /\ \A w \in pending : w # t /\ source[w] # t
  BY DEF TypeOK, TempsUsed
<1>2. /\ source' \in [Phi -> Name \cup {Constant, Undef}]
      /\ \A w \in pending \ {v} :
           source'[w] = IF source[w] = v THEN t ELSE source[w]
  BY <1>1, RedirectIInv
<1>3. env[v] = Env0[v] /\ env[source[v]] = Env0[incoming[v]]
  BY <1>1 DEF Waiting
<1>4. /\ env' \in [Name -> Val]
      /\ env'[t] = env[v] /\ env'[v] = env[source[v]]
      /\ \A n \in Name \ {t, v} : env'[n] = env[n]
  BY <1>1 DEF TypeOK
<1>5. TypeOK'
  BY <1>1, <1>2, <1>4 DEF TypeOK
<1>6. Waiting'
  <2>1. \A w \in pending \ {v} : incoming[w] \in Local /\ env'[source'[w]] = Env0[incoming[w]]
    BY <1>1, <1>2, <1>4 DEF TypeOK, Waiting
  <2>2. \A n \in (pending \ {v}) \cup (Local \ Phi) : env'[n] = Env0[n]
    BY <1>1, <1>4 DEF TypeOK, Waiting
  <2> QED
    BY <2>1, <2>2 DEF Waiting
<1>7. Settled'
  BY <1>1, <1>3, <1>4 DEF TypeOK, Settled
<1>8. SetByHolds'
  BY <1>1 DEF SetByHolds
<1>9. TempsUsed' /\ PendingKnown' /\ Ended'
  BY <1>1, <1>2 DEF TypeOK, TempsUsed, PendingKnown, Ended, Cycle
<1> QED
  BY <1>5, <1>6, <1>7, <1>8, <1>9 DEF IInv

LEMMA CycleReuseIInv ==
    ASSUME IInv, NEW v \in Phi, CycleReuse(v)
    PROVE  IInv'
<1> USE NamesAssumption DEF IInv, CycleReuse, Name
<1> DEFINE t == setBy[v]
<1>1. /\ v \in pending /\ v \in Local /\ source[v] \in Name
      /\ t \in Phi /\ t \in Local /\ t \notin pending /\ t # v /\ env[t] = Env0[v]
  BY DEF TypeOK, SetByHolds
<1>2. /\ source' \in [Phi -> Name \cup {Constant, Undef}]
      /\ \A w \in pending \ {v} :
           source'[w] = IF source[w] = v THEN t ELSE source[w]
  BY <1>1, RedirectIInv
<1>3. env[v] = Env0[v] /\ env[source[v]] = Env0[incoming[v]]
  BY <1>1 DEF Waiting
<1>4. /\ env' \in [Name -> Val]
      /\ env'[v] = env[source[v]]
      /\ \A n \in Name \ {v} : env'[n] = env[n]
  BY <1>1 DEF TypeOK
<1> HIDE DEF t
<1>5. TypeOK'
  BY <1>1, <1>2, <1>4 DEF TypeOK
<1>6. Waiting'
  <2>1. \A w \in pending \ {v} : incoming[w] \in Local /\ env'[source'[w]] = Env0[incoming[w]]
    BY <1>1, <1>2, <1>3, <1>4 DEF TypeOK, Waiting
  <2>2. \A n \in (pending \ {v}) \cup (Local \ Phi) : env'[n] = Env0[n]
    BY <1>1, <1>4 DEF TypeOK, Waiting
  <2> QED
    BY <2>1, <2>2 DEF Waiting
<1>7. Settled'
  BY <1>1, <1>3, <1>4 DEF TypeOK, Settled
<1>8. SetByHolds'
  BY <1>1, <1>4 DEF TypeOK, SetByHolds
<1>9. TempsUsed' /\ PendingKnown' /\ Ended'
  BY <1>1, <1>2 DEF TypeOK, TempsUsed, PendingKnown, Ended, Cycle
<1> QED
  BY <1>5, <1>6, <1>7, <1>8, <1>9 DEF IInv

LEMMA EndIInv == ASSUME IInv, EndAssignments PROVE IInv'
<1> USE NamesAssumption DEF IInv, EndAssignments, Name
<1>1. TypeOK'
  BY DEF TypeOK
<1>2. Waiting' /\ Settled' /\ SetByHolds'
  BY DEF TypeOK, Waiting, Settled, SetByHolds
<1>3. TempsUsed' /\ PendingKnown' /\ Ended'
  BY DEF TypeOK, TempsUsed, PendingKnown, Ended
<1> QED
  BY <1>1, <1>2, <1>3 DEF IInv

LEMMA FailIInv == ASSUME IInv, NEW v \in Phi, Fail(v) PROVE IInv'
BY DEF IInv, Fail, TypeOK, Waiting, Settled, SetByHolds, TempsUsed, PendingKnown, Ended

LEMMA Invariance == Spec => []IInv
<1>1. IInv /\ [Next]_vars => IInv'
  <2> SUFFICES ASSUME IInv, [Next]_vars PROVE IInv'
    OBVIOUS
  <2>1. CASE UNCHANGED vars
    BY <2>1 DEF vars, IInv, TypeOK, Waiting, Settled, SetByHolds, TempsUsed, PendingKnown, Ended
  <2> QED
    BY <2>1, ResolveIInv, CycleTempIInv, CycleReuseIInv, EndIInv, FailIInv DEF Next
<1> QED
  BY <1>1, InitIInv, PTL DEF Spec

-----------------------------------------------------------------------------
(* Type correctness: in particular, no variable is ever set from a name that *)
(* does not exist.                                                           *)
THEOREM TypeCorrect == Spec => []TypeOK
<1>1. IInv => TypeOK
  BY DEF IInv
<1> QED
  BY <1>1, Invariance, PTL

(* The emitted assignments implement the phi nodes.                          *)
THEOREM PhiNodesCorrect == Spec => []ParallelCopy
<1>1. IInv => ParallelCopy
  BY NamesAssumption
     DEF IInv, TypeOK, Waiting, Settled, Ended, ParallelCopy, PhiValue
<1> QED
  BY <1>1, Invariance, PTL

(* The unwrap of a cycle's value never panics.                               *)
THEOREM CycleValueKnown == Spec => []CycleIsKnown
<1>1. IInv => CycleIsKnown
  BY DEF IInv, PendingKnown, CycleIsKnown, Cycle, Sources
<1> QED
  BY <1>1, Invariance, PTL
=============================================================================
