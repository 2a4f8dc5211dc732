---------------------------- MODULE MCPhiAssign ----------------------------
(* Four phi nodes and one other local variable; every choice of incoming     *)
(* values.  A variable's value before the branch is its own name, so values  *)
(* never agree by accident.                                                  *)
EXTENDS PhiAssign

MCVal == Local \cup Temp \cup {Constant}
MCEnv0 == [n \in Local \cup Temp |-> n]
MCConstVal == [v \in Phi |-> Constant]
=============================================================================
