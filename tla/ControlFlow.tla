---------------------------- MODULE ControlFlow ----------------------------
(* What the compiled program promises about control: it executes the        *)
(* procedures of the LLVM program one after the other, in the order the     *)
(* program's own branches, calls and returns prescribe, and is done when    *)
(* the entry function returns.  Nothing is said about Scratch's call stack, *)
(* about resets of it, or about the jump table.                             *)
CONSTANTS
    Proc,     \* procedures of the functions that return to an address
    Env,      \* contents of the Scratch variables and lists
    Step,     \* <<from, to>>: running procedure from[1] in variables from[2]
              \* leaves the variables to[2] and tail-calls procedure to[1]
    Returns,  \* the <<procedure, variables>> whose run returns from the entry
    Entry,    \* the procedure of the entry function's first block
    Env0      \* the variables when the project starts

VARIABLE at   \* the procedure about to run and the variables, or Done

Point == Proc \X Env
Done  == << >>

Init == at = <<Entry, Env0>>

\* A procedure runs and ends by calling the next one.
Transfer == \E s \in Step : at = s[1] /\ at' = s[2]

\* The entry function returns.
Finish == at \in Returns /\ at' = Done

Next == Transfer \/ Finish

Spec == Init /\ [][Next]_at
=============================================================================
