----------------------------- MODULE StackReset -----------------------------
(* The run-time protocol of the code that trans_funcs and                    *)
(* trans_entrypoint_call generate (src/src/compiler/translate.rs).          *)
(*                                                                          *)
(* Every basic block, and every place a call returns to, is a Scratch       *)
(* procedure; a branch, a call and a return are all calls in tail position, *)
(* so Scratch's own call stack only grows.  A hidden counter counts the     *)
(* procedures entered.  A procedure in checkedBlocks tests it on entry and, *)
(* once it exceeds max_branch_recursion, stores its own reset id and stops; *)
(* so does every procedure below it, down to the forever loop of "!jump     *)
(* table", which clears the counter and calls the procedure of that id.     *)
(*                                                                          *)
(* The procedures modelled are those of functions with returns_to_address;  *)
(* any other function runs inside one of their steps.                       *)
EXTENDS Integers

CONSTANTS
    Proc, Env, Step, Returns, Entry, Env0,   \* the program, see ControlFlow
    NumChecks,           \* all_check_locations.len()
    CheckAt,             \* all_check_locations: position -> procedure
    MaxBranchRecursion,  \* cfg.max_branch_recursion
    Rank, MaxRank        \* Rank[<<p, e>>]: procedures the program can still
                         \* enter after p before it enters a checked one

EXIT_CALL_ID         == 0
ENTRY_CALL_ID        == 1
START_STACK_RESET_ID == 2

Point         == Proc \X Env
CheckedBlocks == {CheckAt[k] : k \in 0 .. NumChecks - 1}

ASSUME ProgramAssumption ==
    /\ Entry \in Proc /\ Env0 \in Env
    /\ Step \subseteq Point \X Point
    /\ Returns \subseteq Point

ASSUME ChecksAssumption ==
    /\ NumChecks \in Nat
    /\ CheckAt \in [0 .. NumChecks - 1 -> Proc]
    /\ MaxBranchRecursion \in Nat \ {0}

\* The checks break every cycle: between two of them the program enters a
\* bounded number of procedures.
ASSUME RankAssumption ==
    /\ MaxRank \in Nat
    /\ Rank \in [Point -> 0 .. MaxRank]
    /\ \A s \in Step : s[2][1] \notin CheckedBlocks => Rank[s[2]] < Rank[s[1]]

VARIABLES
    pc,           \* what Scratch executes next
    cur,          \* the procedure it is in
    env,          \* the variables and lists
    counter,      \* the hidden counter
    depth,        \* procedures on Scratch's call stack above "!jump table"
    jumpTableId,  \* the variable "!call stack reset id"
    lo, hi        \* the nested if/else of the jump table being evaluated

vars == <<pc, cur, env, counter, depth, jumpTableId, lo, hi>>

\* The procedure the jump table calls for an id.
TableEntry(id) == IF id = ENTRY_CALL_ID THEN Entry
                  ELSE CheckAt[id - START_STACK_RESET_ID]

\* Faulty: as if the table's first reset id were ENTRY_CALL_ID.
ResetIdShifted(p) == ENTRY_CALL_ID
                     + (CHOOSE k \in 0 .. NumChecks - 1 : CheckAt[k] = p)

\* The id a checked block stores: its position in all_check_locations.
ResetId(p) == START_STACK_RESET_ID
              + (CHOOSE k \in 0 .. NumChecks - 1 : CheckAt[k] = p)

-----------------------------------------------------------------------------
(* The blocks hat and "!jump table".                                         *)

Init == /\ pc = "main" /\ cur = Entry /\ env = Env0
        /\ counter = 0 /\ depth = 0 /\ jumpTableId = 0
        /\ lo = 0 /\ hi = 0

\* The hat script stores ENTRY_CALL_ID and calls "!jump table".
Main == /\ pc = "main"
        /\ jumpTableId' = ENTRY_CALL_ID
        /\ pc' = "table"
        /\ UNCHANGED <<cur, env, counter, depth, lo, hi>>

\* Faulty: the search starts one past the last key.
TablePastEnd == /\ pc = "table"
                /\ counter' = 0
                /\ lo' = 0 /\ hi' = NumChecks + START_STACK_RESET_ID
                /\ pc' = "search"
                /\ UNCHANGED <<cur, env, depth, jumpTableId>>

\* The forever loop begins an iteration: it resets the counter and starts
\* on the branches over ids 0 .. NumChecks + 1.
TableReset == /\ pc = "table"
              /\ counter' = 0
              /\ lo' = 0 /\ hi' = NumChecks + 1
              /\ pc' = "search"
              /\ UNCHANGED <<cur, env, depth, jumpTableId>>

\* Faulty: the comparison of the if/else also takes the middle key.
SearchBranchGe ==
    /\ pc = "search" /\ lo # hi
    /\ LET mid == (lo + hi) \div 2
       IN  \/ jumpTableId >= mid /\ lo' = mid + 1 /\ hi' = hi
           \/ ~(jumpTableId >= mid) /\ hi' = mid /\ lo' = lo
    /\ UNCHANGED <<pc, cur, env, counter, depth, jumpTableId>>

\* One if/else of binary_search_jump_table; the k-th key is k.
SearchBranch ==
    /\ pc = "search" /\ lo # hi
    /\ LET mid == (lo + hi) \div 2
       IN  \/ jumpTableId > mid /\ lo' = mid + 1 /\ hi' = hi
           \/ ~(jumpTableId > mid) /\ hi' = mid /\ lo' = lo
    /\ UNCHANGED <<pc, cur, env, counter, depth, jumpTableId>>

\* The branch of EXIT_CALL_ID stops the script.
SearchExit == /\ pc = "search" /\ lo = hi /\ lo = EXIT_CALL_ID
              /\ pc' = "stopped"
              /\ UNCHANGED <<cur, env, counter, depth, jumpTableId, lo, hi>>

\* Any other branch calls its procedure.
SearchCall == /\ pc = "search" /\ lo = hi /\ lo # EXIT_CALL_ID
              /\ cur' = TableEntry(lo)
              /\ depth' = depth + 1
              /\ pc' = "enter"
              /\ UNCHANGED <<env, counter, jumpTableId, lo, hi>>

-----------------------------------------------------------------------------
(* The procedures.                                                           *)

\* Faulty: the counter is tested for being set, not against the limit.
OverLimitAny == cur \in CheckedBlocks /\ counter + 1 > 0

OverLimit == cur \in CheckedBlocks /\ counter + 1 > MaxBranchRecursion

\* Entry of a procedure: the counter is incremented, then, in a checked
\* block, compared.
EnterChecked == /\ pc = "enter" /\ OverLimit
                /\ counter' = counter + 1
                /\ jumpTableId' = ResetId(cur)
                /\ pc' = "unwind"
                /\ UNCHANGED <<cur, env, depth, lo, hi>>

\* Faulty: only the blocks with a check count.
EnterCountsChecked ==
    /\ pc = "enter" /\ ~OverLimit
    /\ counter' = IF cur \in CheckedBlocks THEN counter + 1 ELSE counter
    /\ pc' = "body"
    /\ UNCHANGED <<cur, env, depth, jumpTableId, lo, hi>>

Enter == /\ pc = "enter" /\ ~OverLimit
         /\ counter' = counter + 1
         /\ pc' = "body"
         /\ UNCHANGED <<cur, env, depth, jumpTableId, lo, hi>>

\* The instructions, then the tail call of a branch, call or return.
Body == /\ pc = "body"
        /\ \E s \in Step : /\ s[1] = <<cur, env>>
                           /\ cur' = s[2][1] /\ env' = s[2][2]
        /\ depth' = depth + 1
        /\ pc' = "enter"
        /\ UNCHANGED <<counter, jumpTableId, lo, hi>>

\* Ret in the entry function, which nothing calls: it has no return address
\* to dispatch on, so the procedure ends after storing the exit id.
RetEntry == /\ pc = "body" /\ <<cur, env>> \in Returns
            /\ jumpTableId' = EXIT_CALL_ID
            /\ pc' = "unwind"
            /\ UNCHANGED <<cur, env, counter, depth, lo, hi>>

\* A procedure whose tail call came back has nothing left to run.
Unwind == /\ pc = "unwind"
          /\ \/ depth > 0 /\ depth' = depth - 1 /\ pc' = pc
             \/ depth = 0 /\ pc' = "table" /\ depth' = depth
          /\ UNCHANGED <<cur, env, counter, jumpTableId, lo, hi>>

Next == \/ Main \/ TableReset \/ SearchBranch \/ SearchExit \/ SearchCall
        \/ EnterChecked \/ Enter \/ Body \/ RetEntry \/ Unwind

Spec     == Init /\ [][Next]_vars
FairSpec == Spec /\ WF_vars(Next)
-----------------------------------------------------------------------------
(* Correctness.                                                              *)

TypeOK ==
    /\ pc \in {"main", "table", "search", "enter", "body", "unwind", "stopped"}
    /\ cur \in Proc /\ env \in Env
    /\ counter \in Nat /\ depth \in Nat
    /\ jumpTableId \in 0 .. NumChecks + 1
    /\ lo \in 0 .. NumChecks + 1 /\ hi \in 0 .. NumChecks + 1

\* Scratch's call stack stays within the limit the option promises, plus the
\* procedures between two checks: the reason the checks are there.
StackBounded == depth <= MaxBranchRecursion + MaxRank + 1

\* The binary search of the jump table keeps the requested id in reach, so
\* the branch it ends in is the one asked for.
SearchOnTarget == pc = "search" => jumpTableId \in lo .. hi

\* The counter, which Scratch hides and which only address-returning
\* procedures increment, is the depth of the call stack whenever it is read.
CounterIsDepth == pc = "body" => counter = depth

\* Where the program is, as the LLVM program sees it: a request for a reset
\* or a search of the table is still at the procedure that will be resumed.
AtBar ==
    CASE pc = "main" -> <<Entry, env>>
      [] pc \in {"enter", "body"} -> <<cur, env>>
      [] pc = "stopped" -> << >>
      [] OTHER -> IF jumpTableId = EXIT_CALL_ID THEN << >>
                  ELSE <<TableEntry(jumpTableId), env>>

CF == INSTANCE ControlFlow WITH at <- AtBar

\* Unwinding is invisible: the generated project runs the procedures of the
\* program in the program's order, loses no variable over a reset, and stops
\* only when the entry function has returned.
Transparent == CF!Spec

\* A reset always gets the program going again: the resumed block is not sent
\* straight back by its own check.
Resumes == pc = "unwind" ~> pc \in {"body", "stopped"}
=============================================================================
