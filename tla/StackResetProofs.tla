-------------------------- MODULE StackResetProofs --------------------------
(* For every program, every placement of checks that breaks its cycles and   *)
(* every limit: the trampoline of StackReset keeps Scratch's call stack      *)
(* bounded, dispatches to the block that asked, and is invisible to the      *)
(* program.                                                                  *)
EXTENDS StackReset, TLAPS

here == <<cur, env>>
Limit == MaxBranchRecursion + MaxRank

-----------------------------------------------------------------------------
(* The inductive invariant: what each value of pc says about the counter.    *)

\* The stack is empty whenever the forever loop runs.
TableInv == /\ pc = "main" => depth = 0 /\ env = Env0
            /\ pc \in {"table", "stopped"} => depth = 0
            /\ pc = "search" => depth = 0 /\ counter = 0 /\ lo <= jumpTableId /\ jumpTableId <= hi

\* A procedure about to run has not been counted yet.
CountInv == /\ pc = "enter" => depth = counter + 1
            /\ pc = "body" => depth = counter
            /\ pc = "unwind" => depth <= counter

\* What is left of the limit covers the unchecked procedures to come.
RoomInv == /\ pc = "enter" => counter <= Limit
           /\ pc = "enter" /\ cur \notin CheckedBlocks => counter + 1 + Rank[here] <= Limit
           /\ pc = "body" => counter + Rank[here] <= Limit
           /\ pc = "unwind" => counter <= Limit + 1

IInv == TypeOK /\ TableInv /\ CountInv /\ RoomInv

-----------------------------------------------------------------------------
(* The id a checked block stores is one of the table's, and leads back to    *)
(* that block.                                                               *)
LEMMA ResetIdTarget ==
    ASSUME NEW p \in CheckedBlocks
    PROVE  /\ ResetId(p) \in START_STACK_RESET_ID .. NumChecks + 1
           /\ TableEntry(ResetId(p)) = p
<1> DEFINE k == CHOOSE i \in 0 .. NumChecks - 1 : CheckAt[i] = p
<1>1. k \in 0 .. NumChecks - 1 /\ CheckAt[k] = p
  BY DEF CheckedBlocks
<1>2. ResetId(p) = 2 + k
  BY DEF ResetId, START_STACK_RESET_ID
<1> HIDE DEF k
<1> QED
  BY <1>1, <1>2, ChecksAssumption DEF TableEntry, START_STACK_RESET_ID, ENTRY_CALL_ID

(* Every id but the exit id leads to a procedure of the program.             *)
LEMMA TableEntryType ==
    ASSUME NEW id \in 1 .. NumChecks + 1
    PROVE  TableEntry(id) \in Proc
BY ProgramAssumption, ChecksAssumption
   DEF TableEntry, ENTRY_CALL_ID, START_STACK_RESET_ID

(* A step of the program leads from a point to a point.                      *)
LEMMA StepType ==
    ASSUME NEW s \in Step
    PROVE  /\ s[1] \in Point /\ s[2] \in Point
           /\ s[2][1] \in Proc /\ s[2][2] \in Env
           /\ s[2] = <<s[2][1], s[2][2]>>
BY ProgramAssumption DEF Point

LEMMA InitIInv == Init => IInv
BY ProgramAssumption, ChecksAssumption DEF Init, IInv, TypeOK, TableInv, CountInv, RoomInv

LEMMA NextIInv == IInv /\ [Next]_vars => IInv'
<1> SUFFICES ASSUME IInv, [Next]_vars
             PROVE  IInv'
  OBVIOUS
<1> USE ChecksAssumption DEF IInv, TypeOK, TableInv, CountInv, RoomInv
<1>1. CASE Main
  BY <1>1 DEF Main, ENTRY_CALL_ID
<1>2. CASE TableReset
  BY <1>2 DEF TableReset
<1>3. CASE SearchBranch
  <2> DEFINE mid == (lo + hi) \div 2
  <2>1. lo <= mid /\ mid < hi /\ mid \in Nat
    BY <1>3 DEF SearchBranch
  <2>2. CASE jumpTableId > mid /\ lo' = mid + 1 /\ hi' = hi
    BY <1>3, <2>1, <2>2 DEF SearchBranch
  <2>3. CASE ~(jumpTableId > mid) /\ hi' = mid /\ lo' = lo
    BY <1>3, <2>1, <2>3 DEF SearchBranch
  <2> QED
    BY <1>3, <2>2, <2>3 DEF SearchBranch
<1>4. CASE SearchExit
  BY <1>4 DEF SearchExit
<1>5. CASE SearchCall
  <2>1. TableEntry(lo) \in Proc
    BY <1>5, TableEntryType DEF SearchCall, EXIT_CALL_ID
  <2>2. <<cur', env>> \in Point /\ Rank[<<cur', env>>] \in 0 .. MaxRank
    BY <1>5, <2>1, RankAssumption DEF SearchCall, Point
  <2> QED
    BY <1>5, <2>1, <2>2, RankAssumption DEF SearchCall, Limit, here
<1>6. CASE EnterChecked
  <2>1. /\ cur \in CheckedBlocks /\ pc = "enter"
        /\ counter' = counter + 1 /\ jumpTableId' = ResetId(cur) /\ pc' = "unwind"
        /\ cur' = cur /\ env' = env /\ depth' = depth /\ lo' = lo /\ hi' = hi
    BY <1>6 DEF EnterChecked, OverLimit
  <2>2. jumpTableId' \in 0 .. NumChecks + 1
    BY <2>1, ResetIdTarget DEF START_STACK_RESET_ID
  <2>3. Limit' = Limit /\ Limit \in Nat
    BY RankAssumption DEF Limit
  <2> QED
    BY <2>1, <2>2, <2>3
<1>7. CASE Enter
  <2>1. here \in Point /\ Rank[here] \in 0 .. MaxRank
    BY RankAssumption DEF here, Point
  <2>2. here' = here
    BY <1>7 DEF Enter, here
  <2>3. counter' + Rank[here] <= Limit
    BY <1>7, <2>1, RankAssumption DEF Enter, OverLimit, Limit
  <2> QED
    BY <1>7, <2>2, <2>3 DEF Enter
<1>8. CASE Body
  <2>1. PICK s \in Step : s[1] = here /\ cur' = s[2][1] /\ env' = s[2][2]
    BY <1>8 DEF Body, here
  <2>2. s[2] = here' /\ cur' \in Proc /\ env' \in Env
    BY <2>1, StepType DEF here
  <2>3. Rank[here] \in 0 .. MaxRank /\ Rank[here'] \in 0 .. MaxRank
    BY <2>1, <2>2, StepType, RankAssumption
  <2>4. cur' \notin CheckedBlocks => Rank[here'] < Rank[here]
    BY <2>1, <2>2, RankAssumption
  <2> QED
    BY <1>8, <2>2, <2>3, <2>4, RankAssumption DEF Body, Limit
<1>9. CASE RetEntry
  <2>1. Rank[here] \in 0 .. MaxRank
    BY RankAssumption DEF here, Point
  <2> QED
    BY <1>9, <2>1, RankAssumption DEF RetEntry, EXIT_CALL_ID, Limit
<1>10. CASE Unwind
  BY <1>10 DEF Unwind
<1>11. CASE UNCHANGED vars
  BY <1>11 DEF vars, here
<1> QED
  BY <1>1, <1>2, <1>3, <1>4, <1>5, <1>6, <1>7, <1>8, <1>9, <1>10, <1>11 DEF Next

LEMMA Invariance == Spec => []IInv
BY InitIInv, NextIInv, PTL DEF Spec

-----------------------------------------------------------------------------
(* Type correctness of the generated project's state.                        *)
THEOREM TypeCorrect == Spec => []TypeOK
<1>1. IInv => TypeOK
  BY DEF IInv
<1> QED
  BY <1>1, Invariance, PTL

(* The call stack never exceeds the limit by more than the longest run of    *)
(* unchecked procedures.                                                     *)
THEOREM StackIsBounded == Spec => []StackBounded
<1>1. IInv => StackBounded
  <2> SUFFICES ASSUME IInv PROVE StackBounded
    OBVIOUS
  <2> USE ChecksAssumption, RankAssumption
      DEF IInv, TypeOK, TableInv, CountInv, RoomInv, StackBounded, Limit
  <2>1. Rank[here] \in 0 .. MaxRank
    BY DEF here, Point
  <2> QED
    BY <2>1
<1> QED
  BY <1>1, Invariance, PTL

(* The jump table's search ends in the branch of the id it was given.        *)
THEOREM SearchIsCorrect == Spec => []SearchOnTarget
<1>1. IInv => SearchOnTarget
  BY DEF IInv, TypeOK, TableInv, SearchOnTarget
<1> QED
  BY <1>1, Invariance, PTL

(* The counter a check reads is the depth of the stack.                      *)
THEOREM CounterIsCorrect == Spec => []CounterIsDepth
<1>1. IInv => CounterIsDepth
  BY DEF IInv, CountInv, CounterIsDepth
<1> QED
  BY <1>1, Invariance, PTL

-----------------------------------------------------------------------------
(* Refinement: every step is a step of the program or none.                  *)

LEMMA InitRefines == Init => CF!Init
BY DEF Init, CF!Init, AtBar

LEMMA NextRefines == IInv /\ [Next]_vars => [CF!Next]_AtBar
<1> SUFFICES ASSUME IInv, [Next]_vars
             PROVE  CF!Transfer \/ CF!Finish \/ AtBar' = AtBar
  BY DEF CF!Next
<1> USE ChecksAssumption DEF IInv, TypeOK, TableInv, AtBar
<1>1. CASE Main
  BY <1>1 DEF Main, ENTRY_CALL_ID, EXIT_CALL_ID, TableEntry
<1>2. CASE TableReset
  BY <1>2 DEF TableReset, TableEntry
<1>3. CASE SearchBranch
  BY <1>3 DEF SearchBranch, TableEntry
<1>4. CASE SearchExit
  BY <1>4 DEF SearchExit, EXIT_CALL_ID
<1>5. CASE SearchCall
  <2>1. lo = jumpTableId
    BY <1>5 DEF SearchCall
  <2> QED
    BY <1>5, <2>1 DEF SearchCall
<1>6. CASE EnterChecked
  <2>1. /\ cur \in CheckedBlocks /\ pc = "enter"
        /\ jumpTableId' = ResetId(cur) /\ pc' = "unwind" /\ env' = env
    BY <1>6 DEF EnterChecked, OverLimit
  <2>2. /\ TableEntry(jumpTableId') = cur
        /\ jumpTableId' # EXIT_CALL_ID
    BY <2>1, ResetIdTarget DEF START_STACK_RESET_ID, EXIT_CALL_ID
  <2>3. AtBar = <<cur, env>>
    BY <2>1
  <2>4. AtBar' = <<TableEntry(jumpTableId'), env'>>
    BY <2>1, <2>2 DEF TableEntry
  <2> QED
    BY <2>1, <2>2, <2>3, <2>4
<1>7. CASE Enter
  BY <1>7 DEF Enter
<1>8. CASE Body
  <2>1. PICK s \in Step : s[1] = <<cur, env>> /\ cur' = s[2][1] /\ env' = s[2][2]
    BY <1>8 DEF Body
  <2>2. AtBar = s[1] /\ AtBar' = s[2]
    BY <1>8, <2>1, StepType DEF Body
  <2> QED
    BY <2>2 DEF CF!Transfer
<1>9. CASE RetEntry
  BY <1>9 DEF RetEntry, CF!Finish, CF!Done
<1>10. CASE Unwind
  BY <1>10 DEF Unwind, TableEntry
<1>11. CASE UNCHANGED vars
  BY <1>11 DEF vars, TableEntry
<1> QED
  BY <1>1, <1>2, <1>3, <1>4, <1>5, <1>6, <1>7, <1>8, <1>9, <1>10, <1>11 DEF Next

(* The generated project implements the program's own control flow: resets   *)
(* of the call stack neither skip, repeat nor reorder a procedure.           *)
THEOREM TrampolineIsTransparent == Spec => Transparent
BY Invariance, InitRefines, NextRefines, PTL DEF Spec, Transparent, CF!Spec
=============================================================================
