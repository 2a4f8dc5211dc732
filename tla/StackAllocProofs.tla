-------------------------- MODULE StackAllocProofs --------------------------
(* StackAlloc proved for every program whose frames have sizes that are known *)
(* (Static), however deep its calls, recursive ones included:                *)
(*   Disjoint     no two allocations in use share a byte;                    *)
(*   Restores     a call leaves the stack pointer where it found it;         *)
(*   TypeCorrect  everything stays within the memory, given room for the     *)
(*                frames the bound allows.                                   *)
(* The inductive invariant IInv lays the frames out: each begins below the    *)
(* arguments its caller passed it and ends what it reserved further down; its *)
(* allocas are within what it has used so far, in descending order; and the   *)
(* function of a later frame is one that those of the earlier ones can call,  *)
(* which is what get_fn_info's decision not to reserve is about.              *)
EXTENDS StackAlloc, InductionLemmas

(* The sums of a sequence of numbers are what their recursion says.           *)
LEMMA SumsDef ==
    ASSUME NEW s \in Seq(Nat)
    PROVE Sums(s) = [k \in 0 .. Len(s) |-> IF k = 0 THEN 0 ELSE Sums(s)[k - 1] + s[k]]
<1> DEFINE step == [n \in Nat |-> [v \in Nat |-> v + (IF n + 1 \in 1 .. Len(s) THEN s[n + 1] ELSE 0)]]
<1>1. step \in [Nat -> [Nat -> Nat]]
  OBVIOUS
<1>2. \A k \in 1 .. Len(s), v \in Nat : step[k - 1][v] = v + s[k]
  OBVIOUS
<1> HIDE DEF step
<1>3. PICK f \in [Nat -> Nat] : f[0] = 0 /\ \A n \in Nat : f[n + 1] = step[n][f[n]]
  <2>1. Recursive(Nat, 0, step)
    BY <1>1, RecursionExists
  <2> QED
    BY <2>1 DEF Recursive
<1> DEFINE g == [k \in 0 .. Len(s) |-> f[k]]
<1>5. g = [k \in 0 .. Len(s) |-> IF k = 0 THEN 0 ELSE g[k - 1] + s[k]]
  <2>1. ASSUME NEW k \in 0 .. Len(s), k # 0
        PROVE  f[k] = f[k - 1] + s[k]
    <3>1. k - 1 \in Nat /\ (k - 1) + 1 = k /\ k \in 1 .. Len(s)
      BY <2>1
    <3>2. f[k] = step[k - 1][f[k - 1]] /\ f[k - 1] \in Nat
      BY <1>3, <3>1
    <3> QED
      BY <3>1, <3>2, <1>2
  <2>2. \A k \in 0 .. Len(s) : k # 0 => g[k - 1] = f[k - 1]
    OBVIOUS
  <2> QED
    BY <2>1, <2>2, <1>3
<1> QED
  BY <1>5 DEF Sums

(* The sums begin at zero, and each adds one member.                          *)
LEMMA SumsStep ==
    ASSUME NEW s \in Seq(Nat)
    PROVE  /\ Sums(s) \in [0 .. Len(s) -> Nat]
           /\ Sums(s)[0] = 0
           /\ \A k \in 1 .. Len(s) : Sums(s)[k] = Sums(s)[k - 1] + s[k]
<1> DEFINE S == Sums(s)
<1>1. S = [k \in 0 .. Len(s) |-> IF k = 0 THEN 0 ELSE S[k - 1] + s[k]]
  BY SumsDef
<1> HIDE DEF S
<1>2. S[0] = 0 /\ \A k \in 1 .. Len(s) : S[k] = S[k - 1] + s[k]
  <2>1. 0 \in 0 .. Len(s)
    OBVIOUS
  <2>2. \A k \in 1 .. Len(s) : k \in 0 .. Len(s) /\ k # 0
    OBVIOUS
  <2> QED
    BY <1>1, <2>1, <2>2
<1> DEFINE T == {k \in Nat : k <= Len(s) => S[k] \in Nat}
<1>3. 0 \in T
  BY <1>2
<1>4. ASSUME NEW k \in Nat, k \in T PROVE k + 1 \in T
  <2> SUFFICES ASSUME k + 1 <= Len(s) PROVE S[k + 1] \in Nat
    OBVIOUS
  <2>1. k + 1 \in 1 .. Len(s) /\ s[k + 1] \in Nat /\ S[k] \in Nat
    BY <1>4
  <2> QED
    BY <1>2, <2>1
<1> HIDE DEF T
<1>5. \A k \in Nat : k \in T
  BY <1>3, <1>4, Induction
<1>6. \A k \in 0 .. Len(s) : S[k] \in Nat
  BY <1>5 DEF T
<1>7. S \in [0 .. Len(s) -> Nat]
  BY <1>1, <1>6
<1> QED
  BY <1>2, <1>7 DEF S

(* The sums never decrease.                                                   *)
LEMMA SumsGrow ==
    ASSUME NEW s \in Seq(Nat), NEW m \in 0 .. Len(s)
    PROVE  \A n \in m .. Len(s) : Sums(s)[m] <= Sums(s)[n]
<1> DEFINE S == Sums(s)
           T == {d \in Nat : m + d <= Len(s) => S[m] <= S[m + d]}
<1>1. S \in [0 .. Len(s) -> Nat] /\ \A k \in 1 .. Len(s) : S[k] = S[k - 1] + s[k]
  BY SumsStep
<1> HIDE DEF S
<1>2. 0 \in T
  BY <1>1
<1>3. ASSUME NEW d \in Nat, d \in T PROVE d + 1 \in T
  <2> SUFFICES ASSUME m + (d + 1) <= Len(s) PROVE S[m] <= S[m + (d + 1)]
    OBVIOUS
  <2> DEFINE n == m + d
  <2>1. n + 1 \in 1 .. Len(s) /\ n \in 0 .. Len(s) /\ (n + 1) - 1 = n /\ m + (d + 1) = n + 1
    OBVIOUS
  <2>2. S[m] <= S[n]
    BY <1>3, <2>1
  <2> HIDE DEF n
  <2>3. S[n + 1] = S[n] + s[n + 1] /\ S[n] \in Nat /\ S[m] \in Nat /\ s[n + 1] \in Nat
    <3>1. S[n + 1] = S[(n + 1) - 1] + s[n + 1]
      BY <1>1, <2>1
    <3>2. s[n + 1] \in Nat
      BY <2>1
    <3> QED
      BY <1>1, <2>1, <3>1, <3>2
  <2>4. S[m] <= S[n + 1]
    <3>1. \A x, y, z \in Int : x <= y /\ z >= 0 => x <= y + z
      OBVIOUS
    <3> QED
      BY <2>2, <2>3, <3>1
  <2> QED
    BY <2>1, <2>4
<1> HIDE DEF T
<1>4. \A d \in Nat : d \in T
  BY <1>2, <1>3, Induction
<1>5. \A n \in m .. Len(s) : n - m \in Nat /\ m + (n - m) = n
  OBVIOUS
<1> QED
  BY <1>4, <1>5 DEF T, S

(* Numbers that add up to zero are all zero.                                  *)
LEMMA SumsZero ==
    ASSUME NEW s \in Seq(Nat), Sums(s)[Len(s)] = 0
    PROVE  \A k \in 1 .. Len(s) : s[k] = 0
<1> TAKE k \in 1 .. Len(s)
<1>1. /\ Sums(s)[k] = Sums(s)[k - 1] + s[k]
      /\ Sums(s)[k] \in Nat /\ Sums(s)[k - 1] \in Nat /\ s[k] \in Nat
  BY SumsStep
<1>2. Sums(s)[k] <= Sums(s)[Len(s)]
  BY SumsGrow
<1> QED
  BY <1>1, <1>2

(* Zeros add up to zero.                                                      *)
LEMMA SumsOfZeros ==
    ASSUME NEW s \in Seq(Nat), \A k \in 1 .. Len(s) : s[k] = 0
    PROVE  Sums(s)[Len(s)] = 0
<1> DEFINE S == Sums(s)
           T == {k \in Nat : k <= Len(s) => S[k] = 0}
<1>1. S[0] = 0 /\ \A k \in 1 .. Len(s) : S[k] = S[k - 1] + s[k]
  BY SumsStep
<1> HIDE DEF S
<1>2. 0 \in T
  BY <1>1
<1>3. ASSUME NEW k \in Nat, k \in T PROVE k + 1 \in T
  <2> SUFFICES ASSUME k + 1 <= Len(s) PROVE S[k + 1] = 0
    OBVIOUS
  <2>1. k + 1 \in 1 .. Len(s) /\ (k + 1) - 1 = k /\ S[k] = 0
    BY <1>3
  <2>2. S[k + 1] = S[(k + 1) - 1] + s[k + 1] /\ s[k + 1] = 0
    BY <1>1, <2>1
  <2> QED
    BY <2>1, <2>2
<1> HIDE DEF T
<1>4. \A k \in Nat : k \in T
  BY <1>2, <1>3, Induction
<1>5. Len(s) \in Nat
  OBVIOUS
<1> QED
  BY <1>4, <1>5 DEF T, S

-----------------------------------------------------------------------------

(* What the assumption says of the blocks and instructions of a function.     *)
LEMMA ProgramFacts ==
    ASSUME NEW p \in Programs, NEW f \in DOMAIN p
    PROVE  /\ First(p[f]) \in Label(p[f])
           /\ DOMAIN p[f].next = Label(p[f])
           /\ \A b \in Label(p[f]) :
                 /\ p[f].next[b] \subseteq Label(p[f]) \ {First(p[f])}
                 /\ p[f].body[b] \in Seq(Instruction(p))
                 /\ \A k \in 1 .. Len(p[f].body[b]) :
                       LET i == p[f].body[b][k]
                       IN  /\ i \in Instruction(p)
                           /\ i \in Instrs(p[f])
                           /\ i.op = "alloca" => i.size > 0 /\ i.varargs = 0
                           /\ i.op # "alloca" => i.op = "call" /\ i.size = 0 /\ i.to \in DOMAIN p
                           /\ i.varargs > 0 => p[i.to].variadic
<1>1. WellFormed(p)
  BY ProgramsAssumption
<1>2. First(p[f]) \in Label(p[f]) /\ DOMAIN p[f].next = Label(p[f])
  BY <1>1 DEF WellFormed, First
<1>3. ASSUME NEW b \in Label(p[f])
      PROVE  /\ p[f].next[b] \subseteq Label(p[f]) \ {First(p[f])}
             /\ p[f].body[b] \in Seq(Instruction(p))
  BY <1>1 DEF WellFormed
<1>4. ASSUME NEW b \in Label(p[f]), NEW k \in 1 .. Len(p[f].body[b])
      PROVE  LET i == p[f].body[b][k]
             IN  /\ i \in Instruction(p)
                 /\ i \in Instrs(p[f])
                 /\ i.op = "alloca" => i.size > 0 /\ i.varargs = 0
                 /\ i.op # "alloca" => i.op = "call" /\ i.size = 0 /\ i.to \in DOMAIN p
                 /\ i.varargs > 0 => p[i.to].variadic
  <2> DEFINE i == p[f].body[b][k]
  <2>1. p[f].body[b] \in Seq(Instruction(p)) /\ k \in DOMAIN p[f].body[b]
    BY <1>3
  <2>2. i \in Instruction(p)
    BY <2>1
  <2>3. i \in Instrs(p[f])
    BY <2>1 DEF Instrs, ToSet
  <2>4. IF i.op = "alloca" THEN i.size > 0 /\ i.varargs = 0
        ELSE i.size = 0 /\ i.to \in DOMAIN p /\ (i.varargs > 0 => p[i.to].variadic)
    BY <1>1, <2>1 DEF WellFormed
  <2>5. i.op \in {"alloca", "call"}
    BY <2>2 DEF Instruction
  <2> HIDE DEF i
  <2> QED
    BY <2>2, <2>3, <2>4, <2>5 DEF i
<1> QED
  BY <1>2, <1>3, <1>4

(* Only allocas have a size.                                                  *)
LEMMA SizeOfCall ==
    ASSUME NEW p \in Programs, NEW f \in DOMAIN p, NEW b \in Label(p[f]),
           NEW k \in 1 .. Len(p[f].body[b])
    PROVE  p[f].body[b][k].op # "alloca" => p[f].body[b][k].size = 0
BY ProgramFacts

(* The sizes of a block's instructions are a sequence of numbers.             *)
LEMMA SizesOfCode ==
    ASSUME NEW p \in Programs, NEW f \in DOMAIN p, NEW b \in Label(p[f])
    PROVE  LET s == Sizes(p[f].body[b])
           IN  /\ s \in Seq(Nat) /\ Len(s) = Len(p[f].body[b])
               /\ \A k \in 1 .. Len(s) : s[k] = p[f].body[b][k].size
<1>1. p[f].body[b] \in Seq(Instruction(p))
  BY ProgramFacts
<1>2. ASSUME NEW k \in 1 .. Len(p[f].body[b])
      PROVE  p[f].body[b][k].size \in Nat
  <2>1. p[f].body[b][k] \in Instruction(p)
    BY ProgramFacts
  <2> QED
    BY <2>1 DEF Instruction
<1> DEFINE n == Len(p[f].body[b])
<1>3. n \in Nat /\ DOMAIN p[f].body[b] = 1 .. n
  BY <1>1
<1>4. Sizes(p[f].body[b]) = [k \in 1 .. n |-> p[f].body[b][k].size]
  BY <1>3 DEF Sizes
<1> HIDE DEF n
<1>5. Sizes(p[f].body[b]) \in [1 .. n -> Nat]
  BY <1>2, <1>4 DEF n
<1> QED
  BY <1>3, <1>4, <1>5 DEF n

(* Nothing branches to a first block, so find_nodes_with_cycle leaves it out, *)
(* and it is the block that get_fn_info takes to run once.                    *)
LEMMA FirstRunsOnce ==
    ASSUME NEW p \in Programs, NEW f \in DOMAIN p
    PROVE  RanOnce(p[f]) = {First(p[f])}
<1> DEFINE S == Label(p[f]) \ {First(p[f])}
<1>1. \A b \in Label(p[f]) : p[f].next[b] \subseteq S
  BY ProgramFacts
<1>2. DOMAIN p[f].next = Label(p[f])
  BY ProgramFacts
<1>3. First(p[f]) \notin Repeating(p[f])
  <2> SUFFICES ASSUME First(p[f]) \in Label(p[f]) PROVE First(p[f]) \notin Reached(p[f].next, First(p[f]))
    BY DEF Repeating
  <2>1. S \in SUBSET DOMAIN p[f].next /\ Closed(p[f].next, S) /\ p[f].next[First(p[f])] \subseteq S
    BY <1>1, <1>2 DEF Closed
  <2> QED
    BY <2>1 DEF Reached
<1> QED
  BY <1>3 DEF RanOnce


(* In a function whose frame's size is known only the first block allocates,  *)
(* and the size get_fn_info finds is what its allocas add up to.              *)
LEMMA StaticFrame ==
    ASSUME NEW p \in Programs, Static(p), NEW f \in DOMAIN p
    PROVE  /\ TotalAllocaSize(p[f]) \in Nat
           /\ TotalAllocaSize(p[f]) =
                Sums(Sizes(p[f].body[First(p[f])]))[Len(p[f].body[First(p[f])])]
           /\ \A b \in Label(p[f]) \ {First(p[f])} :
                /\ BlockAllocaSize(p[f])[b] = 0
                /\ \A k \in 1 .. Len(p[f].body[b]) : p[f].body[b][k].op # "alloca"
           /\ TotalAllocaSize(p[f]) = 0 =>
                \A b \in Label(p[f]) : \A k \in 1 .. Len(p[f].body[b]) : p[f].body[b][k].op # "alloca"
           /\ ~Allocates(p, f) => TotalAllocaSize(p[f]) = 0
<1> DEFINE first == First(p[f])
           block == BlockAllocaSize(p[f])
<1>1. first \in Label(p[f])
  BY ProgramFacts
<1>2. ASSUME NEW b \in Label(p[f])
      PROVE  /\ block[b] = Sums(Sizes(p[f].body[b]))[Len(p[f].body[b])]
             /\ block[b] \in Nat
             /\ block[b] = 0 => \A k \in 1 .. Len(p[f].body[b]) : p[f].body[b][k].op # "alloca"
             /\ (\A k \in 1 .. Len(p[f].body[b]) : p[f].body[b][k].op # "alloca") => block[b] = 0
  <2> DEFINE s == Sizes(p[f].body[b])
             code1 == p[f].body[b]
  <2>1. s \in Seq(Nat) /\ Len(s) = Len(code1) /\ \A k \in 1 .. Len(s) : s[k] = code1[k].size
    BY SizesOfCode
  <2>2. block[b] = Sums(s)[Len(s)]
    BY <2>1 DEF BlockAllocaSize
  <2>3. \A k \in 1 .. Len(code1) : /\ code1[k].op = "alloca" => code1[k].size > 0
                                   /\ code1[k].op # "alloca" => code1[k].size = 0
    BY ProgramFacts
  <2> HIDE DEF s, code1
  <2>4. block[b] \in Nat
    BY <2>1, <2>2, SumsStep
  <2>5. ASSUME block[b] = 0 PROVE \A k \in 1 .. Len(code1) : code1[k].op # "alloca"
    <3>1. \A k \in 1 .. Len(s) : s[k] = 0
      BY <2>1, <2>2, <2>5, SumsZero
    <3>2. \A k \in 1 .. Len(code1) : code1[k].size = 0
      BY <2>1, <3>1
    <3> QED
      BY <2>3, <3>2
  <2>6. ASSUME \A k \in 1 .. Len(code1) : code1[k].op # "alloca" PROVE block[b] = 0
    BY <2>1, <2>2, <2>3, <2>6, SumsOfZeros
  <2> QED
    BY <2>1, <2>2, <2>4, <2>5, <2>6 DEF s, code1
<1>3. RanOnce(p[f]) = {first} /\ TotalAllocaSize(p[f]) # Unknown
  BY FirstRunsOnce DEF Static
<1>4. /\ \A b \in Label(p[f]) \ {first} : block[b] = 0
      /\ TotalAllocaSize(p[f]) = block[first]
  BY <1>3 DEF TotalAllocaSize
<1>5. ASSUME TotalAllocaSize(p[f]) = 0, NEW b \in Label(p[f])
      PROVE \A k \in 1 .. Len(p[f].body[b]) : p[f].body[b][k].op # "alloca"
  <2>1. block[b] = 0
    BY <1>4, <1>5
  <2> HIDE DEF block
  <2> QED
    BY <1>2, <2>1
<1>6. ASSUME ~Allocates(p, f) PROVE TotalAllocaSize(p[f]) = 0
  <2>1. \A k \in 1 .. Len(p[f].body[first]) : p[f].body[first][k].op # "alloca"
    BY <1>1, <1>6, ProgramFacts DEF Allocates
  <2> HIDE DEF block, first
  <2> QED
    BY <1>1, <1>2, <1>4, <2>1
<1> HIDE DEF block
<1> QED
  BY <1>1, <1>2, <1>4, <1>5, <1>6 DEF block

-----------------------------------------------------------------------------

(* With known sizes, what Ret gives back is what the first block reserved, and *)
(* no other block reserves anything.                                          *)
LEMMA InfoFacts ==
    ASSUME prog \in Programs, Static(prog), info = FnInfo(prog), NEW f \in DOMAIN prog
    PROVE  /\ info[f].total \in Nat
           /\ info[f].total = TotalAllocaSize(prog[f])
           /\ info[f].skip = SkipStackSizeChange(prog, CallGraph(prog), f)
           /\ Released(f) = IF info[f].skip THEN 0 ELSE info[f].total
           /\ Released(f) \in Nat
           /\ Reserved(f, First(prog[f])) = Released(f)
           /\ \A b \in Label(prog[f]) \ {First(prog[f])} : Reserved(f, b) = 0
<1>1. info[f] = [block |-> BlockAllocaSize(prog[f]),
                 total |-> TotalAllocaSize(prog[f]),
                 skip  |-> SkipStackSizeChange(prog, CallGraph(prog), f)]
  BY DEF FnInfo
<1>2. TotalAllocaSize(prog[f]) \in Nat
  BY StaticFrame
<1>3. \A b \in Label(prog[f]) \ {First(prog[f])} : info[f].block[b] = 0
  BY <1>1, StaticFrame
<1>4. info[f].total # Unknown /\ info[f].total \in Nat
  BY <1>1, <1>2 DEF Unknown
<1>5. Released(f) = IF info[f].skip THEN 0 ELSE info[f].total
  BY <1>4 DEF Released
<1>6. Reserved(f, First(prog[f])) = Released(f)
  BY <1>4, <1>5 DEF Reserved
<1>7. \A b \in Label(prog[f]) \ {First(prog[f])} : Reserved(f, b) = 0
  BY <1>3 DEF Reserved
<1> QED
  BY <1>1, <1>2, <1>4, <1>5, <1>6, <1>7

(* An alloca is in the first block, and within the frame.                    *)
LEMMA AllocaFacts ==
    ASSUME prog \in Programs, Static(prog), info = FnInfo(prog), NEW f \in DOMAIN prog,
           NEW b \in Label(prog[f]), NEW k \in 1 .. Len(prog[f].body[b]),
           prog[f].body[b][k].op = "alloca", sp \in Int
    PROVE  LET sums == Sums(Sizes(prog[f].body[b]))
               size == prog[f].body[b][k].size
           IN  /\ b = First(prog[f])
               /\ AllocaAddr(f, b, k) = sp + Released(f) - sums[k] + 1
               /\ sums[k - 1] \in Nat /\ sums[k] \in Nat /\ size \in Nat /\ size > 0
               /\ sums[k] = sums[k - 1] + size
               /\ sums[k] <= info[f].total
<1> DEFINE s == Sizes(prog[f].body[b])
           size == prog[f].body[b][k].size
<1>1. b = First(prog[f])
  BY StaticFrame
<1>2. s \in Seq(Nat) /\ Len(s) = Len(prog[f].body[b]) /\ s[k] = size /\ size \in Nat
  BY SizesOfCode
<1>3. size > 0
  BY ProgramFacts
<1>4. info[f].total = Sums(s)[Len(s)] /\ info[f].total # Unknown /\ info[f].total \in Nat
  BY <1>1, <1>2, StaticFrame, InfoFacts DEF Unknown
<1>5. Released(f) = (IF info[f].skip THEN 0 ELSE info[f].total) /\ Released(f) \in Nat
  BY InfoFacts
<1>6. Allocated(f, b, k) = Sums(s)[k - 1] + 0
  BY <1>4 DEF Allocated
<1> HIDE DEF s, size
<1>7. k \in 1 .. Len(s) /\ k \in 0 .. Len(s) /\ k - 1 \in 0 .. Len(s) /\ Len(s) \in k .. Len(s)
  BY <1>2
<1>8. Sums(s)[k - 1] \in Nat /\ Sums(s)[k] \in Nat /\ Sums(s)[k] = Sums(s)[k - 1] + size
  BY <1>2, <1>7, SumsStep
<1>9. Sums(s)[k] <= info[f].total
  BY <1>2, <1>4, <1>7, SumsGrow
<1>10. AllocaAddr(f, b, k) = sp + Released(f) - Allocated(f, b, k) - size + 1
  BY <1>4, <1>5 DEF AllocaAddr, size
<1>11. AllocaAddr(f, b, k) = sp + Released(f) - Sums(s)[k] + 1
  <2>1. Allocated(f, b, k) = Sums(s)[k - 1]
    BY <1>6, <1>8
  <2> DEFINE before == Sums(s)[k - 1]
             after == Sums(s)[k]
             r == Released(f)
  <2>2. before \in Nat /\ after \in Nat /\ after = before + size /\ r \in Nat
    BY <1>5, <1>8
  <2>3. AllocaAddr(f, b, k) = sp + r - before - size + 1
    BY <1>10, <2>1
  <2> HIDE DEF before, after, r
  <2>4. AllocaAddr(f, b, k) = sp + r - after + 1
    BY <1>2, <2>2, <2>3
  <2> QED
    BY <2>4 DEF after, r
<1> QED
  BY <1>1, <1>2, <1>3, <1>8, <1>9, <1>11 DEF s, size

(* The call graph has the functions a function calls, and is closed under calls. *)
LEMMA CallGraphFacts ==
    ASSUME NEW p \in Programs, NEW f \in DOMAIN p
    PROVE  /\ CallGraph(p)[f] \subseteq DOMAIN p
           /\ Callees(p)[f] \subseteq CallGraph(p)[f]
           /\ \A h \in DOMAIN p : f \in CallGraph(p)[h] => Callees(p)[f] \subseteq CallGraph(p)[h]
           /\ \A b \in Label(p[f]) : \A k \in 1 .. Len(p[f].body[b]) :
                 p[f].body[b][k].op = "call" =>
                    p[f].body[b][k].to \in Callees(p)[f] /\ p[f].body[b][k].to \in DOMAIN p
<1>1. DOMAIN Callees(p) = DOMAIN p
  BY DEF Callees
<1>2. \A h \in DOMAIN p : CallGraph(p)[h] = Reached(Callees(p), h)
  BY DEF CallGraph
<1>3. \A h \in DOMAIN p : Callees(p)[h] \subseteq DOMAIN p
  <2> SUFFICES ASSUME NEW h \in DOMAIN p, NEW i \in Instrs(p[h]), i.op = "call" PROVE i.to \in DOMAIN p
    BY DEF Callees
  <2>1. PICK b \in Label(p[h]) : i \in ToSet(p[h].body[b])
    BY DEF Instrs
  <2>2. p[h].body[b] \in Seq(Instruction(p))
    BY ProgramFacts
  <2>3. PICK k \in 1 .. Len(p[h].body[b]) : i = p[h].body[b][k]
    BY <2>1, <2>2 DEF ToSet
  <2> QED
    BY <2>3, ProgramFacts
<1>4. \A b \in Label(p[f]) : \A k \in 1 .. Len(p[f].body[b]) :
         p[f].body[b][k].op = "call" =>
            p[f].body[b][k].to \in Callees(p)[f] /\ p[f].body[b][k].to \in DOMAIN p
  BY <1>3, ProgramFacts DEF Callees
<1>5. CallGraph(p)[f] \subseteq DOMAIN p
  BY <1>1, <1>2 DEF Reached
<1>6. Callees(p)[f] \subseteq CallGraph(p)[f]
  BY <1>1, <1>2, <1>3 DEF Reached
<1>7. ASSUME NEW h \in DOMAIN p, f \in CallGraph(p)[h], NEW g \in Callees(p)[f]
      PROVE  g \in CallGraph(p)[h]
  BY <1>1, <1>2, <1>3, <1>7 DEF Reached, Closed
<1> QED
  BY <1>4, <1>5, <1>6, <1>7

(* A function that passes variadic arguments reserves its frame, and nothing *)
(* allocates below the arguments.                                            *)
LEMMA VariadicFacts ==
    ASSUME prog \in Programs, Static(prog), info = FnInfo(prog), NEW f \in DOMAIN prog,
           NEW b \in Label(prog[f]), NEW k \in 1 .. Len(prog[f].body[b]),
           prog[f].body[b][k].varargs > 0
    PROVE  LET g == prog[f].body[b][k].to
           IN  /\ ~info[f].skip
               /\ \A h \in DOMAIN prog : f \in CallGraph(prog)[h] => ~info[h].skip
               /\ info[g].total = 0
               /\ \A h \in CallGraph(prog)[g] : info[h].total = 0
<1> DEFINE i == prog[f].body[b][k]
<1>1. i \in Instrs(prog[f]) /\ i.op = "call" /\ i.to \in DOMAIN prog /\ prog[i.to].variadic
  BY ProgramFacts
<1> HIDE DEF i
<1>2. \A h \in DOMAIN prog : f = h \/ f \in CallGraph(prog)[h] => ~info[h].skip
  BY <1>1, InfoFacts DEF SkipStackSizeChange, MakesVariadicAlloc
<1>3. \A g \in {i.to} \cup CallGraph(prog)[i.to] : g \in DOMAIN prog /\ ~Allocates(prog, g)
  BY <1>1, CallGraphFacts DEF Static, i
<1>4. \A g \in {i.to} \cup CallGraph(prog)[i.to] : info[g].total = 0
  BY <1>3, StaticFrame, InfoFacts
<1> QED
  BY <1>2, <1>4 DEF i

(* Nothing that a function that does not reserve its frame calls allocates.  *)
LEMMA SkipFacts ==
    ASSUME prog \in Programs, Static(prog), info = FnInfo(prog), NEW f \in DOMAIN prog,
           info[f].skip
    PROVE  \A g \in CallGraph(prog)[f] : info[g].total = 0
<1>1. \A g \in CallGraph(prog)[f] : g \in DOMAIN prog /\ TotalAllocaSize(prog[g]) \in {0, Unknown}
  BY InfoFacts, CallGraphFacts DEF SkipStackSizeChange
<1> QED
  BY <1>1, InfoFacts DEF Unknown

-----------------------------------------------------------------------------
(* The inductive invariant.                                                  *)

Code(fr)   == prog[fr.fn].body[fr.block]

\* The variadic arguments of the call a frame has made.
Passes(fr) == IF fr.k <= Len(Code(fr)) THEN Code(fr)[fr.k].varargs ELSE 0

\* Where the i-th frame begins, below the arguments it was passed, and ends.
Low(fs, i)  == fs[i].calledAt - IF i = 1 THEN 0 ELSE Passes(fs[i - 1])
Base(fs, i) == Low(fs, i) - Released(fs[i].fn)

\* What a frame has allocated so far.
Used(fr) == IF fr.block = First(prog[fr.fn]) THEN Sums(Sizes(Code(fr)))[fr.k - 1]
            ELSE info[fr.fn].total

\* The first n slots of a frame that begins at low are its allocas, downwards.
Allocas(fr, low, n) ==
    /\ \A t \in 1 .. n : /\ low - Used(fr) < fr.slots[t][1]
                         /\ fr.slots[t][1] <= fr.slots[t][2]
                         /\ fr.slots[t][2] <= low
    /\ \A t, u \in 1 .. n : t < u => fr.slots[u][2] < fr.slots[t][1]

\* The slots of a frame whose call is in progress end with the arguments.
Waiting(fr, low) ==
    IF Passes(fr) = 0 THEN Allocas(fr, low, Len(fr.slots))
    ELSE /\ Len(fr.slots) > 0
         /\ Allocas(fr, low, Len(fr.slots) - 1)
         /\ fr.slots[Len(fr.slots)] = <<low - Released(fr.fn) - Passes(fr), low - Released(fr.fn) - 1>>

Frames == [fn : DOMAIN prog, block : UNION {Label(prog[f]) : f \in DOMAIN prog},
           k : Nat \ {0}, slots : Seq(Int \X Int), calledAt : Int]

FramesOK(fs) ==
    /\ fs \in Seq(Frames)
    /\ \A i \in 1 .. Len(fs) : /\ fs[i].block \in Label(prog[fs[i].fn])
                               /\ fs[i].k <= Len(Code(fs[i])) + 1

\* Each frame is called from the end of the one before, by the instruction that
\* one is at.
Nested(fs) ==
    /\ Len(fs) > 0 => fs[1].calledAt = MemorySize /\ fs[1].fn = Entry
    /\ \A i \in 1 .. Len(fs) - 1 :
          /\ fs[i].k <= Len(Code(fs[i]))
          /\ Code(fs[i])[fs[i].k].op = "call"
          /\ Code(fs[i])[fs[i].k].to = fs[i + 1].fn
          /\ fs[i + 1].calledAt = Base(fs, i)

Ordered(fs) ==
    \A i, j \in 1 .. Len(fs) : i < j => /\ fs[j].calledAt <= Base(fs, i)
                                        /\ fs[j].fn \in CallGraph(prog)[fs[i].fn]

SlotsOK(fs) ==
    /\ \A i \in 1 .. Len(fs) - 1 : Waiting(fs[i], Low(fs, i))
    /\ Len(fs) > 0 => Allocas(fs[Len(fs)], Low(fs, Len(fs)), Len(fs[Len(fs)].slots))

IInv ==
    /\ prog \in Programs /\ info = FnInfo(prog)
    /\ FramesOK(frames) /\ Nested(frames) /\ Ordered(frames) /\ SlotsOK(frames)
    /\ sp = IF frames = << >> THEN MemorySize ELSE Base(frames, Len(frames))

(* The types of what is said of a frame, and that it has used no more than its *)
(* function's size.                                                           *)
LEMMA FrameFacts ==
    ASSUME prog \in Programs, Static(prog), info = FnInfo(prog), NEW fr \in Frames,
           fr.block \in Label(prog[fr.fn]), fr.k <= Len(Code(fr)) + 1
    PROVE  /\ fr.fn \in DOMAIN prog /\ fr.k \in Nat \ {0} /\ fr.calledAt \in Int
           /\ fr.slots \in Seq(Int \X Int)
           /\ Code(fr) \in Seq(Instruction(prog))
           /\ Passes(fr) \in Nat /\ Released(fr.fn) \in Nat
           /\ Used(fr) \in Nat /\ Used(fr) <= info[fr.fn].total
           /\ info[fr.fn].total \in Nat
<1>1. fr.fn \in DOMAIN prog /\ fr.k \in Nat \ {0} /\ fr.calledAt \in Int /\ fr.slots \in Seq(Int \X Int)
  BY DEF Frames
<1>2. Code(fr) \in Seq(Instruction(prog))
  BY <1>1, ProgramFacts DEF Code
<1>3. Passes(fr) \in Nat
  <2>1. CASE fr.k <= Len(Code(fr))
    <3>1. fr.k \in 1 .. Len(Code(fr))
      BY <1>1, <1>2, <2>1
    <3>2. Code(fr)[fr.k] \in Instruction(prog)
      BY <1>2, <3>1
    <3> QED
      BY <2>1, <3>2 DEF Passes, Instruction
  <2> QED
    BY <2>1 DEF Passes
<1>4. Released(fr.fn) \in Nat /\ info[fr.fn].total \in Nat
  BY <1>1, InfoFacts
<1>5. Used(fr) \in Nat /\ Used(fr) <= info[fr.fn].total
  <2>1. CASE fr.block = First(prog[fr.fn])
    <3> DEFINE s == Sizes(Code(fr))
    <3>1. s \in Seq(Nat) /\ Len(s) = Len(Code(fr))
      BY <1>1, SizesOfCode DEF Code
    <3>2. info[fr.fn].total = Sums(s)[Len(s)]
      BY <1>1, <2>1, <3>1, StaticFrame, InfoFacts DEF Code
    <3> HIDE DEF s
    <3>3. fr.k - 1 \in 0 .. Len(s) /\ Len(s) \in fr.k - 1 .. Len(s)
      BY <1>1, <3>1
    <3>4. Sums(s)[fr.k - 1] \in Nat /\ Sums(s)[fr.k - 1] <= Sums(s)[Len(s)]
      BY <3>1, <3>3, SumsStep, SumsGrow
    <3> QED
      BY <2>1, <3>2, <3>4 DEF Used, s
  <2> QED
    BY <1>4, <2>1 DEF Used
<1> QED
  BY <1>1, <1>2, <1>3, <1>4, <1>5

(* Each frame of the invariant ends at or below where it begins.              *)
LEMMA BoundsFacts ==
    ASSUME IInv, Static(prog), NEW i \in 1 .. Len(frames)
    PROVE  /\ frames[i] \in Frames
           /\ frames[i].block \in Label(prog[frames[i].fn]) /\ frames[i].k <= Len(Code(frames[i])) + 1
           /\ Low(frames, i) \in Int /\ Base(frames, i) \in Int
           /\ Base(frames, i) <= Low(frames, i) /\ Low(frames, i) <= frames[i].calledAt
           /\ i > 1 => Low(frames, i) = frames[i].calledAt - Passes(frames[i - 1])
<1>1. \A j \in 1 .. Len(frames) :
          frames[j] \in Frames /\ frames[j].block \in Label(prog[frames[j].fn])
          /\ frames[j].k <= Len(Code(frames[j])) + 1
  BY DEF IInv, FramesOK
<1>2. prog \in Programs /\ info = FnInfo(prog)
  BY DEF IInv
<1>3. frames[i].calledAt \in Int /\ Released(frames[i].fn) \in Nat
  BY <1>1, <1>2, FrameFacts
<1>4. i > 1 => i - 1 \in 1 .. Len(frames) /\ Passes(frames[i - 1]) \in Nat
  <2> SUFFICES ASSUME i > 1 PROVE i - 1 \in 1 .. Len(frames) /\ Passes(frames[i - 1]) \in Nat
    OBVIOUS
  <2>1. i - 1 \in 1 .. Len(frames)
    OBVIOUS
  <2> QED
    BY <1>1, <1>2, <2>1, FrameFacts
<1> QED
  BY <1>1, <1>3, <1>4 DEF Low, Base

(* What is true of the frames stays true of the first m of them while the    *)
(* last of these goes on.                                                    *)
LEMMA FirstFrames ==
    ASSUME IInv, Static(prog), NEW fs, NEW m \in 1 .. Len(frames),
           \A i \in 1 .. m - 1 : fs[i] = frames[i],
           fs[m].fn = frames[m].fn, fs[m].calledAt = frames[m].calledAt
    PROVE  /\ fs[1].calledAt = MemorySize /\ fs[1].fn = Entry
           /\ \A i \in 1 .. m : Low(fs, i) = Low(frames, i) /\ Base(fs, i) = Base(frames, i)
           /\ \A i \in 1 .. m - 1 :
                /\ fs[i].k <= Len(Code(fs[i]))
                /\ Code(fs[i])[fs[i].k].op = "call"
                /\ Code(fs[i])[fs[i].k].to = fs[i + 1].fn
                /\ fs[i + 1].calledAt = Base(fs, i)
           /\ \A i, j \in 1 .. m : i < j => /\ fs[j].calledAt <= Base(fs, i)
                                            /\ fs[j].fn \in CallGraph(prog)[fs[i].fn]
           /\ \A i \in 1 .. m - 1 : Waiting(fs[i], Low(fs, i))
<1>1. \A i \in 1 .. m : fs[i].fn = frames[i].fn /\ fs[i].calledAt = frames[i].calledAt
  OBVIOUS
<1>2. \A i \in 1 .. m : Low(fs, i) = Low(frames, i) /\ Base(fs, i) = Base(frames, i)
  <2> TAKE i \in 1 .. m
  <2>1. i # 1 => fs[i - 1] = frames[i - 1]
    OBVIOUS
  <2>2. Low(fs, i) = Low(frames, i)
    BY <1>1, <2>1 DEF Low
  <2> QED
    BY <1>1, <2>2 DEF Base
<1>3. \A i \in 1 .. m - 1 : /\ i \in 1 .. m /\ i + 1 \in 1 .. m /\ i \in 1 .. Len(frames) - 1
                            /\ fs[i] = frames[i]
  OBVIOUS
<1>4. 1 \in 1 .. m /\ Len(frames) > 0 /\ \A i \in 1 .. m : i \in 1 .. Len(frames)
  OBVIOUS
<1>5. fs[1].calledAt = MemorySize /\ fs[1].fn = Entry
  BY <1>1, <1>4 DEF IInv, Nested
<1>6. ASSUME NEW i \in 1 .. m - 1
      PROVE  /\ fs[i].k <= Len(Code(fs[i]))
             /\ Code(fs[i])[fs[i].k].op = "call"
             /\ Code(fs[i])[fs[i].k].to = fs[i + 1].fn
             /\ fs[i + 1].calledAt = Base(fs, i)
  <2>1. /\ frames[i].k <= Len(Code(frames[i]))
        /\ Code(frames[i])[frames[i].k].op = "call"
        /\ Code(frames[i])[frames[i].k].to = frames[i + 1].fn
        /\ frames[i + 1].calledAt = Base(frames, i)
    BY <1>3 DEF IInv, Nested
  <2> QED
    BY <1>1, <1>2, <1>3, <2>1
<1>7. \A i, j \in 1 .. m : i < j => /\ fs[j].calledAt <= Base(fs, i)
                                    /\ fs[j].fn \in CallGraph(prog)[fs[i].fn]
  BY <1>1, <1>2, <1>4 DEF IInv, Ordered
<1>8. \A i \in 1 .. m - 1 : Waiting(fs[i], Low(fs, i))
  BY <1>2, <1>3 DEF IInv, SlotsOK
<1> QED
  BY <1>2, <1>5, <1>6, <1>7, <1>8

(* The program and what is known of it never change, so the invariant holds   *)
(* after a step that keeps what it says of the frames.                        *)
LEMMA SameProgram ==
    ASSUME IInv, prog' = prog, info' = info,
           FramesOK(frames'), Nested(frames'), Ordered(frames'), SlotsOK(frames'),
           sp' = IF frames' = << >> THEN MemorySize ELSE Base(frames', Len(frames'))
    PROVE  IInv'
<1>1. /\ FramesOK(frames)' /\ Nested(frames)' /\ Ordered(frames)' /\ SlotsOK(frames)'
  <2>1. FramesOK(frames)'
    BY DEF FramesOK, Frames, Code
  <2>2. Nested(frames)'
    BY DEF Nested, Base, Low, Passes, Code, Released
  <2>3. Ordered(frames)'
    BY DEF Ordered, Base, Low, Passes, Code, Released
  <2>4. SlotsOK(frames)'
    <3>1. ASSUME NEW i \in 1 .. Len(frames') - 1
          PROVE  Waiting(frames[i], Low(frames, i))'
      <4>1. Waiting(frames'[i], Low(frames', i))
        BY DEF SlotsOK
      <4>2. CASE Passes(frames'[i]) = 0
        BY <4>1, <4>2 DEF Waiting, Allocas, Used, Low, Passes, Code, Released
      <4>3. CASE Passes(frames'[i]) # 0
        BY <4>1, <4>3 DEF Waiting, Allocas, Used, Low, Passes, Code, Released
      <4> QED
        BY <4>2, <4>3
    <3>2. ASSUME Len(frames') > 0
          PROVE  Allocas(frames[Len(frames)], Low(frames, Len(frames)), Len(frames[Len(frames)].slots))'
      BY <3>2 DEF SlotsOK, Allocas, Used, Low, Passes, Code
    <3> QED
      BY <3>1, <3>2 DEF SlotsOK
  <2> QED
    BY <2>1, <2>2, <2>3, <2>4
<1>2. (sp = IF frames = << >> THEN MemorySize ELSE Base(frames, Len(frames)))'
  BY DEF Base, Low, Passes, Code, Released
<1>3. (prog \in Programs /\ info = FnInfo(prog))'
  BY DEF IInv
<1> QED
  BY <1>1, <1>2, <1>3 DEF IInv

-----------------------------------------------------------------------------
(* The steps.                                                                *)

(* A step that leaves the first m frames as they were, but for the position and *)
(* the allocas of the last of them, keeps the invariant.                      *)
LEMMA Continues ==
    ASSUME IInv, Static(prog), NEW m \in 1 .. Len(frames),
           frames' \in Seq(Frames), Len(frames') = m,
           \A i \in 1 .. m - 1 : frames'[i] = frames[i],
           frames'[m].fn = frames[m].fn, frames'[m].calledAt = frames[m].calledAt,
           frames'[m].block \in Label(prog[frames[m].fn]),
           frames'[m].k <= Len(Code(frames'[m])) + 1,
           Allocas(frames'[m], Low(frames, m), Len(frames'[m].slots)),
           sp' = Base(frames, m), prog' = prog, info' = info
    PROVE  IInv'
<1> DEFINE fs == frames'
<1> HIDE DEF fs
<1>1. /\ fs \in Seq(Frames) /\ Len(fs) = m /\ \A i \in 1 .. m - 1 : fs[i] = frames[i]
      /\ fs[m].fn = frames[m].fn /\ fs[m].calledAt = frames[m].calledAt
      /\ fs[m].block \in Label(prog[frames[m].fn]) /\ fs[m].k <= Len(Code(fs[m])) + 1
      /\ Allocas(fs[m], Low(frames, m), Len(fs[m].slots))
  BY DEF fs
<1>2. /\ fs[1].calledAt = MemorySize /\ fs[1].fn = Entry
      /\ \A i \in 1 .. m : Low(fs, i) = Low(frames, i) /\ Base(fs, i) = Base(frames, i)
      /\ \A i \in 1 .. m - 1 :
           /\ fs[i].k <= Len(Code(fs[i]))
           /\ Code(fs[i])[fs[i].k].op = "call"
           /\ Code(fs[i])[fs[i].k].to = fs[i + 1].fn
           /\ fs[i + 1].calledAt = Base(fs, i)
      /\ \A i, j \in 1 .. m : i < j => /\ fs[j].calledAt <= Base(fs, i)
                                       /\ fs[j].fn \in CallGraph(prog)[fs[i].fn]
      /\ \A i \in 1 .. m - 1 : Waiting(fs[i], Low(fs, i))
  BY <1>1, FirstFrames
<1>3. FramesOK(fs)
  <2>1. \A i \in 1 .. m - 1 : /\ fs[i].block \in Label(prog[fs[i].fn])
                              /\ fs[i].k <= Len(Code(fs[i])) + 1
    <3>1. \A i \in 1 .. m - 1 : i \in 1 .. Len(frames)
      OBVIOUS
    <3> QED
      BY <1>1, <3>1, BoundsFacts
  <2>2. \A i \in 1 .. m : i \in 1 .. m - 1 \/ i = m
    OBVIOUS
  <2> QED
    BY <1>1, <2>1, <2>2 DEF FramesOK
<1>4. Nested(fs)
  BY <1>1, <1>2 DEF Nested
<1>5. Ordered(fs)
  BY <1>1, <1>2 DEF Ordered
<1>6. SlotsOK(fs)
  BY <1>1, <1>2 DEF SlotsOK
<1>7. fs # << >> /\ m \in 1 .. m
  BY <1>1
<1>8. sp' = IF fs = << >> THEN MemorySize ELSE Base(fs, Len(fs))
  BY <1>1, <1>2, <1>7
<1> QED
  BY <1>3, <1>4, <1>5, <1>6, <1>8, SameProgram DEF fs

(* The function that runs: the stack pointer is at the end of its frame.      *)
LEMMA TopFacts ==
    ASSUME IInv, Static(prog), frames # << >>
    PROVE  /\ Len(frames) \in 1 .. Len(frames) /\ top = frames[Len(frames)]
           /\ sp = Base(frames, Len(frames))
           /\ Allocas(top, Low(frames, Len(frames)), Len(top.slots))
           /\ top \in Frames /\ top.block \in Label(prog[top.fn]) /\ top.k <= Len(code) + 1
           /\ code = Code(top) /\ frames \in Seq(Frames)
<1>1. frames \in Seq(Frames)
  BY DEF IInv, FramesOK
<1>2. Len(frames) \in 1 .. Len(frames) /\ Len(frames) > 0
  BY <1>1
<1>3. top = frames[Len(frames)] /\ code = Code(top)
  BY DEF top, Last, code, Code
<1> QED
  BY <1>1, <1>2, <1>3, BoundsFacts DEF IInv, SlotsOK

(* Alloca keeps the invariant: the new slot is below those the frame has and  *)
(* within what it reserved.                                                   *)
LEMMA DoAllocaKeeps ==
    ASSUME IInv, Static(prog), DoAlloca PROVE IInv'
<1> DEFINE n == Len(frames)
           fr == frames[n]
           addr == AllocaAddr(fr.fn, fr.block, fr.k)
           size == Code(fr)[fr.k].size
           slot == <<addr, addr + size - 1>>
           new == [fr EXCEPT !.slots = Append(@, slot), !.k = @ + 1]
           low == Low(frames, n)
           sums == Sums(Sizes(Code(fr)))
<1>1. /\ n \in 1 .. Len(frames) /\ top = fr /\ sp = Base(frames, n)
      /\ Allocas(fr, low, Len(fr.slots))
      /\ fr \in Frames /\ fr.block \in Label(prog[fr.fn]) /\ fr.k <= Len(Code(fr)) + 1
      /\ code = Code(fr) /\ frames \in Seq(Frames)
  BY TopFacts DEF DoAlloca
<1>2. /\ fr.k <= Len(Code(fr)) /\ Code(fr)[fr.k].op = "alloca"
      /\ frames' = [frames EXCEPT ![n] = new]
      /\ prog' = prog /\ info' = info /\ sp' = sp
  BY <1>1 DEF DoAlloca, SetTop, instr
<1>3. /\ prog \in Programs /\ info = FnInfo(prog)
      /\ fr.fn \in DOMAIN prog /\ fr.k \in Nat \ {0} /\ fr.slots \in Seq(Int \X Int)
      /\ Code(fr) \in Seq(Instruction(prog)) /\ Released(fr.fn) \in Nat
  BY <1>1, <1>2, FrameFacts DEF IInv
<1>4. low \in Int /\ sp \in Int /\ sp = low - Released(fr.fn)
  BY <1>1, BoundsFacts DEF Base
<1>5. /\ fr.block = First(prog[fr.fn])
      /\ addr = sp + Released(fr.fn) - sums[fr.k] + 1
      /\ sums[fr.k - 1] \in Nat /\ sums[fr.k] \in Nat /\ size \in Nat /\ size > 0
      /\ sums[fr.k] = sums[fr.k - 1] + size
  <2> DEFINE body == prog[fr.fn].body[fr.block]
  <2>0. Code(fr) = body
    BY DEF Code
  <2>1. fr.k \in 1 .. Len(body)
    <3>1. Len(Code(fr)) \in Nat
      BY <1>3
    <3> HIDE DEF fr, body
    <3>2. fr.k \in 1 .. Len(Code(fr))
      BY <1>2, <1>3, <3>1
    <3> QED
      BY <2>0, <3>2
  <2>2. body[fr.k].op = "alloca"
    BY <1>2, <2>0
  <2>3. prog \in Programs /\ info = FnInfo(prog) /\ fr.fn \in DOMAIN prog /\ fr.block \in Label(prog[fr.fn])
        /\ sp \in Int
    BY <1>1, <1>3, <1>4
  <2>4. addr = AllocaAddr(fr.fn, fr.block, fr.k) /\ size = body[fr.k].size /\ sums = Sums(Sizes(body))
    BY <2>0
  <2> HIDE DEF fr, addr, size, sums
  <2>5. /\ fr.block = First(prog[fr.fn])
        /\ AllocaAddr(fr.fn, fr.block, fr.k) = sp + Released(fr.fn) - Sums(Sizes(body))[fr.k] + 1
        /\ Sums(Sizes(body))[fr.k - 1] \in Nat /\ Sums(Sizes(body))[fr.k] \in Nat
        /\ body[fr.k].size \in Nat /\ body[fr.k].size > 0
        /\ Sums(Sizes(body))[fr.k] = Sums(Sizes(body))[fr.k - 1] + body[fr.k].size
    BY <2>1, <2>2, <2>3, AllocaFacts
  <2> QED
    BY <2>4, <2>5
<1> HIDE DEF fr, size, sums, addr, low
<1>6. /\ addr \in Int /\ slot \in Int \X Int
      /\ slot[1] = low - sums[fr.k] + 1 /\ slot[2] = low - sums[fr.k - 1]
      /\ slot[1] <= slot[2]
  <2> DEFINE before == sums[fr.k - 1]
             after == sums[fr.k]
             r == Released(fr.fn)
  <2>1. before \in Nat /\ after \in Nat /\ size \in Nat /\ size > 0 /\ r \in Nat
        /\ after = before + size /\ addr = sp + r - after + 1 /\ sp = low - r /\ low \in Int
    BY <1>3, <1>4, <1>5
  <2> HIDE DEF before, after, r
  <2>2. addr = low - after + 1 /\ addr + size - 1 = low - before /\ addr \in Int
    BY <2>1
  <2>3. slot[1] = addr /\ slot[2] = addr + size - 1
    OBVIOUS
  <2>4. slot \in Int \X Int
    BY <2>1, <2>2
  <2>5. slot[1] <= slot[2]
    BY <2>1, <2>2, <2>3
  <2> HIDE DEF slot
  <2> QED
    BY <2>2, <2>3, <2>4, <2>5 DEF before, after
<1> HIDE DEF slot
<1>7. /\ new \in Frames /\ new.fn = fr.fn /\ new.calledAt = fr.calledAt /\ new.block = fr.block
      /\ new.k = fr.k + 1 /\ new.slots = Append(fr.slots, slot)
  <2>1. Append(fr.slots, slot) \in Seq(Int \X Int) /\ fr.k + 1 \in Nat \ {0}
    BY <1>3, <1>6
  <2> QED
    BY <1>1, <2>1 DEF Frames
<1> HIDE DEF new
<1>8. /\ frames' \in Seq(Frames) /\ Len(frames') = n /\ frames'[n] = new
      /\ \A i \in 1 .. n - 1 : frames'[i] = frames[i]
  BY <1>1, <1>2, <1>7
<1>9. Code(new) = Code(fr) /\ Used(new) = sums[fr.k] /\ Used(fr) = sums[fr.k - 1]
  <2>1. new.fn = fr.fn /\ new.block = fr.block /\ new.k = fr.k + 1
    BY <1>7
  <2>2. Code(new) = Code(fr)
    BY <2>1 DEF Code
  <2>3. fr.k \in Nat \ {0} /\ (fr.k + 1) - 1 = fr.k
    BY <1>3
  <2>4. fr.block = First(prog[fr.fn])
    BY <1>5
  <2>5. sums = Sums(Sizes(Code(fr)))
    BY DEF sums
  <2> QED
    BY <2>1, <2>2, <2>3, <2>4, <2>5 DEF Used
<1>10. Allocas(new, low, Len(new.slots))
  <2> DEFINE q == Len(fr.slots)
  <2>1. q \in Nat /\ Len(new.slots) = q + 1 /\ new.slots[q + 1] = slot
        /\ \A t \in 1 .. q : new.slots[t] = fr.slots[t] /\ fr.slots[t][1] \in Int /\ fr.slots[t][2] \in Int
    <3>1. PICK old \in Seq(Int \X Int) : old = fr.slots
      BY <1>3
    <3>2. PICK l : l = slot
      OBVIOUS
    <3>3. /\ Len(old) \in Nat /\ Len(Append(old, l)) = Len(old) + 1 /\ Append(old, l)[Len(old) + 1] = l
          /\ \A t \in 1 .. Len(old) : Append(old, l)[t] = old[t] /\ old[t][1] \in Int /\ old[t][2] \in Int
      OBVIOUS
    <3>4. new.slots = Append(old, l)
      BY <1>7, <3>1, <3>2
    <3> QED
      BY <3>1, <3>2, <3>3, <3>4
  <2>2. \A t \in 1 .. q : /\ low - sums[fr.k - 1] < fr.slots[t][1]
                          /\ fr.slots[t][1] <= fr.slots[t][2] /\ fr.slots[t][2] <= low
    BY <1>1, <1>9 DEF Allocas
  <2>3. \A t, u \in 1 .. q : t < u => fr.slots[u][2] < fr.slots[t][1]
    BY <1>1 DEF Allocas
  <2> HIDE DEF q
  <2>4. \A t \in 1 .. q + 1 : t \in 1 .. q \/ t = q + 1
    BY <2>1
  <2>5. \A t \in 1 .. q + 1 : /\ low - sums[fr.k] < new.slots[t][1]
                              /\ new.slots[t][1] <= new.slots[t][2] /\ new.slots[t][2] <= low
    <3> TAKE t \in 1 .. q + 1
    <3>1. CASE t \in 1 .. q
      <4>1. /\ low - sums[fr.k - 1] < fr.slots[t][1] /\ fr.slots[t][1] <= fr.slots[t][2]
            /\ fr.slots[t][2] <= low /\ fr.slots[t][1] \in Int
        BY <2>1, <2>2, <3>1
      <4>2. low - sums[fr.k] <= low - sums[fr.k - 1]
        BY <1>4, <1>5
      <4>3. low - sums[fr.k] < fr.slots[t][1]
        BY <1>4, <1>5, <4>1, <4>2
      <4> QED
        BY <2>1, <3>1, <4>1, <4>3
    <3>2. CASE t = q + 1
      <4>1. low - sums[fr.k] < slot[1] /\ slot[2] <= low
        <5> DEFINE before == sums[fr.k - 1]
                   after == sums[fr.k]
        <5>1. /\ before \in Nat /\ after \in Nat /\ low \in Int
              /\ slot[1] = low - after + 1 /\ slot[2] = low - before
          BY <1>4, <1>5, <1>6
        <5> HIDE DEF before, after
        <5>2. low - after < slot[1] /\ slot[2] <= low
          BY <5>1
        <5> QED
          BY <5>2 DEF after
      <4> QED
        BY <1>6, <2>1, <3>2, <4>1
    <3> QED
      BY <2>4, <3>1, <3>2
  <2>6. \A t, u \in 1 .. q + 1 : t < u => new.slots[u][2] < new.slots[t][1]
    <3> SUFFICES ASSUME NEW t \in 1 .. q + 1, NEW u \in 1 .. q + 1, t < u
                 PROVE  new.slots[u][2] < new.slots[t][1]
      OBVIOUS
    <3>1. t \in 1 .. q
      BY <2>1
    <3>2. CASE u \in 1 .. q
      BY <2>1, <2>3, <3>1, <3>2
    <3>3. CASE u = q + 1
      BY <1>6, <2>1, <2>2, <3>1, <3>3
    <3> QED
      BY <2>4, <3>2, <3>3
  <2> QED
    BY <1>9, <2>1, <2>5, <2>6 DEF Allocas
<1>11. frames'[n].k <= Len(Code(frames'[n])) + 1
  <2>1. Len(Code(fr)) \in Nat /\ fr.k <= Len(Code(fr)) /\ fr.k \in Nat
    BY <1>2, <1>3
  <2> QED
    BY <1>7, <1>8, <1>9, <2>1
<1> QED
  BY <1>1, <1>2, <1>7, <1>8, <1>10, <1>11, Continues DEF fr, low

(* A branch keeps the invariant: it leads to a block that reserves nothing.   *)
LEMMA BranchKeeps ==
    ASSUME IInv, Static(prog), Branch PROVE IInv'
<1> DEFINE n == Len(frames)
           fr == frames[n]
           low == Low(frames, n)
<1>1. /\ n \in 1 .. Len(frames) /\ top = fr /\ sp = Base(frames, n)
      /\ Allocas(fr, low, Len(fr.slots))
      /\ fr \in Frames /\ fr.block \in Label(prog[fr.fn]) /\ fr.k <= Len(Code(fr)) + 1
      /\ code = Code(fr) /\ frames \in Seq(Frames)
  BY TopFacts DEF Branch
<1>2. PICK b \in prog[fr.fn].next[fr.block] :
        /\ sp' = sp - Reserved(fr.fn, b)
        /\ frames' = [frames EXCEPT ![n] = [fr EXCEPT !.block = b, !.k = 1]]
  BY <1>1 DEF Branch, SetTop
<1>3. prog' = prog /\ info' = info
  BY DEF Branch
<1>4. /\ prog \in Programs /\ info = FnInfo(prog)
      /\ fr.fn \in DOMAIN prog /\ fr.slots \in Seq(Int \X Int)
      /\ Used(fr) \in Nat /\ Used(fr) <= info[fr.fn].total /\ info[fr.fn].total \in Nat
  BY <1>1, FrameFacts DEF IInv
<1>5. low \in Int /\ sp \in Int
  BY <1>1, BoundsFacts
<1>6. b \in Label(prog[fr.fn]) /\ b # First(prog[fr.fn])
  <2>1. prog[fr.fn].next[fr.block] \subseteq Label(prog[fr.fn]) \ {First(prog[fr.fn])}
    <3>1. prog \in Programs /\ fr.fn \in DOMAIN prog /\ fr.block \in Label(prog[fr.fn])
      BY <1>1, <1>4
    <3> HIDE DEF fr
    <3> QED
      BY <3>1, ProgramFacts
  <2> QED
    BY <2>1
<1>7. Reserved(fr.fn, b) = 0
  BY <1>4, <1>6, InfoFacts
<1>8. sp' = Base(frames, n)
  BY <1>1, <1>2, <1>5, <1>7
<1> DEFINE new == [fr EXCEPT !.block = b, !.k = 1]
<1> HIDE DEF fr, low
<1>9. /\ new \in Frames /\ new.fn = fr.fn /\ new.calledAt = fr.calledAt /\ new.block = b
      /\ new.k = 1 /\ new.slots = fr.slots
  <2>1. b \in UNION {Label(prog[f]) : f \in DOMAIN prog}
    BY <1>4, <1>6
  <2>2. 1 \in Nat \ {0}
    OBVIOUS
  <2> QED
    BY <1>1, <2>1, <2>2 DEF Frames
<1>10. frames' = [frames EXCEPT ![n] = new]
  BY <1>2 DEF fr
<1> HIDE DEF new
<1>11. /\ frames' \in Seq(Frames) /\ Len(frames') = n /\ frames'[n] = new
       /\ \A i \in 1 .. n - 1 : frames'[i] = frames[i]
  BY <1>1, <1>9, <1>10
<1>12. Code(new) \in Seq(Instruction(prog))
  BY <1>4, <1>6, <1>9, ProgramFacts DEF Code
<1>13. new.k <= Len(Code(new)) + 1
  BY <1>9, <1>12
<1>14. Used(new) = info[fr.fn].total
  BY <1>6, <1>9 DEF Used
<1>15. Allocas(new, low, Len(new.slots))
  <2>1. \A t \in 1 .. Len(fr.slots) : fr.slots[t][1] \in Int
    BY <1>4
  <2>2. \A t \in 1 .. Len(fr.slots) : low - info[fr.fn].total < fr.slots[t][1]
    <3> TAKE t \in 1 .. Len(fr.slots)
    <3>1. low - Used(fr) < fr.slots[t][1]
      BY <1>1 DEF Allocas
    <3> DEFINE u == Used(fr)
               all == info[fr.fn].total
               at == fr.slots[t][1]
    <3>2. u \in Nat /\ all \in Nat /\ u <= all /\ at \in Int /\ low \in Int /\ low - u < at
      BY <1>4, <1>5, <2>1, <3>1
    <3> HIDE DEF u, all, at
    <3>3. low - all < at
      BY <3>2
    <3> QED
      BY <3>3 DEF all, at
  <2> QED
    BY <1>1, <1>9, <1>14, <2>2 DEF Allocas
<1> QED
  BY <1>1, <1>3, <1>6, <1>8, <1>9, <1>11, <1>13, <1>15, Continues DEF fr, low

(* The return from the entry point leaves the whole stack free.               *)
LEMMA LastRetKeeps ==
    ASSUME IInv, Static(prog), Ret, Len(frames) = 1 PROVE IInv'
<1>1. /\ top = frames[1] /\ sp = Base(frames, 1) /\ frames[1] \in Frames
      /\ frames[1].block \in Label(prog[frames[1].fn]) /\ frames[1].k <= Len(Code(frames[1])) + 1
  BY TopFacts DEF Ret
<1>2. frames' = << >> /\ sp' = sp + Released(top.fn) /\ prog' = prog /\ info' = info
  BY DEF Ret
<1>3. Released(top.fn) \in Nat /\ frames[1].calledAt \in Int /\ frames[1].calledAt = MemorySize
  BY <1>1, FrameFacts DEF IInv, Nested
<1>4. sp = MemorySize - Released(top.fn)
  BY <1>1, <1>3 DEF Base, Low
<1>5. sp' = MemorySize
  BY <1>2, <1>3, <1>4
<1>6. FramesOK(<< >>) /\ Nested(<< >>) /\ Ordered(<< >>) /\ SlotsOK(<< >>)
  BY DEF FramesOK, Nested, Ordered, SlotsOK
<1> QED
  BY <1>2, <1>5, <1>6, SameProgram

(* After a return the caller is at the next instruction, and the pointer is  *)
(* where it was before the call.                                             *)
LEMMA RetKeeps ==
    ASSUME IInv, Static(prog), Ret, Len(frames) # 1
    PROVE  /\ sp' = top.calledAt
           /\ IInv'
<1> DEFINE n == Len(frames)
           m == n - 1
           fr == frames[m]
           low == Low(frames, m)
           new == [fr EXCEPT !.k = @ + 1,
                             !.slots = IF Passes(fr) = 0 THEN @ ELSE Front(@)]
<1>1. /\ n \in 1 .. Len(frames) /\ top = frames[n] /\ sp = Base(frames, n)
      /\ top \in Frames /\ top.block \in Label(prog[top.fn]) /\ top.k <= Len(Code(top)) + 1
      /\ frames \in Seq(Frames) /\ prog \in Programs /\ info = FnInfo(prog)
  BY TopFacts DEF Ret, IInv
<1>2. m \in 1 .. Len(frames) /\ m \in 1 .. Len(frames) - 1 /\ m + 1 = n /\ n > 1
  <2>1. n \in Nat /\ n # 1 /\ n # 0
    BY <1>1
  <2> HIDE DEF n
  <2>2. m \in 1 .. n /\ m \in 1 .. n - 1 /\ m + 1 = n /\ n > 1
    BY <2>1
  <2> QED
    BY <2>2 DEF n
<1>3. /\ fr.k <= Len(Code(fr)) /\ Code(fr)[fr.k].op = "call"
      /\ top.calledAt = Base(frames, m)
      /\ Waiting(fr, low)
  BY <1>1, <1>2 DEF IInv, Nested, SlotsOK
<1>4. fr \in Frames /\ fr.block \in Label(prog[fr.fn]) /\ low \in Int /\ Base(frames, m) \in Int
      /\ fr.k <= Len(Code(fr)) + 1
      /\ Base(frames, n) \in Int /\ Low(frames, n) = top.calledAt - Passes(fr)
      /\ Base(frames, m) = low - Released(fr.fn)
  BY <1>1, <1>2, BoundsFacts DEF Base
<1>5. /\ fr.fn \in DOMAIN prog /\ fr.k \in Nat \ {0} /\ fr.slots \in Seq(Int \X Int)
      /\ Code(fr) \in Seq(Instruction(prog)) /\ Released(fr.fn) \in Nat /\ Passes(fr) \in Nat
  BY <1>1, <1>4, FrameFacts
<1>6. Released(top.fn) \in Nat /\ top.calledAt \in Int
  BY <1>1, FrameFacts
<1>7. Passes(fr) = Code(fr)[fr.k].varargs
  BY <1>3 DEF Passes
<1>8. Front(frames) \in Seq(Frames) /\ Len(Front(frames)) = m
      /\ \A i \in 1 .. m : Front(frames)[i] = frames[i]
  BY <1>1, <1>2 DEF Front
<1>9. Last(Front(frames)) = fr
  BY <1>2, <1>8 DEF Last
<1>10. Front(Front(frames)) \in Seq(Frames) /\ Len(Front(Front(frames))) = m - 1
       /\ \A i \in 1 .. m - 1 : Front(Front(frames))[i] = frames[i]
  <2> DEFINE F == Front(frames)
  <2>1. F \in Seq(Frames) /\ Len(F) = m /\ \A i \in 1 .. m : F[i] = frames[i]
    BY <1>8
  <2> HIDE DEF F
  <2>2. Front(F) \in Seq(Frames) /\ Len(Front(F)) = m - 1 /\ \A i \in 1 .. m - 1 : Front(F)[i] = F[i]
    BY <1>2, <2>1 DEF Front
  <2> QED
    BY <2>1, <2>2 DEF F
<1>11. /\ sp' = sp + Released(top.fn) + Passes(fr)
       /\ frames' = Append(Front(Front(frames)), new)
       /\ prog' = prog /\ info' = info
  BY <1>2, <1>7, <1>9 DEF Ret, Code
<1>12. sp' = top.calledAt
  <2>1. sp = Low(frames, n) - Released(top.fn)
    BY <1>1 DEF Base
  <2> DEFINE r == Released(top.fn)
             p == Passes(fr)
             l == Low(frames, n)
             at == top.calledAt
  <2>2. /\ r \in Nat /\ p \in Nat /\ at \in Int /\ l = at - p /\ sp = l - r /\ sp' = sp + r + p
    BY <1>4, <1>5, <1>6, <1>11, <2>1
  <2> HIDE DEF r, p, l, at
  <2>3. sp' = at
    BY <2>2
  <2> QED
    BY <2>3 DEF at
<1> HIDE DEF fr, low
<1>13. Passes(fr) # 0 => /\ Len(fr.slots) > 0
                         /\ Front(fr.slots) \in Seq(Int \X Int)
                         /\ Len(Front(fr.slots)) = Len(fr.slots) - 1
                         /\ \A t \in 1 .. Len(fr.slots) - 1 : Front(fr.slots)[t] = fr.slots[t]
  <2> SUFFICES ASSUME Passes(fr) # 0
               PROVE  /\ Len(fr.slots) > 0
                      /\ Front(fr.slots) \in Seq(Int \X Int)
                      /\ Len(Front(fr.slots)) = Len(fr.slots) - 1
                      /\ \A t \in 1 .. Len(fr.slots) - 1 : Front(fr.slots)[t] = fr.slots[t]
    OBVIOUS
  <2> DEFINE q == fr.slots
  <2>1. q \in Seq(Int \X Int) /\ Len(q) > 0
    BY <1>3, <1>5 DEF Waiting
  <2> HIDE DEF q
  <2>2. /\ Front(q) \in Seq(Int \X Int) /\ Len(Front(q)) = Len(q) - 1
        /\ \A t \in 1 .. Len(q) - 1 : Front(q)[t] = q[t]
    BY <2>1, FrontFacts
  <2> QED
    BY <2>1, <2>2 DEF q
<1>14. /\ new \in Frames /\ new.fn = fr.fn /\ new.calledAt = fr.calledAt /\ new.block = fr.block
       /\ new.k = fr.k + 1
       /\ new.slots = IF Passes(fr) = 0 THEN fr.slots ELSE Front(fr.slots)
  <2>1. fr.k + 1 \in Nat \ {0} /\ (IF Passes(fr) = 0 THEN fr.slots ELSE Front(fr.slots)) \in Seq(Int \X Int)
    BY <1>5, <1>13
  <2> QED
    BY <1>4, <2>1 DEF Frames
<1> HIDE DEF new
<1>15. /\ frames' \in Seq(Frames) /\ Len(frames') = m /\ frames'[m] = new
       /\ \A i \in 1 .. m - 1 : frames'[i] = frames[i]
  <2> DEFINE F == Front(Front(frames))
  <2>1. /\ F \in Seq(Frames) /\ Len(F) = m - 1 /\ \A i \in 1 .. m - 1 : F[i] = frames[i]
        /\ frames' = Append(F, new) /\ new \in Frames
    BY <1>10, <1>11, <1>14
  <2> HIDE DEF F
  <2>2. m \in Nat /\ (m - 1) + 1 = m
    BY <1>2
  <2> HIDE DEF m
  <2>3. /\ Append(F, new) \in Seq(Frames) /\ Len(Append(F, new)) = m /\ Append(F, new)[m] = new
        /\ \A i \in 1 .. m - 1 : Append(F, new)[i] = F[i]
    BY <2>1, <2>2
  <2> QED
    BY <2>1, <2>3
<1>16. Code(new) = Code(fr) /\ Used(new) = Used(fr)
  <2>1. Code(new) = Code(fr)
    BY <1>14 DEF Code
  <2>2. CASE fr.block = First(prog[fr.fn])
    <3> DEFINE s == Sizes(Code(fr))
    <3>1. fr.k \in 1 .. Len(Code(fr))
      BY <1>3, <1>5
    <3>2. s \in Seq(Nat) /\ Len(s) = Len(Code(fr)) /\ s[fr.k] = Code(fr)[fr.k].size
      <4> DEFINE body == prog[fr.fn].body[fr.block]
      <4>1. prog \in Programs /\ fr.fn \in DOMAIN prog /\ fr.block \in Label(prog[fr.fn])
        BY <1>1, <1>4, <1>5
      <4>2. Code(fr) = body /\ s = Sizes(body)
        BY DEF Code
      <4> HIDE DEF s, fr
      <4>3. /\ Sizes(body) \in Seq(Nat) /\ Len(Sizes(body)) = Len(body)
            /\ \A k \in 1 .. Len(Sizes(body)) : Sizes(body)[k] = body[k].size
        BY <4>1, SizesOfCode
      <4> HIDE DEF body
      <4> QED
        BY <3>1, <4>2, <4>3
    <3>3. Code(fr)[fr.k].size = 0
      <4> DEFINE i == prog[fr.fn].body[fr.block][fr.k]
      <4>1. i = Code(fr)[fr.k] /\ fr.k \in 1 .. Len(prog[fr.fn].body[fr.block])
        BY <3>1 DEF Code
      <4>2. i.op # "alloca" => i.size = 0
        BY <1>1, <1>4, <1>5, <4>1, SizeOfCall
      <4> QED
        BY <1>3, <4>1, <4>2
    <3> HIDE DEF s
    <3>4. Sums(s)[fr.k] = Sums(s)[fr.k - 1] + s[fr.k] /\ Sums(s)[fr.k - 1] \in Nat
      <4>1. fr.k \in 1 .. Len(s) /\ fr.k - 1 \in 0 .. Len(s)
        BY <1>5, <3>1, <3>2
      <4> QED
        BY <3>2, <4>1, SumsStep
    <3>5. Sums(s)[fr.k] = Sums(s)[fr.k - 1] /\ (fr.k + 1) - 1 = fr.k
      BY <1>5, <3>2, <3>3, <3>4
    <3> QED
      BY <1>14, <2>1, <2>2, <3>5 DEF Used, s
  <2>3. CASE fr.block # First(prog[fr.fn])
    <3>1. Used(fr) = info[fr.fn].total
      BY <2>3 DEF Used
    <3>2. Used(new) = info[fr.fn].total
      BY <1>14, <2>3 DEF Used
    <3> QED
      BY <2>1, <3>1, <3>2
  <2> QED
    BY <2>1, <2>2, <2>3
<1>17. Allocas(new, low, Len(new.slots))
  <2>1. CASE Passes(fr) = 0
    BY <1>3, <1>14, <1>16, <2>1 DEF Waiting, Allocas
  <2>2. CASE Passes(fr) # 0
    <3>1. Allocas(fr, low, Len(fr.slots) - 1)
      BY <1>3, <2>2 DEF Waiting
    <3>2. Len(new.slots) = Len(fr.slots) - 1
          /\ \A t \in 1 .. Len(fr.slots) - 1 : new.slots[t] = fr.slots[t]
      BY <1>13, <1>14, <2>2
    <3> QED
      <4> DEFINE q == Len(fr.slots) - 1
      <4>1. /\ Allocas(fr, low, q) /\ Len(new.slots) = q /\ \A t \in 1 .. q : new.slots[t] = fr.slots[t]
        BY <3>1, <3>2
      <4> HIDE DEF q
      <4>2. Allocas(new, low, q)
        BY <1>16, <4>1 DEF Allocas
      <4> QED
        BY <4>1, <4>2
  <2> QED
    BY <2>1, <2>2
<1>18. new.k <= Len(Code(new)) + 1
  BY <1>3, <1>5, <1>14, <1>16
<1>19. IInv'
  BY <1>2, <1>3, <1>4, <1>11, <1>12, <1>14, <1>15, <1>17, <1>18, Continues DEF fr, low
<1> QED
  BY <1>12, <1>19

(* A call keeps the invariant: the arguments lie below the caller's frame, and *)
(* the callee's frame below them.                                             *)
LEMMA DoCallKeeps ==
    ASSUME IInv, Static(prog), DoCall PROVE IInv'
<1> DEFINE n == Len(frames)
           fr == frames[n]
           low == Low(frames, n)
           i == Code(fr)[fr.k]
           below == sp - i.varargs
           slots == IF i.varargs = 0 THEN fr.slots
                    ELSE Append(fr.slots, <<below, below + i.varargs - 1>>)
           caller == [fr EXCEPT !.slots = slots]
           callee == Frame(i.to, sp)
           fs == frames'
<1>1. /\ n \in 1 .. Len(frames) /\ top = fr /\ sp = Base(frames, n)
      /\ Allocas(fr, low, Len(fr.slots))
      /\ fr \in Frames /\ fr.block \in Label(prog[fr.fn]) /\ fr.k <= Len(Code(fr)) + 1
      /\ code = Code(fr) /\ frames \in Seq(Frames) /\ prog \in Programs /\ info = FnInfo(prog)
  BY TopFacts DEF DoCall, IInv
<1>2. /\ fr.k <= Len(Code(fr)) /\ i.op = "call"
      /\ sp' = below - Reserved(i.to, First(prog[i.to]))
      /\ prog' = prog /\ info' = info
  BY <1>1 DEF DoCall, instr
<1>3. frames' = Append([frames EXCEPT ![n] = caller], callee)
  <2>1. frames' = Append([frames EXCEPT ![n].slots =
                             IF i.varargs = 0 THEN @
                             ELSE Append(@, <<below, below + i.varargs - 1>>)],
                         Frame(i.to, sp))
    BY <1>1 DEF DoCall, instr
  <2> QED
    BY <2>1
<1>4. /\ fr.fn \in DOMAIN prog /\ fr.k \in Nat \ {0} /\ fr.slots \in Seq(Int \X Int)
      /\ Code(fr) \in Seq(Instruction(prog)) /\ Released(fr.fn) \in Nat /\ Passes(fr) \in Nat
  BY <1>1, FrameFacts
<1>5. /\ low \in Int /\ sp \in Int /\ sp = low - Released(fr.fn) /\ sp <= fr.calledAt
      /\ fr.calledAt \in Int
  <2>1. low \in Int /\ sp \in Int /\ sp <= low /\ low <= fr.calledAt /\ fr.calledAt \in Int
    BY <1>1, BoundsFacts, FrameFacts
  <2> QED
    BY <1>1, <2>1 DEF Base
<1>6. /\ Passes(fr) = i.varargs /\ i.varargs \in Nat
      /\ i.to \in DOMAIN prog /\ i.to \in Callees(prog)[fr.fn]
  <2>1. Passes(fr) = i.varargs
    BY <1>2 DEF Passes
  <2>2. fr.k \in 1 .. Len(prog[fr.fn].body[fr.block])
    <3>1. fr.k \in 1 .. Len(Code(fr))
      BY <1>2, <1>4
    <3> QED
      BY <3>1 DEF Code
  <2>3. i.to \in DOMAIN prog /\ i.to \in Callees(prog)[fr.fn]
    BY <1>1, <1>2, <1>4, <2>2, CallGraphFacts DEF Code
  <2> QED
    BY <1>4, <2>1, <2>3
<1>7. /\ First(prog[i.to]) \in Label(prog[i.to])
      /\ Reserved(i.to, First(prog[i.to])) = Released(i.to) /\ Released(i.to) \in Nat
  BY <1>1, <1>6, ProgramFacts, InfoFacts
<1> HIDE DEF fr, low
<1>8. slots \in Seq(Int \X Int)
  <2>1. <<below, below + i.varargs - 1>> \in Int \X Int
    BY <1>5, <1>6
  <2> QED
    BY <1>4, <2>1
<1>9. /\ caller \in Frames /\ caller.fn = fr.fn /\ caller.calledAt = fr.calledAt
      /\ caller.block = fr.block /\ caller.k = fr.k /\ caller.slots = slots
  <2> HIDE DEF slots
  <2> QED
    BY <1>1, <1>8 DEF Frames
<1>10. /\ callee \in Frames /\ callee.fn = i.to /\ callee.calledAt = sp
       /\ callee.block = First(prog[i.to]) /\ callee.k = 1 /\ callee.slots = << >>
  <2> HIDE DEF i
  <2>1. First(prog[i.to]) \in UNION {Label(prog[f]) : f \in DOMAIN prog}
    BY <1>6, <1>7
  <2>2. << >> \in Seq(Int \X Int) /\ 1 \in Nat \ {0}
    OBVIOUS
  <2> QED
    BY <1>5, <1>6, <2>1, <2>2 DEF Frames, Frame
<1> HIDE DEF caller, callee
<1>11. Code(caller) = Code(fr) /\ Passes(caller) = i.varargs /\ Used(caller) = Used(fr)
  <2>1. Code(caller) = Code(fr)
    BY <1>9 DEF Code
  <2>2. Passes(caller) = Passes(fr)
    BY <1>9, <2>1 DEF Passes
  <2>3. Used(caller) = Used(fr)
    BY <1>9, <2>1 DEF Used
  <2> QED
    BY <1>6, <2>1, <2>2, <2>3
<1>12. /\ fs \in Seq(Frames) /\ Len(fs) = n + 1 /\ fs[n] = caller /\ fs[n + 1] = callee
       /\ \A j \in 1 .. n - 1 : fs[j] = frames[j]
  <2> DEFINE F == [frames EXCEPT ![n] = caller]
  <2>1. F \in Seq(Frames) /\ Len(F) = n /\ F[n] = caller /\ \A j \in 1 .. n - 1 : F[j] = frames[j]
    BY <1>1, <1>9
  <2>2. n \in Nat
    BY <1>1
  <2> HIDE DEF F
  <2>3. /\ Append(F, callee) \in Seq(Frames) /\ Len(Append(F, callee)) = Len(F) + 1
        /\ Append(F, callee)[Len(F) + 1] = callee
        /\ \A j \in 1 .. Len(F) : Append(F, callee)[j] = F[j]
    BY <1>10, <2>1
  <2>4. fs = Append(F, callee)
    BY <1>3 DEF F
  <2>5. n \in 1 .. Len(F) /\ \A j \in 1 .. n - 1 : j \in 1 .. Len(F)
    BY <1>1, <2>1, <2>2
  <2> HIDE DEF fs
  <2> QED
    BY <2>1, <2>3, <2>4, <2>5
<1> HIDE DEF fs, i
<1>13. /\ fs[1].calledAt = MemorySize /\ fs[1].fn = Entry
       /\ \A j \in 1 .. n : Low(fs, j) = Low(frames, j) /\ Base(fs, j) = Base(frames, j)
       /\ \A j \in 1 .. n - 1 :
            /\ fs[j].k <= Len(Code(fs[j]))
            /\ Code(fs[j])[fs[j].k].op = "call"
            /\ Code(fs[j])[fs[j].k].to = fs[j + 1].fn
            /\ fs[j + 1].calledAt = Base(fs, j)
       /\ \A j, k \in 1 .. n : j < k => /\ fs[k].calledAt <= Base(fs, j)
                                        /\ fs[k].fn \in CallGraph(prog)[fs[j].fn]
       /\ \A j \in 1 .. n - 1 : Waiting(fs[j], Low(fs, j))
  BY <1>1, <1>9, <1>12, FirstFrames DEF fr
<1>14. n \in Nat /\ n > 0 /\ \A j \in 1 .. n + 1 : j \in 1 .. n \/ j = n + 1
  BY <1>1
<1>15. \A j \in 1 .. n : j \in 1 .. n - 1 \/ j = n
  BY <1>14
<1>16. FramesOK(fs)
  <2>1. \A j \in 1 .. n - 1 : fs[j].block \in Label(prog[fs[j].fn]) /\ fs[j].k <= Len(Code(fs[j])) + 1
    <3>1. \A j \in 1 .. n - 1 : j \in 1 .. Len(frames)
      BY <1>14
    <3> QED
      BY <1>12, <3>1, BoundsFacts
  <2>2. fs[n].block \in Label(prog[fs[n].fn]) /\ fs[n].k <= Len(Code(fs[n])) + 1
    BY <1>1, <1>9, <1>11, <1>12
  <2>3. Code(callee) \in Seq(Instruction(prog))
    BY <1>1, <1>6, <1>7, <1>10, ProgramFacts DEF Code
  <2>4. fs[n + 1].block \in Label(prog[fs[n + 1].fn]) /\ fs[n + 1].k <= Len(Code(fs[n + 1])) + 1
    BY <1>7, <1>10, <1>12, <2>3
  <2> QED
    BY <1>12, <1>14, <1>15, <2>1, <2>2, <2>4 DEF FramesOK
<1>17. Base(fs, n) = sp
  BY <1>1, <1>13
<1>18. Nested(fs)
  <2>1. /\ fs[n].k <= Len(Code(fs[n]))
        /\ Code(fs[n])[fs[n].k].op = "call"
        /\ Code(fs[n])[fs[n].k].to = fs[n + 1].fn
        /\ fs[n + 1].calledAt = Base(fs, n)
    BY <1>2, <1>9, <1>10, <1>11, <1>12, <1>17 DEF i
  <2>2. Len(fs) - 1 = n
    BY <1>12, <1>14
  <2> QED
    BY <1>13, <1>15, <2>1, <2>2 DEF Nested
<1>19. Ordered(fs)
  <2> SUFFICES ASSUME NEW j \in 1 .. n + 1, NEW k \in 1 .. n + 1, j < k
               PROVE  fs[k].calledAt <= Base(fs, j) /\ fs[k].fn \in CallGraph(prog)[fs[j].fn]
    BY <1>12 DEF Ordered
  <2>1. j \in 1 .. n
    BY <1>14
  <2>2. CASE k \in 1 .. n
    BY <1>13, <2>1, <2>2
  <2>3. CASE k = n + 1
    <3>1. fs[k].calledAt = sp /\ fs[k].fn = i.to
      BY <1>10, <1>12, <2>3
    <3>2. CASE j = n
      <4>1. i.to \in CallGraph(prog)[fr.fn]
        BY <1>1, <1>4, <1>6, CallGraphFacts
      <4> QED
        BY <1>5, <1>9, <1>12, <1>17, <3>1, <3>2, <4>1
    <3>3. CASE j < n
      <4>1. n \in 1 .. n
        BY <1>14
      <4>2. fs[n].calledAt <= Base(fs, j) /\ fs[n].fn \in CallGraph(prog)[fs[j].fn]
        BY <1>13, <2>1, <3>3, <4>1
      <4>3. fr.calledAt <= Base(frames, j) /\ Base(frames, j) \in Int /\ Base(fs, j) = Base(frames, j)
        BY <1>1, <1>9, <1>12, <1>13, <2>1, <4>2, BoundsFacts
      <4>4. sp <= Base(fs, j)
        BY <1>5, <4>3
      <4>5. fs[j].fn \in DOMAIN prog
        <5>1. fs[j] \in Frames
          BY <1>12, <1>14, <2>1
        <5> QED
          BY <5>1 DEF Frames
      <4>6. i.to \in CallGraph(prog)[fs[j].fn]
        BY <1>1, <1>4, <1>6, <1>9, <1>12, <4>2, <4>5, CallGraphFacts
      <4> QED
        BY <3>1, <4>4, <4>6
    <3> QED
      BY <1>14, <2>1, <3>2, <3>3
  <2> QED
    BY <1>14, <2>2, <2>3
<1>20. SlotsOK(fs)
  <2>1. Waiting(caller, low)
    <3>1. CASE i.varargs = 0
      BY <1>1, <1>9, <1>11, <3>1 DEF Waiting, Allocas
    <3>2. CASE i.varargs # 0
      <4> DEFINE q == Len(fr.slots)
      <4>1. /\ q \in Nat /\ Len(slots) = q + 1 /\ slots[q + 1] = <<below, below + i.varargs - 1>>
            /\ \A t \in 1 .. q : slots[t] = fr.slots[t]
        BY <1>4, <3>2
      <4> HIDE DEF q, slots
      <4>2. Allocas(caller, low, q)
        <5>1. Allocas(fr, low, q)
          BY <1>1 DEF q
        <5> QED
          BY <1>9, <1>11, <4>1, <5>1 DEF Allocas
      <4>3. /\ below = low - Released(caller.fn) - Passes(caller)
            /\ below + i.varargs - 1 = low - Released(caller.fn) - 1
        <5> DEFINE r == Released(fr.fn)
                   v == i.varargs
        <5>1. r \in Nat /\ v \in Nat /\ low \in Int /\ sp = low - r
          BY <1>4, <1>5, <1>6
        <5>2. Released(caller.fn) = r /\ Passes(caller) = v
          BY <1>9, <1>11
        <5> HIDE DEF r
        <5> QED
          BY <5>1, <5>2
      <4>4. q + 1 > 0 /\ (q + 1) - 1 = q
        BY <4>1
      <4> QED
        BY <1>9, <1>11, <3>2, <4>1, <4>2, <4>3, <4>4 DEF Waiting
    <3> QED
      BY <3>1, <3>2
  <2>2. Allocas(callee, Low(fs, n + 1), Len(callee.slots))
    BY <1>10 DEF Allocas
  <2>3. Len(fs) - 1 = n /\ Low(fs, n) = low
    BY <1>12, <1>13, <1>14, <1>1 DEF low
  <2> QED
    BY <1>12, <1>13, <1>15, <2>1, <2>2, <2>3 DEF SlotsOK
<1>21. sp' = IF fs = << >> THEN MemorySize ELSE Base(fs, Len(fs))
  <2>1. (n + 1) - 1 = n /\ n + 1 # 1 /\ fs # << >>
    BY <1>12, <1>14
  <2>2. Base(fs, n + 1) = sp - Passes(caller) - Released(i.to)
    BY <1>10, <1>12, <2>1 DEF Base, Low
  <2>3. sp' = sp - i.varargs - Released(i.to)
    BY <1>2, <1>7
  <2> QED
    BY <1>11, <1>12, <2>1, <2>2, <2>3
<1> QED
  BY <1>2, <1>16, <1>18, <1>19, <1>20, <1>21, SameProgram DEF fs

(* The return from the entry point leaves the stack pointer where it began.   *)
LEMMA LastRet ==
    ASSUME IInv, Static(prog), Ret, Len(frames) = 1 PROVE sp' = top.calledAt
<1>1. /\ top = frames[1] /\ sp = Base(frames, 1) /\ frames[1] \in Frames
      /\ frames[1].block \in Label(prog[frames[1].fn]) /\ frames[1].k <= Len(Code(frames[1])) + 1
  BY TopFacts DEF Ret
<1>2. Released(top.fn) \in Nat /\ frames[1].calledAt \in Int
  BY <1>1, FrameFacts DEF IInv
<1>3. sp = frames[1].calledAt - Released(top.fn)
  BY <1>1, <1>2 DEF Base, Low
<1> QED
  BY <1>1, <1>2, <1>3 DEF Ret

(* The invariant holds when the entry point starts.                           *)
LEMMA InitInv ==
    ASSUME Init, Static(prog) PROVE IInv
<1> DEFINE callee == Frame(Entry, MemorySize)
           first == First(prog[Entry])
<1>1. /\ prog \in Programs /\ info = FnInfo(prog) /\ frames = <<callee>>
      /\ sp = MemorySize - Reserved(Entry, first)
  BY DEF Init
<1>2. Entry \in DOMAIN prog /\ MemorySize \in Nat
  BY <1>1, ProgramsAssumption, BoundsAssumption DEF WellFormed
<1>3. /\ first \in Label(prog[Entry])
      /\ Reserved(Entry, first) = Released(Entry) /\ Released(Entry) \in Nat
  BY <1>1, <1>2, ProgramFacts, InfoFacts
<1>4. /\ callee \in Frames /\ callee.fn = Entry /\ callee.calledAt = MemorySize
      /\ callee.block = first /\ callee.k = 1 /\ callee.slots = << >>
  <2>1. first \in UNION {Label(prog[f]) : f \in DOMAIN prog}
    BY <1>2, <1>3
  <2>2. << >> \in Seq(Int \X Int) /\ 1 \in Nat \ {0}
    OBVIOUS
  <2> QED
    BY <1>2, <2>1, <2>2 DEF Frames, Frame
<1>5. Code(callee) \in Seq(Instruction(prog))
  BY <1>1, <1>2, <1>3, <1>4, ProgramFacts DEF Code
<1> HIDE DEF callee, first
<1>6. Len(frames) = 1 /\ frames[1] = callee /\ frames \in Seq(Frames) /\ frames # << >>
  BY <1>1, <1>4
<1>7. FramesOK(frames)
  BY <1>2, <1>3, <1>4, <1>5, <1>6 DEF FramesOK
<1>8. Nested(frames)
  BY <1>4, <1>6 DEF Nested
<1>9. Ordered(frames)
  BY <1>6 DEF Ordered
<1>10. SlotsOK(frames)
  BY <1>4, <1>6 DEF SlotsOK, Allocas
<1>11. Base(frames, 1) = MemorySize - Released(Entry)
  BY <1>2, <1>4, <1>6 DEF Base, Low
<1> QED
  BY <1>1, <1>3, <1>6, <1>7, <1>8, <1>9, <1>10, <1>11 DEF IInv

(* Every step keeps the invariant.                                            *)
LEMMA StepInv ==
    ASSUME IInv, Static(prog), [Next]_vars PROVE IInv'
<1>1. CASE DoAlloca
  BY <1>1, DoAllocaKeeps
<1>2. CASE DoCall
  BY <1>2, DoCallKeeps
<1>3. CASE Branch
  BY <1>3, BranchKeeps
<1>4. CASE Ret
  BY <1>4, LastRetKeeps, RetKeeps
<1>5. CASE UNCHANGED vars
  <2>1. /\ FramesOK(frames') /\ Nested(frames') /\ Ordered(frames') /\ SlotsOK(frames')
        /\ sp' = IF frames' = << >> THEN MemorySize ELSE Base(frames', Len(frames'))
        /\ prog' = prog /\ info' = info
    BY <1>5 DEF IInv, vars
  <2> QED
    BY <2>1, SameProgram
<1> QED
  BY <1>1, <1>2, <1>3, <1>4, <1>5 DEF Next

(* From the invariant, a return leaves the stack pointer where the call found *)
(* it.                                                                        *)
LEMMA StepRestores ==
    ASSUME IInv, Static(prog), [Next]_vars
    PROVE  [Len(frames') < Len(frames) => sp' = top.calledAt]_vars
<1>0. frames \in Seq(Frames)
  BY DEF IInv, FramesOK
<1>1. CASE DoAlloca \/ Branch
  <2>1. \E new : frames' = [frames EXCEPT ![Len(frames)] = new]
    BY <1>1 DEF DoAlloca, Branch, SetTop
  <2>2. Len(frames') = Len(frames)
    BY <1>0, <2>1
  <2> QED
    BY <1>0, <2>2
<1>2. CASE DoCall
  <2>1. \E slots, callee : frames' = Append([frames EXCEPT ![Len(frames)] = slots], callee)
    BY <1>2 DEF DoCall
  <2>2. Len(frames') = Len(frames) + 1
    BY <1>0, <2>1
  <2> QED
    BY <1>0, <2>2
<1>3. CASE Ret
  BY <1>3, LastRet, RetKeeps
<1> QED
  BY <1>1, <1>2, <1>3 DEF Next

-----------------------------------------------------------------------------
(* What follows from the invariant.                                          *)

\* The s-th slot of a frame is an alloca, or the arguments of its call.
IsAlloca(fs, i, s) ==
    /\ Low(fs, i) - Used(fs[i]) < fs[i].slots[s][1]
    /\ fs[i].slots[s][1] <= fs[i].slots[s][2]
    /\ fs[i].slots[s][2] <= Low(fs, i)
IsPassed(fs, i, s) ==
    /\ i < Len(fs) /\ s = Len(fs[i].slots) /\ Passes(fs[i]) > 0
    /\ fs[i].slots[s] = <<Base(fs, i) - Passes(fs[i]), Base(fs, i) - 1>>

(* Each slot is an alloca or the arguments of the call under way, and the later *)
(* ones lie below, but for arguments and what the caller did not reserve.     *)
LEMMA SlotFacts ==
    ASSUME IInv, Static(prog), NEW i \in 1 .. Len(frames), NEW s \in 1 .. Len(frames[i].slots)
    PROVE  /\ frames[i].slots[s] \in Int \X Int
           /\ IsAlloca(frames, i, s) \/ IsPassed(frames, i, s)
           /\ \A t \in 1 .. Len(frames[i].slots) : s < t =>
                \/ frames[i].slots[t][2] < frames[i].slots[s][1]
                \/ IsAlloca(frames, i, s) /\ IsPassed(frames, i, t)
<1> DEFINE fr == frames[i]
           low == Low(frames, i)
           n == Len(fr.slots)
           p == Passes(fr)
<1>1. /\ prog \in Programs /\ info = FnInfo(prog) /\ frames \in Seq(Frames)
      /\ fr \in Frames /\ fr.block \in Label(prog[fr.fn]) /\ fr.k <= Len(Code(fr)) + 1
      /\ low \in Int /\ Base(frames, i) = low - Released(fr.fn)
  BY BoundsFacts DEF IInv, FramesOK, Base
<1>2. /\ fr.slots \in Seq(Int \X Int) /\ n \in Nat /\ p \in Nat /\ Released(fr.fn) \in Nat
  BY <1>1, FrameFacts
<1>3. \/ Allocas(fr, low, n)
      \/ /\ i < Len(frames) /\ p > 0 /\ n > 0 /\ Allocas(fr, low, n - 1)
         /\ fr.slots[n] = <<Base(frames, i) - p, Base(frames, i) - 1>>
  <2>1. CASE i = Len(frames)
    BY <2>1 DEF IInv, SlotsOK
  <2>2. CASE i # Len(frames)
    <3>1. i \in 1 .. Len(frames) - 1 /\ i < Len(frames)
      BY <1>1, <2>2
    <3>2. Waiting(fr, low)
      BY <3>1 DEF IInv, SlotsOK
    <3>3. p = 0 \/ p > 0
      BY <1>2
    <3> QED
      BY <1>1, <3>1, <3>2, <3>3 DEF Waiting
  <2> QED
    BY <2>1, <2>2
<1> HIDE DEF fr, low, n, p
<1>4. CASE Allocas(fr, low, n)
  BY <1>2, <1>4 DEF Allocas, IsAlloca, fr, low, n
<1>5. CASE /\ i < Len(frames) /\ p > 0 /\ n > 0 /\ Allocas(fr, low, n - 1)
           /\ fr.slots[n] = <<Base(frames, i) - p, Base(frames, i) - 1>>
  <2>1. IsPassed(frames, i, n)
    BY <1>5 DEF IsPassed, fr, n, p
  <2>2. \A t \in 1 .. n - 1 : IsAlloca(frames, i, t)
    BY <1>5 DEF Allocas, IsAlloca, fr, low
  <2>3. \A t, u \in 1 .. n - 1 : t < u => fr.slots[u][2] < fr.slots[t][1]
    BY <1>5 DEF Allocas
  <2>4. s \in 1 .. n /\ \A t \in 1 .. n : t \in 1 .. n - 1 \/ t = n
    BY <1>2 DEF n, fr
  <2>5. fr.slots[s] \in Int \X Int
    BY <1>2, <2>4 DEF n
  <2>6. \A t \in 1 .. n : s < t => fr.slots[t][2] < fr.slots[s][1] \/ (IsAlloca(frames, i, s) /\ IsPassed(frames, i, t))
    <3> SUFFICES ASSUME NEW t \in 1 .. n, s < t
                 PROVE  fr.slots[t][2] < fr.slots[s][1] \/ (IsAlloca(frames, i, s) /\ IsPassed(frames, i, t))
      OBVIOUS
    <3>1. s \in 1 .. n - 1
      BY <1>2, <2>4
    <3>2. CASE t = n
      BY <2>1, <2>2, <3>1, <3>2
    <3>3. CASE t \in 1 .. n - 1
      BY <2>3, <3>1, <3>3
    <3> QED
      BY <2>4, <3>2, <3>3
  <2> QED
    BY <2>1, <2>2, <2>4, <2>5, <2>6 DEF fr, n
<1> QED
  BY <1>3, <1>4, <1>5

(* The types of the numbers the bounds of a frame are computed from.          *)
LEMMA FrameNumbers ==
    ASSUME IInv, Static(prog), NEW i \in 1 .. Len(frames)
    PROVE  /\ Low(frames, i) \in Int /\ Base(frames, i) \in Int /\ frames[i].calledAt \in Int
           /\ Base(frames, i) <= Low(frames, i) /\ Low(frames, i) <= frames[i].calledAt
           /\ Used(frames[i]) \in Nat /\ info[frames[i].fn].total \in Nat
           /\ Used(frames[i]) <= info[frames[i].fn].total
           /\ Passes(frames[i]) \in Nat /\ frames[i].fn \in DOMAIN prog
           /\ Base(frames, i) = Low(frames, i) - IF info[frames[i].fn].skip THEN 0 ELSE info[frames[i].fn].total
<1>1. prog \in Programs /\ info = FnInfo(prog)
  BY DEF IInv
<1>2. /\ frames[i] \in Frames /\ frames[i].block \in Label(prog[frames[i].fn])
      /\ frames[i].k <= Len(Code(frames[i])) + 1
      /\ Low(frames, i) \in Int /\ Base(frames, i) \in Int
      /\ Base(frames, i) <= Low(frames, i) /\ Low(frames, i) <= frames[i].calledAt
  BY BoundsFacts
<1>3. /\ frames[i].calledAt \in Int /\ frames[i].fn \in DOMAIN prog /\ Used(frames[i]) \in Nat
      /\ info[frames[i].fn].total \in Nat /\ Used(frames[i]) <= info[frames[i].fn].total
      /\ Passes(frames[i]) \in Nat
  BY <1>1, <1>2, FrameFacts
<1>4. Released(frames[i].fn) = IF info[frames[i].fn].skip THEN 0 ELSE info[frames[i].fn].total
  BY <1>1, <1>3, InfoFacts
<1> QED
  BY <1>2, <1>3, <1>4 DEF Base

(* An instruction that passes arguments is a call under way: neither its      *)
(* function nor those that called it skip their reservation, and nothing that *)
(* was called since allocates.                                               *)
LEMMA PassedFacts ==
    ASSUME IInv, Static(prog), NEW i \in 1 .. Len(frames) - 1, Passes(frames[i]) > 0
    PROVE  /\ ~info[frames[i].fn].skip
           /\ \A h \in DOMAIN prog : frames[i].fn \in CallGraph(prog)[h] => ~info[h].skip
           /\ \A j \in i + 1 .. Len(frames) : info[frames[j].fn].total = 0
<1> DEFINE fr == frames[i]
           f == fr.fn
           g == frames[i + 1].fn
<1>1. i \in 1 .. Len(frames) /\ i + 1 \in 1 .. Len(frames) /\ Len(frames) \in Nat
  <2>1. frames \in Seq(Frames)
    BY DEF IInv, FramesOK
  <2> QED
    BY <2>1
<1>2. /\ prog \in Programs /\ info = FnInfo(prog)
      /\ fr.k <= Len(Code(fr)) /\ Code(fr)[fr.k].to = g
  BY DEF IInv, Nested
<1>3. fr \in Frames /\ fr.block \in Label(prog[f]) /\ fr.k <= Len(Code(fr)) + 1
  BY <1>1, BoundsFacts
<1>4. f \in DOMAIN prog /\ fr.k \in Nat \ {0} /\ Code(fr) \in Seq(Instruction(prog))
  BY <1>2, <1>3, FrameFacts
<1>5. fr.k \in 1 .. Len(Code(fr)) /\ Code(fr)[fr.k].varargs > 0
  BY <1>2, <1>4 DEF Passes
<1>6. /\ ~info[f].skip
      /\ \A h \in DOMAIN prog : f \in CallGraph(prog)[h] => ~info[h].skip
      /\ info[g].total = 0
      /\ \A h \in CallGraph(prog)[g] : info[h].total = 0
  <2> DEFINE b == fr.block
             k == fr.k
  <2>1. b \in Label(prog[f]) /\ k \in 1 .. Len(prog[f].body[b]) /\ prog[f].body[b][k].varargs > 0
        /\ prog[f].body[b][k].to = g
    BY <1>2, <1>3, <1>5 DEF Code
  <2> HIDE DEF b, k, f, g
  <2> QED
    BY <1>2, <1>4, <2>1, VariadicFacts
<1>7. ASSUME NEW j \in i + 1 .. Len(frames)
      PROVE  info[frames[j].fn].total = 0
  <2>1. CASE j = i + 1
    BY <1>6, <2>1
  <2>2. CASE j # i + 1
    <3>1. j \in 1 .. Len(frames) /\ i + 1 < j
      BY <1>1, <2>2
    <3>2. frames[j].fn \in CallGraph(prog)[g]
      BY <1>1, <3>1 DEF IInv, Ordered
    <3> QED
      BY <1>6, <3>2
  <2> QED
    BY <2>1, <2>2
<1> QED
  BY <1>6, <1>7

(* What a caller has in use lies above what the frames it called have.       *)
LEMMA Above ==
    ASSUME IInv, Static(prog), NEW i \in 1 .. Len(frames), NEW j \in 1 .. Len(frames), i < j,
           NEW s \in 1 .. Len(frames[i].slots), NEW t \in 1 .. Len(frames[j].slots)
    PROVE  frames[j].slots[t][2] < frames[i].slots[s][1]
<1> DEFINE P == frames[i].slots[s]
           Q == frames[j].slots[t]
           fi == frames[i].fn
           fj == frames[j].fn
<1>1. P \in Int \X Int /\ (IsAlloca(frames, i, s) \/ IsPassed(frames, i, s))
  BY SlotFacts
<1>2. Q \in Int \X Int /\ (IsAlloca(frames, j, t) \/ IsPassed(frames, j, t))
  BY SlotFacts
<1>3. frames[j].calledAt <= Base(frames, i) /\ fj \in CallGraph(prog)[fi]
  BY DEF IInv, Ordered
<1>4. /\ Low(frames, i) \in Int /\ Base(frames, i) \in Int
      /\ Base(frames, i) <= Low(frames, i)
      /\ Used(frames[i]) \in Nat /\ info[fi].total \in Nat /\ Used(frames[i]) <= info[fi].total
      /\ Passes(frames[i]) \in Nat /\ fi \in DOMAIN prog
      /\ Base(frames, i) = Low(frames, i) - IF info[fi].skip THEN 0 ELSE info[fi].total
  BY FrameNumbers
<1>5. /\ Low(frames, j) \in Int /\ Base(frames, j) \in Int /\ frames[j].calledAt \in Int
      /\ Base(frames, j) <= Low(frames, j) /\ Low(frames, j) <= frames[j].calledAt
      /\ Used(frames[j]) \in Nat /\ info[fj].total \in Nat /\ Used(frames[j]) <= info[fj].total
      /\ Passes(frames[j]) \in Nat /\ fj \in DOMAIN prog
  BY FrameNumbers
<1>6. prog \in Programs /\ info = FnInfo(prog)
  BY DEF IInv
<1> HIDE DEF P, Q
<1>7. Q[1] \in Int /\ Q[2] \in Int /\ P[1] \in Int /\ P[2] \in Int
  BY <1>1, <1>2
<1>8. Q[2] <= Low(frames, j)
  <2>1. CASE IsAlloca(frames, j, t)
    BY <2>1 DEF IsAlloca, Q
  <2>2. CASE IsPassed(frames, j, t)
    <3>1. Q[2] = Base(frames, j) - 1
      BY <2>2 DEF IsPassed, Q
    <3> QED
      BY <1>5, <3>1
  <2> QED
    BY <1>2, <2>1, <2>2
<1>9. ASSUME info[fj].total = 0 PROVE IsPassed(frames, j, t) /\ Q[2] < Low(frames, j)
  <2>1. ~IsAlloca(frames, j, t)
    <3> SUFFICES ASSUME IsAlloca(frames, j, t) PROVE FALSE
      OBVIOUS
    <3>1. Used(frames[j]) = 0
      BY <1>5, <1>9
    <3>2. Low(frames, j) - 0 < Q[1] /\ Q[1] <= Q[2]
      BY <3>1 DEF IsAlloca, Q
    <3> QED
      BY <1>5, <1>7, <1>8, <3>2
  <2>2. IsPassed(frames, j, t)
    BY <1>2, <2>1
  <2>3. Q[2] = Base(frames, j) - 1
    BY <2>2 DEF IsPassed, Q
  <2> QED
    BY <1>5, <2>2, <2>3
<1>10. CASE IsAlloca(frames, i, s)
  <2>1. Low(frames, i) - Used(frames[i]) < P[1] /\ P[1] <= P[2] /\ P[2] <= Low(frames, i)
    BY <1>10 DEF IsAlloca, P
  <2>2. CASE info[fi].skip
    <3>1. info[fj].total = 0
      BY <1>3, <1>4, <1>6, <2>2, SkipFacts
    <3>2. IsPassed(frames, j, t)
      BY <1>9, <3>1
    <3>3. j \in 1 .. Len(frames) - 1 /\ Passes(frames[j]) > 0
      BY <3>2 DEF IsPassed
    <3>4. ~info[fi].skip
      BY <1>3, <1>4, <3>3, PassedFacts
    <3> QED
      BY <2>2, <3>4
  <2>3. CASE ~info[fi].skip
    <3> DEFINE low == Low(frames, i)
               base == Base(frames, i)
               used == Used(frames[i])
               total == info[fi].total
               lowj == Low(frames, j)
               at == frames[j].calledAt
               p == P[1]
               q == Q[2]
    <3>1. /\ low \in Int /\ base \in Int /\ used \in Nat /\ total \in Nat /\ lowj \in Int /\ at \in Int
          /\ p \in Int /\ q \in Int
          /\ base = low - total /\ used <= total /\ low - used < p
          /\ q <= lowj /\ lowj <= at /\ at <= base
      BY <1>3, <1>4, <1>5, <1>7, <1>8, <2>1, <2>3
    <3> HIDE DEF low, base, used, total, lowj, at, p, q
    <3>2. q < p
      BY <3>1
    <3> QED
      BY <3>2 DEF p, q, P, Q
  <2> QED
    BY <2>2, <2>3
<1>11. CASE IsPassed(frames, i, s)
  <2>1. /\ i \in 1 .. Len(frames) - 1 /\ Passes(frames[i]) > 0 /\ P[1] = Base(frames, i) - Passes(frames[i])
        /\ i + 1 \in 1 .. Len(frames) /\ i + 1 <= j /\ j \in i + 1 .. Len(frames)
    BY <1>11 DEF IsPassed, P
  <2>2. info[fj].total = 0
    BY <2>1, PassedFacts
  <2>3. Q[2] < Low(frames, j)
    BY <1>9, <2>2
  <2>4. Low(frames, i + 1) = P[1]
    <3>1. frames[i + 1].calledAt = Base(frames, i)
      BY <2>1 DEF IInv, Nested
    <3>2. i + 1 > 1 /\ (i + 1) - 1 = i
      OBVIOUS
    <3>3. Low(frames, i + 1) = frames[i + 1].calledAt - Passes(frames[(i + 1) - 1])
      BY <2>1, <3>2, BoundsFacts
    <3> QED
      BY <2>1, <3>1, <3>2, <3>3
  <2>5. Low(frames, j) <= Low(frames, i + 1)
    <3>1. CASE j = i + 1
      BY <1>5, <3>1
    <3>2. CASE j # i + 1
      <4>1. i + 1 < j
        BY <2>1, <3>2
      <4>2. frames[j].calledAt <= Base(frames, i + 1)
        BY <2>1, <4>1 DEF IInv, Ordered
      <4>3. Base(frames, i + 1) <= Low(frames, i + 1) /\ Base(frames, i + 1) \in Int /\ Low(frames, i + 1) \in Int
        BY <2>1, FrameNumbers
      <4> QED
        BY <1>5, <4>2, <4>3
    <3> QED
      BY <3>1, <3>2
  <2> DEFINE lowj == Low(frames, j)
             p == P[1]
             q == Q[2]
  <2>6. lowj \in Int /\ p \in Int /\ q \in Int /\ q < lowj /\ lowj <= p
    BY <1>5, <1>7, <2>3, <2>4, <2>5
  <2> HIDE DEF lowj, p, q
  <2>7. q < p
    BY <2>6
  <2> QED
    BY <2>7 DEF p, q, P, Q
<1> QED
  BY <1>1, <1>10, <1>11

(* The invariant has no two slots that share a byte.                          *)
LEMMA InvDisjoint ==
    ASSUME IInv, Static(prog) PROVE LiveDisjoint
<1>1. frames \in Seq(Frames) /\ DOMAIN frames = 1 .. Len(frames) /\ Len(frames) \in Nat
  BY DEF IInv, FramesOK
<1>2. \A i \in 1 .. Len(frames) : frames[i].slots \in Seq(Int \X Int)
  <2> TAKE i \in 1 .. Len(frames)
  <2>1. frames[i] \in Frames
    BY <1>1
  <2> QED
    BY <2>1 DEF Frames
<1>3. ASSUME NEW i \in 1 .. Len(frames), NEW s \in 1 .. Len(frames[i].slots),
             NEW t \in 1 .. Len(frames[i].slots), s < t
      PROVE  frames[i].slots[t][2] < frames[i].slots[s][1]
  <2> SUFFICES ASSUME IsAlloca(frames, i, s), IsPassed(frames, i, t)
               PROVE  frames[i].slots[t][2] < frames[i].slots[s][1]
    BY <1>3, SlotFacts
  <2>1. i \in 1 .. Len(frames) - 1 /\ Passes(frames[i]) > 0 /\ frames[i].slots[t][2] = Base(frames, i) - 1
    BY <1>1 DEF IsPassed
  <2>2. ~info[frames[i].fn].skip
    BY <2>1, PassedFacts
  <2>3. /\ Base(frames, i) = Low(frames, i) - info[frames[i].fn].total
        /\ Base(frames, i) \in Int /\ Low(frames, i) \in Int
        /\ Used(frames[i]) \in Nat /\ info[frames[i].fn].total \in Nat
        /\ Used(frames[i]) <= info[frames[i].fn].total
    BY <2>2, FrameNumbers
  <2>4. frames[i].slots[s] \in Int \X Int
    BY SlotFacts
  <2>5. Low(frames, i) - Used(frames[i]) < frames[i].slots[s][1] /\ frames[i].slots[s][1] \in Int
    BY <2>4 DEF IsAlloca
  <2> QED
    <3> DEFINE low == Low(frames, i)
               base == Base(frames, i)
               used == Used(frames[i])
               total == info[frames[i].fn].total
               p == frames[i].slots[s][1]
               q == frames[i].slots[t][2]
    <3>1. /\ low \in Int /\ base \in Int /\ used \in Nat /\ total \in Nat /\ p \in Int
          /\ base = low - total /\ used <= total /\ low - used < p /\ q = base - 1
      BY <2>1, <2>3, <2>5
    <3> HIDE DEF low, base, used, total, p, q
    <3>2. q < p
      BY <3>1
    <3> QED
      BY <3>2 DEF p, q
<1>4. SUFFICES ASSUME NEW m \in 1 .. Len(frames), NEW n \in 1 .. Len(frames),
                      NEW s \in 1 .. Len(frames[m].slots), NEW t \in 1 .. Len(frames[n].slots)
               PROVE  \/ m = n /\ s = t
                      \/ frames[m].slots[s][2] < frames[n].slots[t][1]
                      \/ frames[n].slots[t][2] < frames[m].slots[s][1]
  <2>1. \A i \in 1 .. Len(frames) : DOMAIN frames[i].slots = 1 .. Len(frames[i].slots)
    BY <1>2
  <2> QED
    BY <1>1, <2>1 DEF LiveDisjoint
<1>5. CASE m < n
  BY <1>5, Above
<1>6. CASE n < m
  BY <1>6, Above
<1>7. CASE m = n
  <2>1. s < t \/ t < s \/ s = t
    OBVIOUS
  <2> QED
    BY <1>3, <1>7, <2>1
<1> QED
  BY <1>5, <1>6, <1>7

(* With room for size bytes per frame, each frame is within its share.       *)
LEMMA Deep ==
    ASSUME IInv, Static(prog), NEW size \in Nat, Room(prog, size)
    PROVE  \A i \in 1 .. Len(frames) :
              MemorySize - i * size <= Low(frames, i) - info[frames[i].fn].total
<1>1. prog \in Programs /\ info = FnInfo(prog) /\ MemorySize \in Nat /\ Len(frames) \in Nat
  <2>1. frames \in Seq(Frames)
    BY DEF IInv, FramesOK
  <2> QED
    BY <2>1, BoundsAssumption DEF IInv
<1>2. 1 <= Len(frames) => frames[1].calledAt = MemorySize /\ frames[1].fn = Entry
  BY <1>1 DEF IInv, Nested
<1>3. \A i \in 1 .. Len(frames) : /\ frames[i].fn \in DOMAIN prog
                                  /\ info[frames[i].fn].total = TotalAllocaSize(prog[frames[i].fn])
  BY <1>1, FrameNumbers, InfoFacts
<1>4. ASSUME NEW i \in 1 .. Len(frames) - 1
      PROVE  /\ i \in 1 .. Len(frames) /\ i + 1 \in 1 .. Len(frames)
             /\ frames[i + 1].calledAt = Base(frames, i)
             /\ Low(frames, i + 1) = Base(frames, i) - Passes(frames[i])
             /\ info[frames[i + 1].fn].total + Passes(frames[i]) <= size
  <2> DEFINE fr == frames[i]
             b == fr.block
             k == fr.k
             f == fr.fn
             c == prog[f].body[b][k]
  <2>1. i \in 1 .. Len(frames) /\ i + 1 \in 1 .. Len(frames) /\ i + 1 > 1 /\ (i + 1) - 1 = i
    BY <1>1
  <2>2. /\ fr.k <= Len(Code(fr)) /\ Code(fr)[fr.k].op = "call" /\ Code(fr)[fr.k].to = frames[i + 1].fn
        /\ frames[i + 1].calledAt = Base(frames, i)
    BY DEF IInv, Nested
  <2>3. Low(frames, i + 1) = frames[i + 1].calledAt - Passes(fr)
    BY <2>1, BoundsFacts
  <2>4. fr \in Frames /\ b \in Label(prog[f]) /\ k <= Len(Code(fr)) + 1
    BY <2>1, BoundsFacts
  <2>5. f \in DOMAIN prog /\ k \in Nat \ {0} /\ Code(fr) \in Seq(Instruction(prog))
    BY <1>1, <2>4, FrameFacts
  <2>6. k \in 1 .. Len(prog[f].body[b]) /\ c = Code(fr)[k]
    <3>1. Code(fr) = prog[f].body[b] /\ Len(Code(fr)) \in Nat
      BY <2>5 DEF Code
    <3>2. k \in Nat \ {0} /\ k <= Len(Code(fr))
      BY <2>2, <2>5
    <3> HIDE DEF k, fr, f, b
    <3>3. k \in 1 .. Len(Code(fr))
      BY <3>1, <3>2
    <3> QED
      BY <3>1, <3>3
  <2>7. Passes(fr) = c.varargs /\ c.op = "call" /\ c.to = frames[i + 1].fn
    BY <2>2, <2>6 DEF Passes
  <2> HIDE DEF fr, b, k, f
  <2>8. c \in Instrs(prog[f])
    BY <1>1, <2>4, <2>5, <2>6, ProgramFacts
  <2> HIDE DEF c
  <2>9. TotalAllocaSize(prog[c.to]) + c.varargs <= size
    BY <2>5, <2>7, <2>8 DEF Room
  <2> QED
    BY <1>3, <2>1, <2>2, <2>3, <2>7, <2>9 DEF fr
<1> DEFINE T == {n \in Nat : n + 1 <= Len(frames) =>
                    MemorySize - (n + 1) * size <= Low(frames, n + 1) - info[frames[n + 1].fn].total}
<1>5. 0 \in T
  <2> SUFFICES ASSUME 1 <= Len(frames)
               PROVE  MemorySize - size <= Low(frames, 1) - info[frames[1].fn].total
    OBVIOUS
  <2>1. 1 \in 1 .. Len(frames)
    BY <1>1
  <2>2. Low(frames, 1) = MemorySize
    BY <1>1, <1>2 DEF Low
  <2>3. info[frames[1].fn].total <= size /\ info[frames[1].fn].total \in Nat
    BY <1>3, <2>1, FrameNumbers DEF Room
  <2> QED
    BY <1>1, <2>2, <2>3
<1>6. ASSUME NEW n \in Nat, n \in T PROVE n + 1 \in T
  <2> DEFINE i == n + 1
  <2>0. i \in Nat
    OBVIOUS
  <2> SUFFICES ASSUME i + 1 <= Len(frames)
               PROVE  MemorySize - (i + 1) * size <= Low(frames, i + 1) - info[frames[i + 1].fn].total
    OBVIOUS
  <2>1. i \in 1 .. Len(frames) - 1
    BY <1>1
  <2>2. MemorySize - i * size <= Low(frames, i) - info[frames[i].fn].total
    BY <1>6, <2>1
  <2> HIDE DEF i
  <2>3. /\ Low(frames, i + 1) = Base(frames, i) - Passes(frames[i])
        /\ info[frames[i + 1].fn].total + Passes(frames[i]) <= size
        /\ i \in 1 .. Len(frames) /\ i + 1 \in 1 .. Len(frames)
    BY <1>4, <2>1
  <2>4. /\ Low(frames, i) \in Int /\ info[frames[i].fn].total \in Nat /\ Passes(frames[i]) \in Nat
        /\ Base(frames, i) = Low(frames, i) - IF info[frames[i].fn].skip THEN 0 ELSE info[frames[i].fn].total
        /\ info[frames[i + 1].fn].total \in Nat
    BY <2>3, FrameNumbers
  <2> DEFINE low == Low(frames, i)
             total == info[frames[i].fn].total
             base == Base(frames, i)
             next == info[frames[i + 1].fn].total
             p == Passes(frames[i])
             share == i * size
  <2>5. low \in Int /\ total \in Nat /\ p \in Nat /\ next \in Nat /\ base \in {low, low - total}
        /\ next + p <= size /\ MemorySize - share <= low - total /\ share \in Nat
    BY <2>0, <2>2, <2>3, <2>4
  <2>6. (i + 1) * size = share + size
    BY <2>0
  <2> HIDE DEF low, total, base, next, p, share
  <2>7. MemorySize - (share + size) <= (base - p) - next
    BY <1>1, <2>5
  <2> QED
    BY <2>3, <2>6, <2>7 DEF base, p, next
<1> HIDE DEF T
<1>7. \A n \in Nat : n \in T
  BY <1>5, <1>6, Induction
<1> TAKE i \in 1 .. Len(frames)
<1>8. i - 1 \in T /\ (i - 1) + 1 = i /\ i <= Len(frames)
  BY <1>7
<1> QED
  BY <1>8 DEF T

(* The invariant has everything within the memory when the frames are few and *)
(* small enough.                                                              *)
LEMMA InvTypeOK ==
    ASSUME IInv, Static(prog), Len(frames) <= MaxFrames, NEW size, Room(prog, size)
    PROVE  TypeOK
<1>1. /\ prog \in Programs /\ frames \in Seq(Frames) /\ DOMAIN frames = 1 .. Len(frames)
      /\ Len(frames) \in Nat /\ MemorySize \in Nat /\ MaxFrames \in Nat
      /\ size \in Nat /\ MaxFrames * size < MemorySize
  BY BoundsAssumption DEF IInv, FramesOK, Room
<1>2. ASSUME NEW i \in 1 .. Len(frames)
      PROVE  /\ 0 < Low(frames, i) - info[frames[i].fn].total
             /\ frames[i].calledAt <= MemorySize
  <2>1. MemorySize - i * size <= Low(frames, i) - info[frames[i].fn].total
    BY <1>1, Deep
  <2>2. i * size <= MaxFrames * size
    BY <1>1
  <2>3. Low(frames, i) \in Int /\ info[frames[i].fn].total \in Nat
    BY FrameNumbers
  <2>4. 0 < Low(frames, i) - info[frames[i].fn].total
    <3> DEFINE share == i * size
               all == MaxFrames * size
               end == Low(frames, i) - info[frames[i].fn].total
    <3>1. share \in Int /\ all \in Int /\ end \in Int /\ MemorySize - share <= end /\ share <= all
          /\ all < MemorySize
      BY <1>1, <2>1, <2>2, <2>3
    <3> HIDE DEF share, all, end
    <3>2. 0 < end
      BY <1>1, <3>1
    <3> QED
      BY <3>2 DEF end
  <2>5. frames[i].calledAt <= MemorySize
    <3>1. 1 \in 1 .. Len(frames)
      BY <1>1
    <3>2. frames[1].calledAt = MemorySize
      BY <1>1, <3>1 DEF IInv, Nested
    <3>3. CASE i = 1
      BY <1>1, <3>2, <3>3
    <3>4. CASE i # 1
      <4>1. frames[i].calledAt <= Base(frames, 1)
        BY <3>1, <3>4 DEF IInv, Ordered
      <4>2. Base(frames, 1) <= Low(frames, 1) /\ Low(frames, 1) <= MemorySize
            /\ Base(frames, 1) \in Int /\ Low(frames, 1) \in Int
        BY <3>1, <3>2, FrameNumbers
      <4>3. frames[i].calledAt \in Int
        BY FrameNumbers
      <4> QED
        BY <1>1, <4>1, <4>2, <4>3
    <3> QED
      BY <3>3, <3>4
  <2> QED
    BY <2>4, <2>5
<1>3. ASSUME NEW i \in 1 .. Len(frames)
      PROVE  /\ Low(frames, i) \in 1 .. MemorySize /\ Base(frames, i) \in 1 .. MemorySize
             /\ frames[i].calledAt \in 0 .. MemorySize
  <2> DEFINE low == Low(frames, i)
             base == Base(frames, i)
             total == info[frames[i].fn].total
             at == frames[i].calledAt
  <2>1. /\ low \in Int /\ base \in {low, low - total} /\ total \in Nat /\ at \in Int
        /\ low <= at /\ at <= MemorySize /\ 0 < low - total
    BY <1>2, FrameNumbers
  <2> HIDE DEF low, base, total, at
  <2>2. low \in 1 .. MemorySize /\ base \in 1 .. MemorySize /\ at \in 0 .. MemorySize
    BY <1>1, <2>1
  <2> QED
    BY <2>2 DEF low, base, at
<1>4. ASSUME NEW i \in 1 .. Len(frames), NEW s \in 1 .. Len(frames[i].slots)
      PROVE  frames[i].slots[s] \in Bytes \X Bytes
  <2> DEFINE slot == frames[i].slots[s]
             low == Low(frames, i)
             used == Used(frames[i])
             total == info[frames[i].fn].total
  <2>1. slot \in Int \X Int /\ (IsAlloca(frames, i, s) \/ IsPassed(frames, i, s))
    BY SlotFacts
  <2>2. low \in 1 .. MemorySize /\ used \in Nat /\ total \in Nat /\ used <= total /\ 0 < low - total
    BY <1>2, <1>3, FrameNumbers
  <2>3. CASE IsAlloca(frames, i, s)
    <3>1. low - used < slot[1] /\ slot[1] <= slot[2] /\ slot[2] <= low
      BY <2>3 DEF IsAlloca
    <3> HIDE DEF slot, low, used, total
    <3>2. slot[1] \in Int /\ slot[2] \in Int
      BY <2>1
    <3>3. slot[1] \in Bytes /\ slot[2] \in Bytes
      BY <1>1, <2>2, <3>1, <3>2 DEF Bytes
    <3>4. slot \in Bytes \X Bytes
      BY <2>1, <3>3
    <3> QED
      BY <3>4 DEF slot
  <2>4. CASE IsPassed(frames, i, s)
    <3> DEFINE base == Base(frames, i)
               p == Passes(frames[i])
    <3>1. i < Len(frames) /\ p > 0 /\ slot = <<base - p, base - 1>>
      BY <2>4 DEF IsPassed
    <3>2. i \in 1 .. Len(frames) - 1 /\ i + 1 \in 1 .. Len(frames) /\ i + 1 > 1 /\ (i + 1) - 1 = i
      BY <1>1, <3>1
    <3>3. frames[i + 1].calledAt = base /\ Low(frames, i + 1) = frames[i + 1].calledAt - p
      BY <3>2, BoundsFacts DEF IInv, Nested
    <3>4. base - p \in 1 .. MemorySize /\ base \in 1 .. MemorySize /\ p \in Nat
      BY <1>3, <3>2, <3>3, FrameNumbers
    <3> HIDE DEF slot, base, p
    <3>5. base - p \in Bytes /\ base - 1 \in Bytes
      BY <1>1, <3>1, <3>4 DEF Bytes
    <3>6. slot \in Bytes \X Bytes
      BY <3>1, <3>5
    <3> QED
      BY <3>6 DEF slot
  <2> QED
    BY <2>1, <2>3, <2>4
<1>5. ASSUME NEW i \in 1 .. Len(frames)
      PROVE  /\ frames[i].fn \in DOMAIN prog
             /\ frames[i].block \in Label(prog[frames[i].fn])
             /\ frames[i].k \in 1 .. Len(prog[frames[i].fn].body[frames[i].block]) + 1
             /\ frames[i].slots \in Seq(Bytes \X Bytes)
             /\ frames[i].calledAt \in 0 .. MemorySize
  <2>1. /\ frames[i] \in Frames /\ frames[i].block \in Label(prog[frames[i].fn])
        /\ frames[i].k <= Len(Code(frames[i])) + 1 /\ prog \in Programs /\ info = FnInfo(prog)
    BY BoundsFacts DEF IInv
  <2>2. /\ frames[i].fn \in DOMAIN prog /\ frames[i].k \in Nat \ {0}
        /\ Code(frames[i]) \in Seq(Instruction(prog)) /\ frames[i].slots \in Seq(Int \X Int)
    BY <2>1, FrameFacts
  <2>3. frames[i].k \in 1 .. Len(Code(frames[i])) + 1
    BY <2>1, <2>2
  <2>4. frames[i].slots \in Seq(Bytes \X Bytes)
    <3> DEFINE q == frames[i].slots
    <3>1. q \in Seq(Int \X Int) /\ \A s \in 1 .. Len(q) : q[s] \in Bytes \X Bytes
      BY <1>4, <2>2
    <3> HIDE DEF q
    <3>2. q \in Seq(Bytes \X Bytes)
      <4>1. q \in [1 .. Len(q) -> Bytes \X Bytes] /\ Len(q) \in Nat
        BY <3>1
      <4> QED
        BY <4>1
    <3> QED
      BY <3>2 DEF q
  <2> QED
    BY <1>3, <2>1, <2>2, <2>3, <2>4 DEF Code
<1>6. sp \in 0 .. MemorySize
  <2>1. CASE frames = << >>
    BY <1>1, <2>1 DEF IInv
  <2>2. CASE frames # << >>
    <3>1. Len(frames) \in 1 .. Len(frames)
      BY <1>1, <2>2
    <3>2. Base(frames, Len(frames)) \in 1 .. MemorySize
      BY <1>3, <3>1
    <3> QED
      BY <1>1, <2>2, <3>2 DEF IInv
  <2> QED
    BY <2>1, <2>2
<1> QED
  BY <1>1, <1>5, <1>6 DEF TypeOK

-----------------------------------------------------------------------------
(* The theorems.                                                             *)

(* The invariant holds of programs whose frames have known sizes.            *)
THEOREM Invariant ==
    ASSUME \A p \in Programs : Static(p) PROVE Spec => []IInv
<1>1. Init => IInv
  BY InitInv DEF Init
<1>2. IInv /\ [Next]_vars => IInv'
  BY StepInv DEF IInv
<1> QED
  BY <1>1, <1>2, PTL DEF Spec

(* Whatever the calls, no two allocations in use share a byte.               *)
THEOREM Disjoint ==
    ASSUME \A p \in Programs : Static(p) PROVE Spec => []LiveDisjoint
<1>1. IInv => LiveDisjoint
  BY InvDisjoint DEF IInv
<1> QED
  BY <1>1, Invariant, PTL

(* Every call leaves the stack pointer where it found it.                    *)
THEOREM Restores ==
    ASSUME \A p \in Programs : Static(p) PROVE Spec => SpRestored
<1>1. IInv /\ [Next]_vars => [Len(frames') < Len(frames) => sp' = top.calledAt]_vars
  BY StepRestores DEF IInv
<1> QED
  BY <1>1, Invariant, PTL DEF Spec, SpRestored

Shallow == Len(frames) <= MaxFrames

(* The bound of the model on the calls in progress is kept.                   *)
THEOREM BoundedCalls ==
    ASSUME \A p \in Programs : Static(p) PROVE Spec => []Shallow
<1>1. Init => Shallow
  BY BoundsAssumption DEF Init, Shallow
<1>2. IInv /\ Shallow /\ [Next]_vars => Shallow'
  <2> SUFFICES ASSUME IInv, Len(frames) <= MaxFrames, [Next]_vars
               PROVE  Len(frames') <= MaxFrames
    BY DEF Shallow
  <2>0. frames \in Seq(Frames) /\ MaxFrames \in Nat
    BY BoundsAssumption DEF IInv, FramesOK
  <2>1. CASE DoAlloca \/ Branch
    <3>1. \E new : frames' = [frames EXCEPT ![Len(frames)] = new]
      BY <2>1 DEF DoAlloca, Branch, SetTop
    <3> QED
      BY <2>0, <3>1
  <2>2. CASE DoCall
    <3>1. \E slots, callee : frames' = Append([frames EXCEPT ![Len(frames)] = slots], callee)
      BY <2>2 DEF DoCall
    <3>2. Len(frames') = Len(frames) + 1
      BY <2>0, <3>1
    <3> QED
      BY <2>0, <2>2, <3>2 DEF DoCall
  <2>3. CASE Ret
    <3>1. CASE Len(frames) = 1
      BY <2>0, <2>3, <3>1 DEF Ret
    <3>2. CASE Len(frames) # 1
      <4>1. Len(frames) \in Nat /\ Len(frames) > 1
        <5>1. frames # << >>
          BY <2>3 DEF Ret
        <5>2. Len(frames) \in Nat /\ Len(frames) # 0
          BY <2>0, <5>1
        <5>3. \A n \in Nat : n # 0 /\ n # 1 => n > 1
          OBVIOUS
        <5> QED
          BY <3>2, <5>2, <5>3
      <4>2. Front(Front(frames)) \in Seq(Frames) /\ Len(Front(Front(frames))) = Len(frames) - 2
        <5>1. Front(frames) \in Seq(Frames) /\ Len(Front(frames)) = Len(frames) - 1
          BY <2>0, <4>1, FrontFacts
        <5> QED
          BY <4>1, <5>1, FrontFacts
      <4>3. \E new : frames' = Append(Front(Front(frames)), new)
        BY <2>3, <3>2 DEF Ret
      <4>4. Len(frames') = (Len(frames) - 2) + 1
        BY <4>2, <4>3
      <4> QED
        BY <2>0, <4>1, <4>4
    <3> QED
      BY <3>1, <3>2
  <2>4. CASE UNCHANGED vars
    BY <2>4 DEF vars
  <2> QED
    BY <2>1, <2>2, <2>3, <2>4 DEF Next
<1>3. Spec => []IInv
  BY Invariant
<1> QED
  BY <1>1, <1>2, <1>3, PTL DEF Spec

(* With room for the frames, everything allocated is within the memory.      *)
THEOREM TypeCorrect ==
    ASSUME \A p \in Programs : Static(p) /\ \E size : Room(p, size)
    PROVE  Spec => []TypeOK
<1>1. IInv /\ Shallow => TypeOK
  <2> SUFFICES ASSUME IInv, Len(frames) <= MaxFrames PROVE TypeOK
    BY DEF Shallow
  <2>1. Static(prog) /\ \E size : Room(prog, size)
    BY DEF IInv
  <2> QED
    BY <2>1, InvTypeOK
<1>2. \A p \in Programs : Static(p)
  OBVIOUS
<1> QED
  BY <1>1, <1>2, Invariant, BoundedCalls, PTL
=============================================================================
