---------------------------- MODULE CycleChecks ----------------------------
(* Where the checks of StackReset go.  get_fn_info analyses the blocks of    *)
(* each function with select_cycle_checks, which chooses the blocks to       *)
(* check, and find_nodes_with_cycle, which finds the blocks that can run     *)
(* more than once (both in src/src/compiler/graph_util.rs).  Blocks are      *)
(* numbered in the order of their labels, the order the code sorts them in.  *)
(*                                                                          *)
(* The simple cycles are enumerated by a recursive function.  The greedy     *)
(* cover, the exhaustive search for a smaller one and Tarjan's algorithm     *)
(* take a step per iteration.                                                *)
EXTENDS Integers, Sequences, FiniteSets, SequencesExt, FiniteSetsExt, Reachability, Sorting

CONSTANTS
    Graphs,      \* the control-flow graphs considered: block -> successors
    ExactLimit   \* the most nodes an exact cover is searched for; 15 in the code

VARIABLES
    graph,
    pc,
    selfLoops,   \* blocks that branch to themselves
    remaining,   \* the other cycles to cover
    nodeList,    \* all_nodes_list: the blocks on those cycles, in order
    uncovered, greedyNodes,   \* the greedy cover
    indices,                  \* the combination the exact search is trying
    result,                   \* what select_cycle_checks returns
    calls,       \* strongconnect's recursion: <<node, neighbors to do>>
    stack, indexOf, lowlinks, \* Tarjan's stack and numbers; -1 is absent
    repeating    \* what find_nodes_with_cycle returns

coverVars  == <<selfLoops, remaining, nodeList, uncovered, greedyNodes, indices>>
tarjanVars == <<calls, stack, indexOf, lowlinks, repeating>>
vars       == <<graph, pc, result, coverVars, tarjanVars>>

Node == DOMAIN graph

ASSUME LimitAssumption == ExactLimit \in Nat

ASSUME GraphsAssumption ==
    \A g \in Graphs : /\ DOMAIN g \subseteq Nat /\ IsFiniteSet(DOMAIN g)
                      /\ g \in [DOMAIN g -> SUBSET DOMAIN g]

Init == /\ graph \in Graphs
        /\ pc = "select"
        /\ selfLoops = {} /\ remaining = {} /\ nodeList = << >>
        /\ uncovered = {} /\ greedyNodes = {} /\ indices = << >> /\ result = {}
        /\ calls = << >> /\ stack = << >> /\ repeating = {}
        /\ indexOf = [n \in Node |-> -1] /\ lowlinks = [n \in Node |-> -1]

-----------------------------------------------------------------------------
(* select_cycle_checks.                                                      *)

\* find_all_simple_cycles, depth first: the paths that visit no node twice, by
\* length, and those of them that an edge leads back from.  A cycle is found
\* once from each of its nodes.
Extended(g, path) == {Append(path, next) : next \in g[Last(path)] \ Range(path)}
SimplePaths(g) ==
    LET paths[k \in 1 .. Cardinality(DOMAIN g)] ==
            IF k = 1 THEN {<<n>> : n \in DOMAIN g}
            ELSE UNION {Extended(g, path) : path \in paths[k - 1]}
    IN  paths

SimpleCycles(g) ==
    LET paths == SimplePaths(g)
    IN  UNION {{path \in paths[k] : path[1] \in g[Last(path)]} : k \in DOMAIN paths}

\* Faulty: loops of two blocks are lost with the self loops.
SplitDropsShort ==
    LET cycles == SimpleCycles(graph)
    IN  /\ pc = "select" /\ cycles # {}
        /\ selfLoops' = {c[1] : c \in {d \in cycles : Len(d) = 1}}
        /\ remaining' = {c \in cycles : Len(c) > 2 /\ Range(c) \cap selfLoops' = {}}
        /\ nodeList' = Sorted(UNION {Range(c) : c \in remaining'})
        /\ uncovered' = remaining'
        /\ pc' = IF remaining' = {} THEN "chosen" ELSE "greedy"
        /\ UNCHANGED <<graph, greedyNodes, indices, result, tarjanVars>>

\* A block that branches to itself must be checked, which settles every other
\* cycle through it.
Split ==
    LET cycles == SimpleCycles(graph)
    IN  /\ pc = "select" /\ cycles # {}
        /\ selfLoops' = {c[1] : c \in {d \in cycles : Len(d) = 1}}
        /\ remaining' = {c \in cycles : Len(c) > 1 /\ Range(c) \cap selfLoops' = {}}
        /\ nodeList' = Sorted(UNION {Range(c) : c \in remaining'})
        /\ uncovered' = remaining'
        /\ pc' = IF remaining' = {} THEN "chosen" ELSE "greedy"
        /\ UNCHANGED <<graph, greedyNodes, indices, result, tarjanVars>>

\* No cycle: the components decide, in case the enumeration missed one.
NoCycles == /\ pc = "select" /\ SimpleCycles(graph) = {}
            /\ pc' = "fallback"
            /\ UNCHANGED <<graph, result, coverVars, tarjanVars>>

Count(n) == Cardinality({c \in uncovered : n \in Range(c)})

\* The first of the nodes that lie on the most uncovered cycles.
Best == CHOOSE n \in Range(nodeList) :
            \A m \in Range(nodeList) : \/ Count(m) < Count(n)
                                       \/ Count(m) = Count(n) /\ n <= m

\* Faulty: covered cycles stay in the list.
GreedyKeepsCovered ==
    /\ pc = "greedy" /\ uncovered # {}
    /\ greedyNodes' = greedyNodes \cup {Best}
    /\ UNCHANGED <<graph, pc, selfLoops, remaining, nodeList, uncovered, indices, result,
                   tarjanVars>>

Greedy == /\ pc = "greedy" /\ uncovered # {}
          /\ greedyNodes' = greedyNodes \cup {Best}
          /\ uncovered' = {c \in uncovered : Best \notin Range(c)}
          /\ UNCHANGED <<graph, pc, selfLoops, remaining, nodeList, indices, result, tarjanVars>>

\* Faulty: the search starts from pairs.
GreedyDonePairs ==
    /\ pc = "greedy" /\ uncovered = {}
    /\ IF Len(nodeList) <= ExactLimit
       THEN pc' = "exact" /\ indices' = <<1, 2>>
       ELSE pc' = "chosen" /\ UNCHANGED indices
    /\ UNCHANGED <<graph, selfLoops, remaining, nodeList, uncovered, greedyNodes,
                   result, tarjanVars>>

\* Covered.  With few enough nodes, look for the smallest cover instead.
GreedyDone == /\ pc = "greedy" /\ uncovered = {}
              /\ IF Len(nodeList) <= ExactLimit
                 THEN pc' = "exact" /\ indices' = <<1>>
                 ELSE pc' = "chosen" /\ UNCHANGED indices
              /\ UNCHANGED <<graph, selfLoops, remaining, nodeList, uncovered, greedyNodes,
                             result, tarjanVars>>

\* Faulty: an index taken for a node.
CandidateIndices == Range(indices)

Candidate == {nodeList[i] : i \in Range(indices)}
Hits      == \A c \in remaining : Range(c) \cap Candidate # {}

\* next_combination (from 1): advance the last index that can still grow and
\* restart those after it; << >> when there is none.
NextCombination(s, n) ==
    LET k == Len(s)
        movable == {i \in 1 .. k : s[i] < n - k + i}
        i == Max(movable)
    IN  IF movable = {} THEN << >>
        ELSE [j \in 1 .. k |-> IF j < i THEN s[j] ELSE s[i] + 1 + (j - i)]

\* min_hitting_set_exact: combinations by size, then in order.
ExactMiss == /\ pc = "exact" /\ ~Hits
             /\ LET next == NextCombination(indices, Len(nodeList))
                IN  indices' = IF next # << >> THEN next
                               ELSE [i \in 1 .. Len(indices) + 1 |-> i]
             /\ UNCHANGED <<graph, pc, selfLoops, remaining, nodeList, uncovered, greedyNodes,
                            result, tarjanVars>>

ExactHit == /\ pc = "exact" /\ Hits
            /\ greedyNodes' = Candidate
            /\ pc' = "chosen"
            /\ UNCHANGED <<graph, selfLoops, remaining, nodeList, uncovered, indices,
                           result, tarjanVars>>

Choose == /\ pc = "chosen"
          /\ result' = selfLoops \cup greedyNodes
          /\ pc' = "repeating"
          /\ UNCHANGED <<graph, coverVars, tarjanVars>>

-----------------------------------------------------------------------------
(* find_nodes_with_cycle.                                                    *)

InTarjan == pc \in {"fallback", "repeating"}
Todo     == {n \in Node : indexOf[n] = -1}
top      == Last(calls)

\* strongconnect(n) begins: number the node and push it.
Opened(n) ==
    LET index == Cardinality(Node \ Todo)
    IN  /\ indexOf' = [indexOf EXCEPT ![n] = index]
        /\ lowlinks' = [lowlinks EXCEPT ![n] = index]
        /\ stack' = Append(stack, n)

\* The outer loop takes the first node that has no number.
Root == /\ InTarjan /\ calls = << >> /\ Todo # {}
        /\ LET n == Min(Todo)
           IN  Opened(n) /\ calls' = <<<<n, graph[n]>>>>
        /\ UNCHANGED <<graph, pc, result, coverVars, repeating>>

\* The next neighbor is new: recurse.
Descend == /\ InTarjan /\ calls # << >> /\ top[2] # {}
           /\ LET n == Min(top[2])
              IN  /\ n \in Todo
                  /\ Opened(n)
                  /\ calls' = Append([calls EXCEPT ![Len(calls)][2] = @ \ {n}], <<n, graph[n]>>)
           /\ UNCHANGED <<graph, pc, result, coverVars, repeating>>

\* Faulty: finished components count as if they were on the stack.
LookEverywhere ==
    /\ InTarjan /\ calls # << >> /\ top[2] # {}
    /\ LET n == Min(top[2])
       IN  /\ n \notin Todo
           /\ calls' = [calls EXCEPT ![Len(calls)][2] = @ \ {n}]
           /\ lowlinks' = [lowlinks EXCEPT ![top[1]] = Min({@, indexOf[n]})]
    /\ UNCHANGED <<graph, pc, result, coverVars, stack, indexOf, repeating>>

\* The next neighbor is on the stack, or belongs to a finished component.
Look == /\ InTarjan /\ calls # << >> /\ top[2] # {}
        /\ LET n == Min(top[2])
           IN  /\ n \notin Todo
               /\ calls' = [calls EXCEPT ![Len(calls)][2] = @ \ {n}]
               /\ lowlinks' = IF Contains(stack, n)
                              THEN [lowlinks EXCEPT ![top[1]] = Min({@, indexOf[n]})]
                              ELSE lowlinks
        /\ UNCHANGED <<graph, pc, result, coverVars, stack, indexOf, repeating>>

\* No neighbor left: a root pops its component, and the caller takes over the
\* node's low link.
Close ==
    /\ InTarjan /\ calls # << >> /\ top[2] = {}
    /\ LET n == top[1]
           at == CHOOSE i \in DOMAIN stack : stack[i] = n
           scc == {stack[i] : i \in at .. Len(stack)}
       IN  IF lowlinks[n] = indexOf[n]
           THEN /\ stack' = SubSeq(stack, 1, at - 1)
                /\ repeating' = IF Cardinality(scc) > 1 THEN repeating \cup scc ELSE repeating
           ELSE UNCHANGED <<stack, repeating>>
    /\ calls' = Front(calls)
    /\ lowlinks' = IF Len(calls) = 1 THEN lowlinks
                   ELSE [lowlinks EXCEPT ![Last(Front(calls))[1]] = Min({@, lowlinks[top[1]]})]
    /\ UNCHANGED <<graph, pc, result, coverVars, indexOf>>

\* Every node is numbered; nodes with an edge to themselves count as well.
Finish == /\ InTarjan /\ calls = << >> /\ Todo = {}
          /\ repeating' = repeating \cup {n \in Node : n \in graph[n]}
          /\ result' = IF pc = "fallback" THEN repeating' ELSE result
          /\ pc' = "done"
          /\ UNCHANGED <<graph, coverVars, calls, stack, indexOf, lowlinks>>

Next == \/ Split \/ NoCycles \/ Greedy \/ GreedyDone \/ ExactMiss \/ ExactHit \/ Choose
        \/ Root \/ Descend \/ Look \/ Close \/ Finish
Spec == Init /\ [][Next]_vars /\ WF_vars(Next)

-----------------------------------------------------------------------------
(* Correctness.                                                              *)

\* Nodes reachable from a node by one or more edges that avoid some nodes.
Reach(n, avoid) == Reached([m \in Node |-> graph[m] \ avoid], n)

\* No loop of a function runs without a check: the assumption StackReset
\* makes of its program.
BreaksEveryCycle == pc = "done" => \A n \in Node \ result : n \notin Reach(n, result)

\* A check costs a test at every entry of its block: none is put on a block
\* outside every loop.
ChecksOnlyLoops == pc = "done" => \A n \in result : n \in Reach(n, {})

\* Up to the limit, no smaller set of blocks would have done.
ExactIsMinimum ==
    pc = "done" /\ Len(nodeList) <= ExactLimit =>
        \A S \in SUBSET Node :
            Cardinality(S) < Cardinality(result) => \E n \in Node \ S : n \in Reach(n, S)

\* Tarjan's components agree with reachability: a block is said to run at
\* most once exactly when no loop goes through it.  The stack space of a
\* function is reserved on entry only for such blocks.
RepeatingIsExact == pc = "done" => repeating = {n \in Node : n \in Reach(n, {})}

\* The search never runs out of combinations, nor Tarjan's out of nodes.
Terminates == <>(pc = "done")
=============================================================================
