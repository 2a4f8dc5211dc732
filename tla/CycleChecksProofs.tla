------------------------- MODULE CycleChecksProofs --------------------------
(* CycleChecks proved for every finite graph and every limit:                 *)
(*   Exact             the blocks said to repeat are those on a loop;         *)
(*   EveryCycleBroken  every loop has a checked block;                        *)
(*   OnlyLoopsChecked  no other block is checked;                             *)
(*   CoverIsMinimum    up to the limit no smaller set of blocks would do.     *)
(* The first needs the invariant of Tarjan's algorithm (TarjanInv), the others *)
(* that of the cover (CoverInv); the two meet only at the end.  What holds of *)
(* walks, loops and covers of any graph comes first.                          *)
EXTENDS CycleChecks, InductionLemmas

-----------------------------------------------------------------------------
\* f is a walk of l edges.
Walk(g, f, l) == \A i \in 0 .. l - 1 : f[i + 1] \in g[f[i]]

(* A reached node is the end of a walk.                                       *)
LEMMA WalkExists ==
    ASSUME NEW N, NEW g \in [N -> SUBSET N], NEW n \in N, NEW m \in Reached(g, n)
    PROVE  \E l \in Nat \ {0} : \E f \in [Nat -> N] : f[0] = n /\ f[l] = m /\ Walk(g, f, l)
<1> DEFINE To(k) == \E l \in Nat \ {0} : \E f \in [Nat -> N] : f[0] = n /\ f[l] = k /\ Walk(g, f, l)
           S == {k \in N : To(k)}
<1>1. ASSUME NEW k \in g[n] PROVE k \in S
  <2>1. k \in N
    OBVIOUS
  <2> DEFINE f == [i \in Nat |-> IF i = 0 THEN n ELSE k]
  <2>2. f \in [Nat -> N] /\ f[0] = n /\ f[1] = k
    BY <2>1
  <2>3. Walk(g, f, 1)
    <3> SUFFICES ASSUME NEW i \in 0 .. 1 - 1 PROVE f[i + 1] \in g[f[i]]
      BY DEF Walk
    <3>1. i = 0 /\ i + 1 = 1
      OBVIOUS
    <3> HIDE DEF f
    <3> QED
      BY <2>2, <3>1
  <2> HIDE DEF f
  <2>4. 1 \in Nat \ {0}
    OBVIOUS
  <2> QED
    BY <2>1, <2>2, <2>3, <2>4
<1>2. ASSUME NEW k \in S, NEW j \in g[k] PROVE j \in S
  <2>0. k \in N /\ j \in N
    OBVIOUS
  <2>1. PICK l \in Nat \ {0} : \E f \in [Nat -> N] : f[0] = n /\ f[l] = k /\ Walk(g, f, l)
    OBVIOUS
  <2>2. PICK f \in [Nat -> N] : f[0] = n /\ f[l] = k /\ Walk(g, f, l)
    BY <2>1
  <2> DEFINE h == [i \in Nat |-> IF i <= l THEN f[i] ELSE j]
  <2>3. h \in [Nat -> N] /\ h[0] = n /\ h[l + 1] = j /\ l + 1 \in Nat \ {0}
    BY <2>0, <2>2
  <2>4. Walk(g, h, l + 1)
    <3> SUFFICES ASSUME NEW i \in 0 .. (l + 1) - 1 PROVE h[i + 1] \in g[h[i]]
      BY DEF Walk
    <3>1. CASE i = l
      <4>1. h[i + 1] = j /\ h[i] = f[l]
        BY <3>1
      <4> QED
        BY <2>2, <4>1
    <3>2. CASE i # l
      <4>1. i \in 0 .. l - 1 /\ h[i + 1] = f[i + 1] /\ h[i] = f[i]
        BY <3>2
      <4> QED
        BY <2>2, <4>1 DEF Walk
    <3> QED
      BY <3>1, <3>2
  <2> HIDE DEF h
  <2> QED
    BY <2>0, <2>3, <2>4
<1> HIDE DEF To
<1>3. S \in SUBSET N /\ g[n] \subseteq S /\ Closed(g, S)
  BY <1>1, <1>2 DEF Closed
<1>4. Reached(g, n) \subseteq S
  BY <1>3, ReachedFacts
<1>5. To(m)
  BY <1>4
<1> QED
  BY <1>5 DEF To

\* The first l values of c are the nodes of a simple cycle.
Shape(g, c, l) ==
    /\ \A i \in 1 .. l - 1 : c[i + 1] \in g[c[i]]
    /\ c[1] \in g[c[l]]
    /\ \A i, j \in 1 .. l : c[i] = c[j] => i = j

(* A node that reaches itself has a simple cycle in its graph: the shortest   *)
(* closed walk visits no node twice.                                          *)
LEMMA ShortCycle ==
    ASSUME NEW N, NEW g \in [N -> SUBSET N], NEW n \in N, n \in Reached(g, n)
    PROVE  \E l \in Nat \ {0} : \E c \in [1 .. l -> N] : Shape(g, c, l)
<1> DEFINE Round(l) == l # 0 /\ \E f \in [Nat -> N] : f[0] = f[l] /\ Walk(g, f, l)
           T == {l \in Nat : Round(l)}
<1>1. T # {}
  <2>1. PICK l \in Nat \ {0} : \E f \in [Nat -> N] : f[0] = n /\ f[l] = n /\ Walk(g, f, l)
    BY WalkExists
  <2> QED
    BY <2>1
<1>2. PICK l \in T : \A k \in T : l <= k
  <2> HIDE DEF T
  <2>1. T \subseteq Nat
    BY DEF T
  <2> QED
    BY <1>1, <2>1, LeastElement
<1>3. l \in Nat \ {0} /\ \E f \in [Nat -> N] : f[0] = f[l] /\ Walk(g, f, l)
  OBVIOUS
<1>4. PICK f \in [Nat -> N] : f[0] = f[l] /\ Walk(g, f, l)
  BY <1>3
<1> DEFINE c == [i \in 1 .. l |-> f[i - 1]]
<1>5. c \in [1 .. l -> N]
  BY <1>3, <1>4
<1>6. ASSUME NEW i \in 0 .. l - 1, NEW j \in 0 .. l - 1, i < j PROVE f[i] # f[j]
  <2> SUFFICES ASSUME f[i] = f[j] PROVE FALSE
    OBVIOUS
  <2> DEFINE h == [k \in Nat |-> f[i + k]]
  <2>1. h \in [Nat -> N] /\ h[0] = h[j - i] /\ j - i \in Nat /\ j - i # 0 /\ j - i < l
    BY <1>3, <1>4, <1>6
  <2>2. Walk(g, h, j - i)
    <3> SUFFICES ASSUME NEW k \in 0 .. (j - i) - 1 PROVE h[k + 1] \in g[h[k]]
      BY DEF Walk
    <3>1. i + k \in 0 .. l - 1 /\ h[k + 1] = f[(i + k) + 1] /\ h[k] = f[i + k]
      BY <1>3
    <3> QED
      BY <1>4, <3>1 DEF Walk
  <2> HIDE DEF h
  <2>3. j - i \in T
    BY <2>1, <2>2
  <2>4. l <= j - i
    BY <1>2, <2>3
  <2> QED
    BY <1>3, <2>1, <2>4
<1>7. Shape(g, c, l)
  <2>1. ASSUME NEW i \in 1 .. l - 1 PROVE c[i + 1] \in g[c[i]]
    <3>1. i - 1 \in 0 .. l - 1 /\ c[i + 1] = f[(i - 1) + 1] /\ c[i] = f[i - 1]
      BY <1>3
    <3> QED
      BY <1>4, <3>1 DEF Walk
  <2>2. c[1] \in g[c[l]]
    <3>1. l - 1 \in 0 .. l - 1 /\ c[1] = f[0] /\ c[l] = f[l - 1] /\ (l - 1) + 1 = l
      BY <1>3
    <3>2. f[(l - 1) + 1] \in g[f[l - 1]]
      BY <1>4, <3>1 DEF Walk
    <3> QED
      BY <1>4, <3>1, <3>2
  <2>3. ASSUME NEW i \in 1 .. l, NEW j \in 1 .. l, c[i] = c[j] PROVE i = j
    <3>1. i - 1 \in 0 .. l - 1 /\ j - 1 \in 0 .. l - 1 /\ f[i - 1] = f[j - 1]
      BY <1>3, <2>3
    <3>2. ~(i - 1 < j - 1) /\ ~(j - 1 < i - 1)
      BY <1>6, <3>1
    <3> QED
      BY <3>2
  <2> QED
    BY <2>1, <2>2, <2>3 DEF Shape
<1> HIDE DEF c
<1> QED
  BY <1>3, <1>5, <1>7

-----------------------------------------------------------------------------
\* A path that visits no node twice.
Simple(g, p) == /\ \A i \in 1 .. Len(p) - 1 : p[i + 1] \in g[p[i]]
             /\ \A i, j \in 1 .. Len(p) : p[i] = p[j] => i = j

GraphFacts(g) == g \in [DOMAIN g -> SUBSET DOMAIN g] /\ IsFiniteSet(DOMAIN g) /\ DOMAIN g \subseteq Nat
              /\ Cardinality(DOMAIN g) \in Nat

(* The graphs considered are finite.                                          *)
LEMMA GraphOK == ASSUME NEW g \in Graphs PROVE GraphFacts(g)
BY GraphsAssumption, FS_CardinalityType DEF GraphFacts

(* One step of the depth-first enumeration (find_all_simple_cycles) appends a *)
(* successor that is not on the path yet.                                     *)
LEMMA ExtendedFacts ==
    ASSUME NEW g, GraphFacts(g), NEW p \in Seq(DOMAIN g), p # << >>
    PROVE  /\ Extended(g, p) \subseteq Seq(DOMAIN g)
           /\ \A q \in Seq(DOMAIN g) : q \in Extended(g, p) <=>
                 /\ Len(q) = Len(p) + 1
                 /\ \A i \in 1 .. Len(p) : q[i] = p[i]
                 /\ q[Len(q)] \in g[p[Len(p)]]
                 /\ \A i \in 1 .. Len(p) : q[Len(q)] # p[i]
<1>1. Len(p) \in Nat \ {0} /\ Last(p) = p[Len(p)] /\ Last(p) \in DOMAIN g
  BY DEF Last
<1>2. g[Last(p)] \subseteq DOMAIN g
  BY <1>1 DEF GraphFacts
<1>3. Range(p) = {p[i] : i \in 1 .. Len(p)}
  BY DEF Range
<1>4. \A x \in DOMAIN g : /\ Append(p, x) \in Seq(DOMAIN g) /\ Len(Append(p, x)) = Len(p) + 1
                      /\ Append(p, x)[Len(p) + 1] = x
                      /\ \A i \in 1 .. Len(p) : Append(p, x)[i] = p[i]
  OBVIOUS
<1>5. Extended(g, p) \subseteq Seq(DOMAIN g)
  BY <1>2, <1>4 DEF Extended
<1>6. ASSUME NEW q \in Seq(DOMAIN g), q \in Extended(g, p)
      PROVE  /\ Len(q) = Len(p) + 1
             /\ \A i \in 1 .. Len(p) : q[i] = p[i]
             /\ q[Len(q)] \in g[p[Len(p)]]
             /\ \A i \in 1 .. Len(p) : q[Len(q)] # p[i]
  <2>1. PICK x \in g[Last(p)] \ Range(p) : q = Append(p, x)
    BY <1>6 DEF Extended
  <2>2. x \in DOMAIN g /\ \A i \in 1 .. Len(p) : x # p[i]
    BY <1>2, <1>3, <2>1
  <2> QED
    BY <1>1, <1>4, <2>1, <2>2
<1>7. ASSUME NEW q \in Seq(DOMAIN g), Len(q) = Len(p) + 1, \A i \in 1 .. Len(p) : q[i] = p[i],
             q[Len(q)] \in g[p[Len(p)]], \A i \in 1 .. Len(p) : q[Len(q)] # p[i]
      PROVE  q \in Extended(g, p)
  <2> DEFINE x == q[Len(q)]
  <2>1. x \in g[Last(p)] \ Range(p) /\ x \in DOMAIN g
    BY <1>1, <1>2, <1>3, <1>7
  <2>2. q = Append(p, x)
    <3>1. Append(p, x) \in Seq(DOMAIN g) /\ Len(Append(p, x)) = Len(q)
      BY <1>4, <1>7, <2>1
    <3>2. \A i \in 1 .. Len(q) : q[i] = Append(p, x)[i]
      <4> TAKE i \in 1 .. Len(q)
      <4>1. CASE i \in 1 .. Len(p)
        BY <4>1, <1>4, <1>7, <2>1
      <4>2. CASE i = Len(q)
        BY <4>2, <1>4, <1>7, <2>1
      <4> QED
        BY <1>1, <1>7, <4>1, <4>2
    <3> HIDE DEF x
    <3> QED
      BY <3>1, <3>2
  <2> QED
    BY <2>1, <2>2 DEF Extended
<1> QED
  BY <1>5, <1>6, <1>7

\* The paths of k nodes, from those with a node less.
Lengthened(g, P, k) == IF k = 1 THEN {<<n>> : n \in DOMAIN g}
                       ELSE UNION {Extended(g, p) : p \in P[k - 1]}

(* The paths of each length are what their recursion says.                    *)
LEMMA PathsDef ==
    ASSUME NEW g, GraphFacts(g)
    PROVE  /\ DOMAIN SimplePaths(g) = 1 .. Cardinality(DOMAIN g)
           /\ \A k \in 1 .. Cardinality(DOMAIN g) :
                 SimplePaths(g)[k] = Lengthened(g, SimplePaths(g), k)
<1> DEFINE Q == Seq(DOMAIN g) \ {<< >>}
           V == SUBSET Q
           C == Cardinality(DOMAIN g)
           one == {<<n>> : n \in DOMAIN g}
           step == [n \in Nat |-> [v \in V |-> UNION {Extended(g, p) : p \in v}]]
<1>1. one \in V
  <2>1. \A n \in DOMAIN g : <<n>> \in Seq(DOMAIN g) /\ <<n>> # << >>
    OBVIOUS
  <2> QED
    BY <2>1
<1>2. \A p \in Q : Extended(g, p) \subseteq Q
  <2> TAKE p \in Q
  <2>1. Extended(g, p) \subseteq Seq(DOMAIN g)
    BY ExtendedFacts
  <2>2. << >> \notin Extended(g, p)
    <3>1. ASSUME << >> \in Extended(g, p) PROVE FALSE
      <4>1. << >> \in Seq(DOMAIN g)
        OBVIOUS
      <4>2. Len(<< >>) = Len(p) + 1
        BY <3>1, <4>1, ExtendedFacts
      <4> QED
        BY <4>2
    <3> QED
      BY <3>1
  <2> QED
    BY <2>1, <2>2
<1>3. \A v \in V : UNION {Extended(g, p) : p \in v} \in V
  BY <1>2
<1>4. step \in [Nat -> [V -> V]] /\ \A n \in Nat : \A v \in V : step[n][v] = UNION {Extended(g, p) : p \in v}
  BY <1>3
<1> HIDE DEF step, V
<1>5. PICK f \in [Nat -> V] : f[0] = one /\ \A n \in Nat : f[n + 1] = step[n][f[n]]
  <2>1. Recursive(V, one, step)
    BY <1>1, <1>4, RecursionExists
  <2> QED
    BY <2>1 DEF Recursive
<1> HIDE DEF one
<1> DEFINE h == [k \in 1 .. C |-> f[k - 1]]
<1>6. h = [k \in 1 .. C |-> IF k = 1 THEN one ELSE UNION {Extended(g, p) : p \in h[k - 1]}]
  <2>1. ASSUME NEW k \in 1 .. C, k # 1
        PROVE  f[k - 1] = UNION {Extended(g, p) : p \in h[k - 1]}
    <3>1. k - 2 \in Nat /\ (k - 2) + 1 = k - 1 /\ k - 1 \in 1 .. C /\ h[k - 1] = f[k - 2]
      BY <2>1 DEF GraphFacts
    <3>2. f[k - 1] = step[k - 2][f[k - 2]] /\ f[k - 2] \in V
      BY <1>5, <3>1
    <3> QED
      BY <1>4, <3>1, <3>2
  <2>2. \A k \in 1 .. C : h[k] = IF k = 1 THEN one ELSE UNION {Extended(g, p) : p \in h[k - 1]}
    <3> TAKE k \in 1 .. C
    <3>1. h[k] = f[k - 1] /\ (k = 1 => k - 1 = 0)
      OBVIOUS
    <3> HIDE DEF h
    <3> QED
      BY <1>5, <2>1, <3>1
  <2> QED
    BY <2>2
<1> DEFINE P == SimplePaths(g)
<1>7. P = [k \in 1 .. C |-> IF k = 1 THEN one ELSE UNION {Extended(g, p) : p \in P[k - 1]}]
  BY <1>6 DEF SimplePaths, one
<1> HIDE DEF P
<1>8. DOMAIN P = 1 .. C /\ \A k \in 1 .. C : P[k] = IF k = 1 THEN one ELSE UNION {Extended(g, p) : p \in P[k - 1]}
  BY <1>7
<1> QED
  BY <1>8 DEF P, one, Lengthened

(* The enumeration finds each path that visits no node twice, and nothing     *)
(* else.                                                                      *)
LEMMA PathsAre ==
    ASSUME NEW g, GraphFacts(g), NEW k \in 1 .. Cardinality(DOMAIN g)
    PROVE  SimplePaths(g)[k] = {p \in Seq(DOMAIN g) : Len(p) = k /\ Simple(g, p)}
<1> DEFINE C == Cardinality(DOMAIN g)
           P == SimplePaths(g)
           Are(n) == {p \in Seq(DOMAIN g) : Len(p) = n /\ Simple(g, p)}
           T == {n \in Nat : n + 1 \in 1 .. C => P[n + 1] = Are(n + 1)}
<1>0. C \in Nat
  BY DEF GraphFacts
<1>d. \A n \in 1 .. C : P[n] = Lengthened(g, P, n)
  BY PathsDef
<1> HIDE DEF P, C
<1>1. \A n \in 1 .. C : P[n] = IF n = 1 THEN {<<x>> : x \in DOMAIN g}
                           ELSE UNION {Extended(g, p) : p \in P[n - 1]}
  BY <1>d DEF Lengthened
<1>2. 0 \in T
  <2>1. {<<x>> : x \in DOMAIN g} = Are(1)
    <3>1. ASSUME NEW x \in DOMAIN g PROVE <<x>> \in Are(1)
      BY DEF Simple
    <3>2. ASSUME NEW p \in Are(1) PROVE p \in {<<x>> : x \in DOMAIN g}
      <4>0. p \in Seq(DOMAIN g) /\ Len(p) = 1
        OBVIOUS
      <4>1. p[1] \in DOMAIN g
        BY <4>0
      <4>2. <<p[1]>> \in Seq(DOMAIN g) /\ Len(<<p[1]>>) = 1 /\ <<p[1]>>[1] = p[1]
        BY <4>1
      <4>3. p = <<p[1]>>
        BY <4>0, <4>2
      <4> QED
        BY <4>1, <4>3
    <3> HIDE DEF Are
    <3> QED
      BY <3>1, <3>2
  <2> HIDE DEF Are
  <2>2. 1 \in 1 .. C => P[1] = {<<x>> : x \in DOMAIN g}
    BY <1>1
  <2>3. 0 + 1 = 1
    OBVIOUS
  <2> QED
    BY <2>1, <2>2, <2>3
<1>3. ASSUME NEW n \in Nat, n \in T PROVE n + 1 \in T
  <2> SUFFICES ASSUME (n + 1) + 1 \in 1 .. C PROVE P[(n + 1) + 1] = Are((n + 1) + 1)
    OBVIOUS
  <2> DEFINE m == n + 1
  <2>1. m \in 1 .. C /\ m + 1 \in 1 .. C /\ m + 1 # 1 /\ (m + 1) - 1 = m /\ m \in Nat /\ m >= 1
    BY <1>0
  <2>2. P[m] = Are(m)
    BY <1>3, <2>1
  <2> HIDE DEF m
  <2>3. P[m + 1] = UNION {Extended(g, p) : p \in Are(m)}
    BY <1>1, <2>1, <2>2
  <2>4. ASSUME NEW p \in Are(m), NEW q \in Extended(g, p) PROVE q \in Are(m + 1)
    <3>0. p \in Seq(DOMAIN g) /\ Len(p) = m /\ Simple(g, p) /\ p # << >>
      BY <2>1
    <3>1. q \in Seq(DOMAIN g)
      BY <3>0, ExtendedFacts
    <3>2. /\ Len(q) = Len(p) + 1 /\ \A i \in 1 .. Len(p) : q[i] = p[i]
          /\ q[Len(q)] \in g[p[Len(p)]] /\ \A i \in 1 .. Len(p) : q[Len(q)] # p[i]
      BY <3>0, <3>1, ExtendedFacts
    <3>3. Simple(g, q)
      <4>1. ASSUME NEW i \in 1 .. Len(q) - 1 PROVE q[i + 1] \in g[q[i]]
        <5>1. CASE i = m
          BY <5>1, <3>0, <3>2, <2>1
        <5>2. CASE i # m
          <6>1. i \in 1 .. Len(p) - 1 /\ i \in 1 .. Len(p) /\ i + 1 \in 1 .. Len(p)
            BY <5>2, <3>0, <3>2, <2>1
          <6>2. p[i + 1] \in g[p[i]]
            BY <6>1, <3>0 DEF Simple
          <6> QED
            BY <6>1, <6>2, <3>2
        <5> QED
          BY <5>1, <5>2
      <4>2. ASSUME NEW i \in 1 .. Len(q), NEW j \in 1 .. Len(q), q[i] = q[j] PROVE i = j
        <5>1. CASE i \in 1 .. m /\ j \in 1 .. m
          <6>1. p[i] = p[j]
            BY <4>2, <5>1, <3>0, <3>2
          <6> QED
            BY <5>1, <6>1, <3>0 DEF Simple
        <5>2. CASE i = m + 1 /\ j \in 1 .. m
          BY <4>2, <5>2, <3>0, <3>2
        <5>3. CASE i \in 1 .. m /\ j = m + 1
          BY <4>2, <5>3, <3>0, <3>2
        <5>4. CASE i = m + 1 /\ j = m + 1
          BY <5>4
        <5>5. (i \in 1 .. m \/ i = m + 1) /\ (j \in 1 .. m \/ j = m + 1)
          BY <2>1, <3>0, <3>2
        <5> QED
          BY <5>1, <5>2, <5>3, <5>4, <5>5
      <4> QED
        BY <4>1, <4>2 DEF Simple
    <3> QED
      BY <3>0, <3>1, <3>2, <3>3
  <2>5. ASSUME NEW q \in Are(m + 1) PROVE \E p \in Are(m) : q \in Extended(g, p)
    <3>0. q \in Seq(DOMAIN g) /\ Len(q) = m + 1 /\ Simple(g, q)
      OBVIOUS
    <3> DEFINE p == [i \in 1 .. m |-> q[i]]
    <3>1. p \in Seq(DOMAIN g) /\ Len(p) = m /\ p # << >> /\ \A i \in 1 .. m : p[i] = q[i]
      BY <3>0, <2>1
    <3> HIDE DEF p
    <3>2. Simple(g, p)
      <4>1. ASSUME NEW i \in 1 .. Len(p) - 1 PROVE p[i + 1] \in g[p[i]]
        <5>1. i \in 1 .. Len(q) - 1 /\ i \in 1 .. m /\ i + 1 \in 1 .. m
          BY <3>0, <3>1, <2>1
        <5>2. q[i + 1] \in g[q[i]]
          BY <5>1, <3>0 DEF Simple
        <5> QED
          BY <5>1, <5>2, <3>1
      <4>2. ASSUME NEW i \in 1 .. Len(p), NEW j \in 1 .. Len(p), p[i] = p[j] PROVE i = j
        <5>1. i \in 1 .. Len(q) /\ j \in 1 .. Len(q) /\ q[i] = q[j]
          BY <4>2, <3>0, <3>1, <2>1
        <5> QED
          BY <5>1, <3>0 DEF Simple
      <4> QED
        BY <4>1, <4>2 DEF Simple
    <3>3. p \in Are(m)
      BY <3>1, <3>2
    <3>4. q[m + 1] \in g[q[m]]
      <4>1. m \in 1 .. Len(q) - 1
        BY <2>1, <3>0
      <4> QED
        BY <4>1, <3>0 DEF Simple
    <3>5. \A i \in 1 .. Len(p) : q[m + 1] # p[i]
      <4> TAKE i \in 1 .. Len(p)
      <4>1. i \in 1 .. Len(q) /\ m + 1 \in 1 .. Len(q) /\ i # m + 1 /\ p[i] = q[i]
        BY <2>1, <3>0, <3>1
      <4> QED
        BY <4>1, <3>0 DEF Simple
    <3>6. m \in 1 .. m
      BY <2>1
    <3>7. q \in Extended(g, p)
      <4> HIDE DEF Are
      <4> QED
        BY <3>0, <3>1, <3>4, <3>5, <3>6, ExtendedFacts
    <3> QED
      BY <3>3, <3>7
  <2> HIDE DEF Are
  <2>6. P[m + 1] = Are(m + 1)
    BY <2>3, <2>4, <2>5
  <2> QED
    BY <2>6 DEF m
<1> HIDE DEF T
<1>4. \A n \in Nat : n \in T
  BY <1>2, <1>3, Induction
<1>5. k - 1 \in Nat /\ (k - 1) + 1 = k /\ k \in 1 .. C
  BY <1>0 DEF C
<1>6. P[k] = Are(k)
  BY <1>4, <1>5 DEF T
<1> QED
  BY <1>6 DEF P

\* A simple cycle, as a sequence of its nodes.
IsCycle(g, c) == c \in Seq(DOMAIN g) /\ c # << >> /\ Shape(g, c, Len(c))

(* The enumeration finds each simple cycle, and nothing else.                 *)
LEMMA CyclesAre ==
    ASSUME NEW g, GraphFacts(g) PROVE \A c : c \in SimpleCycles(g) <=> IsCycle(g, c)
<1> DEFINE C == Cardinality(DOMAIN g)
<1>0. C \in Nat /\ IsFiniteSet(DOMAIN g)
  BY DEF GraphFacts
<1>1. \A c : c \in SimpleCycles(g) <=> \E k \in 1 .. C : c \in SimplePaths(g)[k] /\ c[1] \in g[Last(c)]
  <2> DEFINE P == SimplePaths(g)
  <2>1. DOMAIN P = 1 .. C
    BY PathsDef
  <2>2. SimpleCycles(g) = UNION {{c \in P[k] : c[1] \in g[Last(c)]} : k \in DOMAIN P}
    BY DEF SimpleCycles
  <2> HIDE DEF P, C
  <2>3. \A c : c \in SimpleCycles(g) <=> \E k \in 1 .. C : c \in P[k] /\ c[1] \in g[Last(c)]
    BY <2>1, <2>2
  <2> QED
    BY <2>3 DEF P
<1>2. \A c : c \in SimpleCycles(g) <=>
           \E k \in 1 .. C : /\ c \in Seq(DOMAIN g) /\ Len(c) = k /\ Simple(g, c)
                            /\ c[1] \in g[c[Len(c)]]
  BY <1>1, PathsAre DEF Last
<1>3. ASSUME NEW c, c \in SimpleCycles(g) PROVE IsCycle(g, c)
  <2>1. c \in Seq(DOMAIN g) /\ Len(c) \in 1 .. C /\ Simple(g, c) /\ c[1] \in g[c[Len(c)]]
    BY <1>2, <1>3
  <2> QED
    BY <2>1 DEF IsCycle, Simple, Shape
<1>4. ASSUME NEW c, IsCycle(g, c) PROVE c \in SimpleCycles(g)
  <2>1. c \in Seq(DOMAIN g) /\ Len(c) \in Nat /\ Len(c) # 0 /\ Simple(g, c) /\ c[1] \in g[c[Len(c)]]
    BY <1>4 DEF IsCycle, Simple, Shape
  <2>2. c \in Injection(1 .. Len(c), DOMAIN g)
    BY <2>1 DEF Simple, Injection, IsInjective
  <2>3. Len(c) <= C
    <3>1. IsFiniteSet(1 .. Len(c)) /\ Cardinality(1 .. Len(c)) = Len(c)
      BY <2>1, FS_Interval
    <3>2. Cardinality(1 .. Len(c)) <= C
      BY <1>0, <2>2, <3>1, FS_Injection
    <3> QED
      BY <3>1, <3>2
  <2>4. Len(c) \in 1 .. C
    BY <1>0, <2>1, <2>3
  <2> QED
    BY <1>2, <2>1, <2>4
<1> QED
  BY <1>3, <1>4

-----------------------------------------------------------------------------

\* Zero or more edges lead from n to m.
Steps(g, n, m) == m = n \/ m \in Reached(g, n)

(* An edge is a step, steps compose, and two nodes that lead to each other    *)
(* lie on a cycle.                                                            *)
LEMMA StepsFacts ==
    ASSUME NEW N, NEW g \in [N -> SUBSET N]
    PROVE  /\ \A n \in N : \A m \in g[n] : Steps(g, n, m) /\ m \in Reached(g, n)
           /\ \A n, m, k \in N : Steps(g, n, m) /\ Steps(g, m, k) => Steps(g, n, k)
           /\ \A n, m \in N : n # m /\ Steps(g, n, m) /\ Steps(g, m, n) => n \in Reached(g, n)
<1>1. \A n \in N : \A m \in g[n] : Steps(g, n, m) /\ m \in Reached(g, n)
  BY ReachedFacts DEF Steps
<1>2. \A n \in N : \A m \in Reached(g, n) : Reached(g, m) \subseteq Reached(g, n)
  BY ReachedTrans
<1>3. \A n, m, k \in N : Steps(g, n, m) /\ Steps(g, m, k) => Steps(g, n, k)
  BY <1>2 DEF Steps
<1>4. \A n, m \in N : n # m /\ Steps(g, n, m) /\ Steps(g, m, n) => n \in Reached(g, n)
  BY <1>2 DEF Steps
<1> QED
  BY <1>1, <1>3, <1>4

(* A node that lies on a simple cycle leads to itself.                        *)
LEMMA CycleReaches ==
    ASSUME NEW N, NEW g \in [N -> SUBSET N], NEW l \in Nat \ {0}, NEW c \in [1 .. l -> N], Shape(g, c, l)
    PROVE  \A i \in 1 .. l : c[i] \in Reached(g, c[i])
<1>1. /\ \A i \in 1 .. l - 1 : c[i + 1] \in g[c[i]]
      /\ c[1] \in g[c[l]] /\ 1 \in 1 .. l /\ l \in 1 .. l
  BY DEF Shape
<1>2. /\ \A n \in N : \A m \in g[n] : Steps(g, n, m) /\ m \in Reached(g, n)
      /\ \A n, m, k \in N : Steps(g, n, m) /\ Steps(g, m, k) => Steps(g, n, k)
      /\ \A n, m \in N : n # m /\ Steps(g, n, m) /\ Steps(g, m, n) => n \in Reached(g, n)
  BY StepsFacts
<1> DEFINE T == {d \in Nat : \A i \in 1 .. l : i + d \in 1 .. l => Steps(g, c[i], c[i + d])}
<1>3. 0 \in T
  <2>1. \A i \in 1 .. l : i + 0 = i
    OBVIOUS
  <2> QED
    BY <2>1 DEF Steps
<1>4. ASSUME NEW d \in Nat, d \in T PROVE d + 1 \in T
  <2> SUFFICES ASSUME NEW i \in 1 .. l, i + (d + 1) \in 1 .. l PROVE Steps(g, c[i], c[i + (d + 1)])
    BY <1>4
  <2>1. i + d \in 1 .. l /\ i + d \in 1 .. l - 1 /\ (i + d) + 1 = i + (d + 1)
    OBVIOUS
  <2>2. Steps(g, c[i], c[i + d])
    BY <1>4, <2>1
  <2>3. c[i + (d + 1)] \in g[c[i + d]]
    BY <1>1, <2>1
  <2>4. c[i] \in N /\ c[i + d] \in N /\ c[i + (d + 1)] \in N
    BY <2>1
  <2> QED
    BY <1>2, <2>2, <2>3, <2>4
<1>5. \A d \in Nat : d \in T
  <2> HIDE DEF T
  <2> QED
    BY <1>3, <1>4, Induction
<1>6. ASSUME NEW i \in 1 .. l, NEW j \in 1 .. l, i <= j PROVE Steps(g, c[i], c[j])
  <2>1. PICK d \in Nat : d = j - i /\ i + d = j
    <3>1. j - i \in Nat /\ i + (j - i) = j
      BY <1>6
    <3> QED
      BY <3>1
  <2>2. d \in T
    BY <1>5
  <2> QED
    BY <2>1, <2>2
<1> HIDE DEF T
<1> TAKE i \in 1 .. l
<1>7. Steps(g, c[1], c[i]) /\ Steps(g, c[i], c[l]) /\ c[1] \in N /\ c[i] \in N /\ c[l] \in N
  <2>1. 1 <= i /\ i <= l
    OBVIOUS
  <2> QED
    BY <1>1, <1>6, <2>1
<1>8. CASE l = 1
  <2>1. i = 1
    BY <1>8
  <2> QED
    BY <1>1, <1>2, <1>7, <1>8, <2>1
<1>9. CASE l # 1
  <2>1. c[1] \in Reached(g, c[l])
    BY <1>1, <1>2, <1>7
  <2>2. c[i] \in Reached(g, c[l])
    <3>1. Reached(g, c[1]) \subseteq Reached(g, c[l])
      BY <1>7, <2>1, ReachedTrans
    <3> QED
      BY <1>7, <2>1, <3>1 DEF Steps
  <2> QED
    <3>1. CASE c[i] = c[l]
      BY <2>2, <3>1
    <3>2. CASE c[i] # c[l]
      <4>1. Steps(g, c[l], c[i]) /\ Steps(g, c[i], c[l])
        BY <1>7, <2>2 DEF Steps
      <4> QED
        BY <1>2, <1>7, <3>2, <4>1
    <3> QED
      BY <3>1, <3>2
<1> QED
  BY <1>8, <1>9

-----------------------------------------------------------------------------

(* A set of natural numbers that is not empty has a minimum.                  *)
LEMMA MinFacts ==
    ASSUME NEW S \in SUBSET Nat, S # {}
    PROVE  Min(S) \in S /\ \A y \in S : Min(S) <= y
<1>1. \E n \in S : \A m \in S : n <= m
  BY LeastElement
<1> QED
  BY <1>1 DEF Min

(* A bounded set of natural numbers that is not empty has a maximum.          *)
LEMMA MaxFacts ==
    ASSUME NEW S \in SUBSET Nat, S # {}, NEW b \in Nat, \A x \in S : x <= b
    PROVE  Max(S) \in S /\ \A y \in S : y <= Max(S)
<1> DEFINE T == {d \in Nat : b - d \in S}
<1>1. T \in SUBSET Nat /\ T # {}
  <2>1. PICK x \in S : TRUE
    OBVIOUS
  <2>2. b - x \in Nat /\ b - (b - x) = x
    BY <2>1
  <2>3. b - x \in T
    BY <2>1, <2>2
  <2> QED
    BY <2>3
<1>2. PICK d \in T : \A e \in T : d <= e
  BY <1>1, LeastElement
<1>3. b - d \in S /\ d \in Nat
  OBVIOUS
<1>4. \A y \in S : y <= b - d
  <2> TAKE y \in S
  <2>1. b - y \in Nat /\ b - (b - y) = y /\ y \in Nat
    OBVIOUS
  <2>2. b - y \in T
    BY <2>1
  <2>3. d <= b - y
    BY <1>2, <2>2
  <2> QED
    BY <1>3, <2>1, <2>3
<1>5. \A y \in S : y >= y /\ y \in Nat
  OBVIOUS
<1>6. \E x \in S : \A y \in S : x >= y
  BY <1>3, <1>4, <1>5
<1>7. Max(S) \in S /\ \A y \in S : Max(S) >= y
  BY <1>6 DEF Max
<1> QED
  BY <1>7

(* A graph has finitely many simple cycles.                                   *)
LEMMA CyclesFinite == ASSUME NEW g, GraphFacts(g) PROVE IsFiniteSet(SimpleCycles(g))
<1> DEFINE C == Cardinality(DOMAIN g)
           P == SimplePaths(g)
           T == {n \in Nat : n + 1 \in 1 .. C => IsFiniteSet(P[n + 1])}
<1>0. C \in Nat /\ IsFiniteSet(DOMAIN g)
  BY DEF GraphFacts
<1>d. \A n \in 1 .. C : P[n] = Lengthened(g, P, n)
  BY PathsDef
<1>2. \A n \in 1 .. C : \A p \in P[n] : p \in Seq(DOMAIN g) /\ Len(p) = n
  BY PathsAre
<1> HIDE DEF P, C
<1>1. \A n \in 1 .. C : P[n] = IF n = 1 THEN {<<x>> : x \in DOMAIN g}
                           ELSE UNION {Extended(g, p) : p \in P[n - 1]}
  BY <1>d DEF Lengthened
<1>3. 0 \in T
  <2> DEFINE f == [x \in DOMAIN g |-> <<x>>]
  <2>1. {<<x>> : x \in DOMAIN g} = {f[x] : x \in DOMAIN g}
    OBVIOUS
  <2> HIDE DEF f
  <2>2. IsFiniteSet({<<x>> : x \in DOMAIN g})
    BY <1>0, <2>1, Images
  <2>3. 0 + 1 = 1
    OBVIOUS
  <2> QED
    BY <1>1, <2>2, <2>3
<1>4. ASSUME NEW n \in Nat, n \in T PROVE n + 1 \in T
  <2> SUFFICES ASSUME (n + 1) + 1 \in 1 .. C PROVE IsFiniteSet(P[(n + 1) + 1])
    OBVIOUS
  <2> DEFINE m == n + 1
  <2>1. m \in 1 .. C /\ m + 1 \in 1 .. C /\ m + 1 # 1 /\ (m + 1) - 1 = m /\ m \in Nat /\ m >= 1
    BY <1>0
  <2>2. IsFiniteSet(P[m])
    BY <1>4, <2>1
  <2> HIDE DEF m
  <2>3. P[m + 1] = UNION {Extended(g, p) : p \in P[m]}
    BY <1>1, <2>1
  <2>4. ASSUME NEW p \in P[m] PROVE IsFiniteSet(Extended(g, p))
    <3>1. p \in Seq(DOMAIN g) /\ Len(p) = m /\ p # << >>
      BY <1>2, <2>1
    <3>2. Last(p) \in DOMAIN g
      BY <3>1, <2>1 DEF Last
    <3> DEFINE D == g[Last(p)] \ Range(p)
               f == [x \in D |-> Append(p, x)]
    <3>3. D \in SUBSET DOMAIN g
      BY <3>2 DEF GraphFacts
    <3>4. IsFiniteSet(D)
      BY <1>0, <3>3, FS_Subset
    <3>5. Extended(g, p) = {f[x] : x \in D}
      BY DEF Extended
    <3> HIDE DEF D, f
    <3> QED
      BY <3>4, <3>5, Images
  <2> DEFINE h == [p \in P[m] |-> Extended(g, p)]
             E == {h[p] : p \in P[m]}
  <2>5. E = {Extended(g, p) : p \in P[m]}
    OBVIOUS
  <2>6. IsFiniteSet(E)
    <3> HIDE DEF h
    <3> QED
      BY <2>2, Images
  <2>7. \A x \in E : IsFiniteSet(x)
    BY <2>4, <2>5
  <2> HIDE DEF E
  <2>8. IsFiniteSet(UNION E)
    BY <2>6, <2>7, FS_UNION
  <2> QED
    BY <2>3, <2>5, <2>8 DEF m
<1> HIDE DEF T
<1>5. \A n \in Nat : n \in T
  BY <1>3, <1>4, Induction
<1>6. \A k \in 1 .. C : IsFiniteSet(P[k])
  <2> TAKE k \in 1 .. C
  <2>1. k - 1 \in Nat /\ (k - 1) + 1 = k
    BY <1>0
  <2> QED
    BY <1>5, <2>1 DEF T
<1> DEFINE h == [k \in 1 .. C |-> P[k]]
           E == {h[k] : k \in 1 .. C}
<1>7. IsFiniteSet(E)
  <2>1. IsFiniteSet(1 .. C)
    BY <1>0, FS_Interval
  <2> HIDE DEF h
  <2> QED
    BY <2>1, Images
<1>8. \A x \in E : IsFiniteSet(x)
  BY <1>6
<1>9. SimpleCycles(g) \in SUBSET UNION E
  <2>1. DOMAIN P = 1 .. C
    BY PathsDef DEF P, C
  <2>2. UNION E = UNION {P[k] : k \in 1 .. C}
    OBVIOUS
  <2> QED
    BY <2>1, <2>2 DEF SimpleCycles, P
<1> HIDE DEF E
<1>10. IsFiniteSet(UNION E)
  BY <1>7, <1>8, FS_UNION
<1> QED
  BY <1>9, <1>10, FS_Subset

-----------------------------------------------------------------------------
(* find_nodes_with_cycle: Tarjan's algorithm.                                *)

\* The nodes that have a number, those on the stack, and those of finished
\* components; the node of a call.
Numbered == Node \ Todo
OnStack  == Range(stack)
Done     == Numbered \ OnStack
Caller(i) == calls[i][1]

\* The part of the stack pushed since the i-th call began and before the next.
Part(i) == {n \in OnStack : /\ indexOf[Caller(i)] <= indexOf[n]
                            /\ i < Len(calls) => indexOf[n] < indexOf[Caller(i + 1)]}

\* The successors of a node that have been looked at.
Seen(n) == {m \in graph[n] : \A i \in 1 .. Len(calls) : Caller(i) = n => m \notin calls[i][2]}

\* No two nodes have the same number.
NumbersOK ==
    /\ indexOf \in [Node -> Nat \cup {-1}] /\ lowlinks \in [Node -> Int]
    /\ \A n, m \in Numbered : indexOf[n] = indexOf[m] => n = m
    /\ \A n \in Numbered : indexOf[n] < Cardinality(Numbered)

\* The stack is in the order of the numbers.
StackOK ==
    /\ stack \in Seq(Numbered)
    /\ \A i, j \in 1 .. Len(stack) : i < j => indexOf[stack[i]] < indexOf[stack[j]]

\* The nodes of the calls are on the stack, in its order, each a successor of
\* the one before it.
CallsOK ==
    /\ calls \in Seq(Node \X SUBSET Node)
    /\ \A i \in 1 .. Len(calls) : Caller(i) \in OnStack /\ calls[i][2] \subseteq graph[Caller(i)]
    /\ \A i, j \in 1 .. Len(calls) : i < j => indexOf[Caller(i)] < indexOf[Caller(j)]
    /\ \A i \in 1 .. Len(calls) - 1 : Caller(i + 1) \in graph[Caller(i)]

\* Every node on the stack leads to those after it, and to the node of a call
\* that is under way and not after it.
Connected ==
    /\ \A n, m \in OnStack : indexOf[n] <= indexOf[m] => Steps(graph, n, m)
    /\ \A n \in OnStack : \E i \in 1 .. Len(calls) :
          indexOf[Caller(i)] <= indexOf[n] /\ Steps(graph, n, Caller(i))

\* The low link of a call is the number of a node on the stack that its node
\* leads to.
LowOK ==
    \A i \in 1 .. Len(calls) : \E m \in OnStack :
        /\ lowlinks[Caller(i)] = indexOf[m] /\ indexOf[m] <= indexOf[Caller(i)]
        /\ Steps(graph, Caller(i), m)

\* What has been looked at has a number, and if it is on the stack bounds the
\* low link of the call from which it was looked at.
LookedAt ==
    /\ \A n \in Numbered : Seen(n) \subseteq Numbered
    /\ \A i \in 1 .. Len(calls) : \A n \in Part(i) : \A m \in Seen(n) \cap OnStack :
          lowlinks[Caller(i)] <= indexOf[m]

\* Finished nodes lead to finished nodes, and those of them on a cycle are in
\* repeating, but for those with no cycle but an edge to themselves.
DoneOK ==
    /\ repeating \subseteq Node
    /\ \A n \in Done : graph[n] \subseteq Done
    /\ \A n \in Done : n \in Reached(graph, n) => n \in repeating \/ n \in graph[n]
    /\ \A n \in repeating : n \in Reached(graph, n)

TarjanInv ==
    /\ graph \in Graphs
    /\ NumbersOK /\ StackOK /\ CallsOK /\ Connected /\ LowOK /\ LookedAt /\ DoneOK

(* What the other proofs need of the numbers, the stack and the calls: the    *)
(* numbers are natural, and the nodes of calls are on the stack.              *)
LEMMA NumberFacts ==
    ASSUME TarjanInv
    PROVE  /\ GraphFacts(graph) /\ graph \in [Node -> SUBSET Node]
           /\ \A n \in Node : n \in Numbered <=> indexOf[n] # -1
           /\ \A n \in Numbered : n \in Node /\ indexOf[n] \in Nat
           /\ Cardinality(Numbered) \in Nat
           /\ OnStack \subseteq Numbered
           /\ \A i \in 1 .. Len(calls) : Caller(i) \in OnStack /\ Caller(i) \in Numbered /\ Caller(i) \in Node
           /\ Len(calls) \in Nat /\ Len(stack) \in Nat
<1>1. GraphFacts(graph) /\ graph \in [Node -> SUBSET Node]
  BY GraphOK DEF TarjanInv, GraphFacts, Node
<1>2. \A n \in Node : n \in Numbered <=> indexOf[n] # -1
  BY DEF Numbered, Todo
<1>3. \A n \in Numbered : n \in Node /\ indexOf[n] \in Nat
  BY <1>2 DEF TarjanInv, NumbersOK, Numbered
<1>4. Cardinality(Numbered) \in Nat
  <2>1. IsFiniteSet(Node) /\ Numbered \in SUBSET Node
    BY <1>1 DEF GraphFacts, Node, Numbered
  <2>2. IsFiniteSet(Numbered)
    BY <2>1, FS_Subset
  <2> QED
    BY <2>2, FS_CardinalityType
<1>5. OnStack \subseteq Numbered
  BY DEF TarjanInv, StackOK, OnStack, Range
<1>6. \A i \in 1 .. Len(calls) : Caller(i) \in OnStack
  BY DEF TarjanInv, CallsOK
<1>7. Len(calls) \in Nat /\ Len(stack) \in Nat
  BY DEF TarjanInv, CallsOK, StackOK
<1> QED
  BY <1>1, <1>2, <1>3, <1>4, <1>5, <1>6, <1>7

(* A call begins: strongconnect numbers its node and pushes it. The new node  *)
(* has the largest number and, but for a root, an edge from the call that is  *)
(* under way, and so every node of the stack leads to it.                     *)
LEMMA Opening ==
    ASSUME TarjanInv, NEW n \in Todo, Opened(n), NEW cs \in Seq(Node \X SUBSET Node),
           Len(cs) = Len(calls),
           \A i \in 1 .. Len(calls) : /\ cs[i][1] = calls[i][1]
                                      /\ cs[i][2] \subseteq calls[i][2]
                                      /\ calls[i][2] \ {n} \subseteq cs[i][2],
           calls' = Append(cs, <<n, graph[n]>>),
           Len(calls) > 0 => n \in graph[Caller(Len(calls))],
           graph' = graph, repeating' = repeating
    PROVE  TarjanInv'
<1>0. Len(calls) \in Nat /\ Cardinality(Numbered) \in Nat
  BY NumberFacts
<1>L. PICK L \in Nat : L = Len(calls)
  BY <1>0
<1>C. PICK C \in Nat : C = Cardinality(Numbered)
  BY <1>0
<1>1. /\ GraphFacts(graph) /\ graph \in [Node -> SUBSET Node]
      /\ \A a \in Node : a \in Numbered <=> indexOf[a] # -1
      /\ \A a \in Numbered : a \in Node /\ indexOf[a] \in Nat
      /\ C \in Nat /\ OnStack \subseteq Numbered /\ L \in Nat
      /\ \A i \in 1 .. L : Caller(i) \in OnStack /\ Caller(i) \in Numbered /\ Caller(i) \in Node
  BY <1>L, <1>C, NumberFacts
<1>2. n \in Node /\ n \notin Numbered /\ n \notin OnStack /\ Node' = Node
  BY <1>1 DEF Todo, Numbered, Node
<1>3. /\ indexOf' = [indexOf EXCEPT ![n] = C] /\ lowlinks' = [lowlinks EXCEPT ![n] = C]
      /\ stack' = Append(stack, n)
  BY <1>C DEF Opened, Numbered
<1>4. /\ indexOf \in [Node -> Nat \cup {-1}] /\ lowlinks \in [Node -> Int]
      /\ \A a, b \in Numbered : indexOf[a] = indexOf[b] => a = b
      /\ \A a \in Numbered : indexOf[a] < C
  BY <1>C DEF TarjanInv, NumbersOK
<1>5. /\ indexOf' \in [Node -> Nat \cup {-1}] /\ lowlinks' \in [Node -> Int]
      /\ indexOf'[n] = C /\ lowlinks'[n] = C
      /\ \A a \in Node : a # n => indexOf'[a] = indexOf[a] /\ lowlinks'[a] = lowlinks[a]
  BY <1>1, <1>2, <1>3, <1>4
<1>6. Numbered' = Numbered \cup {n}
  <2>1. \A a \in Node : a \in Numbered' <=> indexOf'[a] # -1
    BY <1>2 DEF Numbered, Todo
  <2>2. Numbered' \subseteq Node /\ Numbered \subseteq Node
    BY <1>2 DEF Numbered
  <2>3. \A a \in Node : a \in Numbered' <=> a = n \/ a \in Numbered
    <3>1. C # -1
      OBVIOUS
    <3> QED
      BY <1>1, <1>5, <2>1, <3>1
  <2> QED
    BY <1>2, <2>2, <2>3
<1>7. \A a \in Numbered : /\ a # n /\ a \in Node /\ indexOf'[a] = indexOf[a] /\ lowlinks'[a] = lowlinks[a]
                          /\ indexOf'[a] < indexOf'[n] /\ indexOf[a] \in Nat
  BY <1>1, <1>2, <1>4, <1>5
<1>8. stack \in Seq(Numbered) /\ \A i, j \in 1 .. Len(stack) : i < j => indexOf[stack[i]] < indexOf[stack[j]]
  BY DEF TarjanInv, StackOK
<1>9. /\ stack' \in Seq(Numbered') /\ Len(stack') = Len(stack) + 1 /\ stack'[Len(stack) + 1] = n
      /\ \A i \in 1 .. Len(stack) : stack'[i] = stack[i]
  BY <1>3, <1>6, <1>8
<1>10. OnStack' = OnStack \cup {n}
  <2>1. Len(stack) \in Nat
    BY <1>8
  <2>2. \A i \in Int : i \in 1 .. Len(stack) + 1 <=> i \in 1 .. Len(stack) \/ i = Len(stack) + 1
    BY <2>1
  <2>3. \A a : a \in OnStack <=> \E i \in 1 .. Len(stack) : stack[i] = a
    BY <1>8 DEF OnStack, Range
  <2>4. \A a : a \in OnStack' <=> \E i \in 1 .. Len(stack) + 1 : stack'[i] = a
    <3>1. DOMAIN stack' = 1 .. Len(stack) + 1
      BY <1>9
    <3>2. OnStack' = {stack'[i] : i \in DOMAIN stack'}
      BY DEF OnStack, Range
    <3> QED
      BY <3>1, <3>2
  <2>5. \A a : a \in OnStack' <=> a \in OnStack \/ a = n
    <3> TAKE a
    <3>1. ASSUME NEW i \in 1 .. Len(stack) + 1, stack'[i] = a PROVE a \in OnStack \/ a = n
      <4>1. i \in 1 .. Len(stack) \/ i = Len(stack) + 1
        BY <2>1
      <4> QED
        BY <1>9, <2>3, <3>1, <4>1
    <3>2. ASSUME a \in OnStack PROVE \E i \in 1 .. Len(stack) + 1 : stack'[i] = a
      <4>1. PICK i \in 1 .. Len(stack) : stack[i] = a
        BY <2>3, <3>2
      <4>2. i \in 1 .. Len(stack) + 1 /\ stack'[i] = a
        BY <1>9, <2>1, <4>1
      <4> QED
        BY <4>2
    <3>3. ASSUME a = n PROVE \E i \in 1 .. Len(stack) + 1 : stack'[i] = a
      <4>1. Len(stack) + 1 \in 1 .. Len(stack) + 1
        BY <2>1
      <4> QED
        BY <1>9, <3>3, <4>1
    <3> QED
      BY <2>4, <3>1, <3>2, <3>3
  <2> QED
    BY <2>5
<1>11. Done' = Done
  BY <1>2, <1>6, <1>10 DEF Done
<1>12. NumbersOK'
  <2>1. Cardinality(Numbered') = C + 1
    <3>1. IsFiniteSet(Numbered)
      <4>1. IsFiniteSet(Node) /\ Numbered \in SUBSET Node
        BY <1>1 DEF GraphFacts, Node, Numbered
      <4> QED
        BY <4>1, FS_Subset
    <3> QED
      BY <1>2, <1>6, <1>C, <3>1, FS_AddElement
  <2>2. ASSUME NEW a \in Numbered', NEW b \in Numbered', indexOf'[a] = indexOf'[b] PROVE a = b
    BY <1>4, <1>5, <1>6, <1>7, <2>2
  <2>3. ASSUME NEW a \in Numbered' PROVE indexOf'[a] < C + 1
    BY <1>1, <1>4, <1>5, <1>6, <1>7
  <2> QED
    BY <1>2, <1>5, <2>1, <2>2, <2>3 DEF NumbersOK
<1>13. StackOK'
  <2>1. ASSUME NEW i \in 1 .. Len(stack'), NEW j \in 1 .. Len(stack'), i < j
        PROVE  indexOf'[stack'[i]] < indexOf'[stack'[j]]
    <3>1. Len(stack) \in Nat
      BY <1>8
    <3>2. i \in 1 .. Len(stack) /\ (j \in 1 .. Len(stack) \/ j = Len(stack) + 1)
      <4>1. i \in 1 .. Len(stack) + 1 /\ j \in 1 .. Len(stack) + 1
        BY <1>9
      <4> QED
        BY <2>1, <3>1, <4>1
    <3>3. stack'[i] = stack[i] /\ stack[i] \in Numbered
      BY <1>8, <1>9, <3>2
    <3>4. CASE j = Len(stack) + 1
      BY <1>7, <1>9, <3>3, <3>4
    <3>5. CASE j \in 1 .. Len(stack)
      <4>1. stack'[j] = stack[j] /\ stack[j] \in Numbered
        BY <1>8, <1>9, <3>5
      <4>2. indexOf[stack[i]] < indexOf[stack[j]]
        BY <1>8, <2>1, <3>2, <3>5
      <4> QED
        BY <1>7, <3>3, <4>1, <4>2
    <3> QED
      BY <3>2, <3>4, <3>5
  <2> QED
    BY <1>9, <2>1 DEF StackOK
<1>14. /\ calls' \in Seq(Node \X SUBSET Node) /\ Len(calls') = L + 1
       /\ \A i \in 1 .. L : /\ Caller(i)' = Caller(i)
                            /\ calls'[i][2] \subseteq calls[i][2] /\ calls[i][2] \ {n} \subseteq calls'[i][2]
       /\ calls'[L + 1][2] = graph[n]
       /\ \A i \in 1 .. L + 1 : i = L + 1 => Caller(i)' = n
  <2>1. <<n, graph[n]>> \in Node \X SUBSET Node
    BY <1>1, <1>2
  <2>2. /\ calls' \in Seq(Node \X SUBSET Node) /\ Len(calls') = L + 1
        /\ calls'[L + 1] = <<n, graph[n]>> /\ \A i \in 1 .. L : calls'[i] = cs[i]
    BY <1>L, <2>1
  <2> QED
    BY <1>L, <2>2 DEF Caller
<1>15. CallsOK'
  <2>0. /\ \A i \in 1 .. L : calls[i][2] \subseteq graph[Caller(i)]
        /\ \A i, j \in 1 .. L : i < j => indexOf[Caller(i)] < indexOf[Caller(j)]
        /\ \A i \in 1 .. L - 1 : Caller(i + 1) \in graph[Caller(i)]
    BY <1>L DEF TarjanInv, CallsOK
  <2>1. \A i \in 1 .. L + 1 : i \in 1 .. L \/ i = L + 1
    BY <1>1
  <2>2. \A i \in 1 .. L + 1 : Caller(i)' \in OnStack' /\ calls'[i][2] \subseteq graph[Caller(i)']
    BY <1>1, <1>10, <1>14, <2>0, <2>1
  <2>3. ASSUME NEW i \in 1 .. L + 1, NEW j \in 1 .. L + 1, i < j
        PROVE  indexOf'[Caller(i)'] < indexOf'[Caller(j)']
    <3>1. i \in 1 .. L
      BY <1>1, <2>3
    <3>2. CASE j = L + 1
      BY <1>1, <1>7, <1>14, <3>1, <3>2
    <3>3. CASE j \in 1 .. L
      BY <1>1, <1>7, <1>14, <2>0, <2>3, <3>1, <3>3
    <3> QED
      BY <2>1, <3>2, <3>3
  <2>4. ASSUME NEW i \in 1 .. (L + 1) - 1 PROVE Caller(i + 1)' \in graph[Caller(i)']
    <3>1. i \in 1 .. L /\ (i = L \/ (i \in 1 .. L - 1 /\ i + 1 \in 1 .. L))
      BY <1>1
    <3>2. CASE i = L
      <4>1. L + 1 \in 1 .. L + 1 /\ i + 1 = L + 1 /\ L > 0
        BY <3>1, <3>2
      <4>2. Caller(i + 1)' = n
        BY <1>14, <4>1
      <4>3. Caller(i)' = Caller(L) /\ n \in graph[Caller(L)]
        BY <1>14, <1>L, <3>1, <3>2, <4>1
      <4> QED
        BY <4>2, <4>3
    <3>3. CASE i # L
      BY <1>14, <2>0, <3>1, <3>3
    <3> QED
      BY <3>2, <3>3
  <2> QED
    BY <1>2, <1>14, <2>2, <2>3, <2>4 DEF CallsOK
<1>16. Connected'
  <2>0. /\ \A a, b \in OnStack : indexOf[a] <= indexOf[b] => Steps(graph, a, b)
        /\ \A a \in OnStack : \E i \in 1 .. L : indexOf[Caller(i)] <= indexOf[a] /\ Steps(graph, a, Caller(i))
        /\ \A i, j \in 1 .. L : i < j => indexOf[Caller(i)] < indexOf[Caller(j)]
    BY <1>L DEF TarjanInv, Connected, CallsOK
  <2>1. ASSUME NEW a \in OnStack PROVE Steps(graph, a, n)
    <3>1. PICK i \in 1 .. L : Steps(graph, a, Caller(i))
      BY <2>0
    <3>2. L \in 1 .. L
      BY <1>1
    <3>3. indexOf[Caller(i)] <= indexOf[Caller(L)]
      <4>1. i < L \/ i = L
        BY <1>1
      <4>2. indexOf[Caller(i)] \in Nat /\ indexOf[Caller(L)] \in Nat
        BY <1>1, <3>2
      <4> QED
        BY <2>0, <3>2, <4>1, <4>2
    <3>4. Steps(graph, Caller(i), Caller(L))
      BY <1>1, <2>0, <3>2, <3>3
    <3>5. n \in graph[Caller(L)]
      BY <1>1, <1>L, <3>2
    <3>6. a \in Node /\ Caller(i) \in Node /\ Caller(L) \in Node
      BY <1>1, <3>2
    <3>7. Steps(graph, Caller(L), n)
      BY <1>1, <3>5, <3>6, StepsFacts
    <3>8. Steps(graph, a, Caller(L))
      BY <1>1, <3>1, <3>4, <3>6, StepsFacts
    <3> QED
      BY <1>1, <1>2, <3>6, <3>7, <3>8, StepsFacts
  <2>2. ASSUME NEW a \in OnStack', NEW b \in OnStack', indexOf'[a] <= indexOf'[b] PROVE Steps(graph, a, b)
    <3>1. CASE b = n
      <4>1. CASE a = n
        BY <3>1, <4>1 DEF Steps
      <4>2. CASE a # n
        BY <1>10, <2>1, <3>1, <4>2
      <4> QED
        BY <4>1, <4>2
    <3>2. CASE b # n
      <4>1. b \in OnStack /\ b \in Numbered
        BY <1>1, <1>10, <3>2
      <4>2. a # n
        <5>1. indexOf'[b] < indexOf'[n] /\ indexOf'[b] \in Nat /\ indexOf'[n] \in Nat
          BY <1>1, <1>5, <1>7, <4>1
        <5> QED
          BY <2>2, <5>1
      <4>3. a \in OnStack /\ a \in Numbered
        BY <1>1, <1>10, <4>2
      <4> QED
        BY <1>7, <2>0, <2>2, <4>1, <4>3
    <3> QED
      BY <3>1, <3>2
  <2>3. ASSUME NEW a \in OnStack'
        PROVE  \E i \in 1 .. L + 1 : indexOf'[Caller(i)'] <= indexOf'[a] /\ Steps(graph, a, Caller(i)')
    <3>1. CASE a = n
      <4>1. L + 1 \in 1 .. L + 1 /\ indexOf'[n] <= indexOf'[n]
        BY <1>1, <1>5
      <4>2. Steps(graph, a, n)
        BY <3>1 DEF Steps
      <4> QED
        BY <1>14, <3>1, <4>1, <4>2
    <3>2. CASE a # n
      <4>1. a \in OnStack /\ a \in Numbered
        BY <1>1, <1>10, <3>2
      <4>2. PICK i \in 1 .. L : indexOf[Caller(i)] <= indexOf[a] /\ Steps(graph, a, Caller(i))
        BY <2>0, <4>1
      <4>3. i \in 1 .. L + 1
        BY <1>1
      <4>4. Caller(i)' = Caller(i) /\ Caller(i) \in Numbered
        BY <1>1, <1>14
      <4>5. indexOf'[Caller(i)] = indexOf[Caller(i)] /\ indexOf'[a] = indexOf[a]
        BY <1>7, <4>1, <4>4
      <4> QED
        BY <4>2, <4>3, <4>4, <4>5
    <3> QED
      BY <3>1, <3>2
  <2> QED
    BY <1>14, <2>2, <2>3 DEF Connected
<1>17. \A i \in 1 .. L + 1 : i \in 1 .. L \/ i = L + 1
  BY <1>1
<1>18. LowOK'
  <2>0. \A i \in 1 .. L : \E m \in OnStack :
          /\ lowlinks[Caller(i)] = indexOf[m] /\ indexOf[m] <= indexOf[Caller(i)]
          /\ Steps(graph, Caller(i), m)
    BY <1>L DEF TarjanInv, LowOK
  <2> SUFFICES ASSUME NEW i \in 1 .. L + 1
               PROVE  \E m \in OnStack' : /\ lowlinks'[Caller(i)'] = indexOf'[m]
                                          /\ indexOf'[m] <= indexOf'[Caller(i)']
                                          /\ Steps(graph, Caller(i)', m)
    BY <1>14 DEF LowOK
  <2>1. CASE i = L + 1
    <3>1. Steps(graph, n, n) /\ n \in OnStack' /\ C <= C
      BY <1>1, <1>10 DEF Steps
    <3> QED
      BY <1>5, <1>14, <2>1, <3>1
  <2>2. CASE i \in 1 .. L
    <3>1. PICK m \in OnStack : /\ lowlinks[Caller(i)] = indexOf[m] /\ indexOf[m] <= indexOf[Caller(i)]
                               /\ Steps(graph, Caller(i), m)
      BY <2>0, <2>2
    <3>2. Caller(i)' = Caller(i) /\ Caller(i) \in Numbered /\ m \in Numbered /\ m \in OnStack'
      BY <1>1, <1>10, <1>14, <2>2
    <3>3. /\ lowlinks'[Caller(i)] = lowlinks[Caller(i)] /\ indexOf'[Caller(i)] = indexOf[Caller(i)]
          /\ indexOf'[m] = indexOf[m]
      BY <1>7, <3>2
    <3> QED
      BY <3>1, <3>2, <3>3
  <2> QED
    BY <1>17, <2>1, <2>2
<1>19. /\ Seen(n)' = {}
       /\ \A a \in Numbered : Seen(a)' \subseteq Seen(a) \cup {n}
  <2>1. ASSUME NEW m \in Seen(n)' PROVE FALSE
    <3>1. L + 1 \in 1 .. Len(calls') /\ Caller(L + 1)' = n /\ m \in graph[n]
      BY <1>1, <1>14, <2>1 DEF Seen, Caller
    <3> QED
      BY <1>14, <2>1, <3>1 DEF Seen
  <2>2. ASSUME NEW a \in Numbered, NEW m \in Seen(a)', m # n PROVE m \in Seen(a)
    <3>1. m \in graph[a] /\ \A i \in 1 .. L + 1 : Caller(i)' = a => m \notin calls'[i][2]
      BY <1>14, <2>2 DEF Seen
    <3>2. \A i \in 1 .. L : i \in 1 .. L + 1
      BY <1>1
    <3>3. \A i \in 1 .. L : Caller(i) = a => m \notin calls[i][2]
      BY <1>14, <2>2, <3>1, <3>2
    <3> QED
      BY <1>L, <3>1, <3>3 DEF Seen
  <2> QED
    BY <2>1, <2>2
<1>20. LookedAt'
  <2>0. /\ \A a \in Numbered : Seen(a) \subseteq Numbered
        /\ \A i \in 1 .. L : \A a \in Part(i) : \A m \in Seen(a) \cap OnStack :
              lowlinks[Caller(i)] <= indexOf[m]
    BY <1>L DEF TarjanInv, LookedAt
  <2>1. \A a \in Numbered' : Seen(a)' \subseteq Numbered'
    BY <1>6, <1>19, <2>0
  <2>2. ASSUME NEW i \in 1 .. L + 1, NEW a \in Part(i)', NEW m \in Seen(a)' \cap OnStack'
        PROVE  lowlinks'[Caller(i)'] <= indexOf'[m]
    <3>1. a \in OnStack' /\ indexOf'[Caller(i)'] <= indexOf'[a]
      BY DEF Part
    <3>2. a # n
      BY <1>19, <2>2
    <3>3. a \in OnStack /\ a \in Numbered
      BY <1>1, <1>10, <3>1, <3>2
    <3>4. i \in 1 .. L
      <4> SUFFICES ASSUME i = L + 1 PROVE FALSE
        BY <1>17
      <4>1. indexOf'[n] <= indexOf'[a]
        BY <1>14, <3>1
      <4>2. indexOf'[a] < indexOf'[n] /\ indexOf'[a] \in Nat /\ indexOf'[n] \in Nat
        BY <1>1, <1>5, <1>7, <3>3
      <4> QED
        BY <4>1, <4>2
    <3>5. a \in Part(i)
      <4>1. indexOf[Caller(i)] <= indexOf[a]
        BY <1>1, <1>7, <1>14, <3>1, <3>3, <3>4
      <4>2. ASSUME i < L PROVE indexOf[a] < indexOf[Caller(i + 1)]
        <5>1. i + 1 \in 1 .. L /\ i < L + 1
          BY <1>1, <4>2
        <5>2. indexOf'[a] < indexOf'[Caller(i + 1)']
          BY <1>14, <5>1 DEF Part
        <5> QED
          BY <1>1, <1>7, <1>14, <3>3, <5>1, <5>2
      <4> QED
        BY <1>L, <3>3, <4>1, <4>2 DEF Part
    <3>6. Caller(i)' = Caller(i) /\ Caller(i) \in Numbered
      BY <1>1, <1>14, <3>4
    <3>7. CASE m = n
      <4>1. PICK x \in OnStack : lowlinks[Caller(i)] = indexOf[x]
        BY <1>L, <3>4 DEF TarjanInv, LowOK
      <4>2. indexOf[x] \in Nat /\ indexOf'[x] = indexOf[x] /\ indexOf'[x] < indexOf'[n] /\ indexOf'[n] \in Nat
        BY <1>1, <1>5, <1>7, <4>1
      <4> QED
        BY <1>7, <3>6, <3>7, <4>1, <4>2
    <3>8. CASE m # n
      <4>1. m \in Seen(a) /\ m \in OnStack /\ m \in Numbered
        BY <1>1, <1>10, <1>19, <3>3, <3>8
      <4>2. lowlinks[Caller(i)] <= indexOf[m]
        BY <2>0, <3>4, <3>5, <4>1
      <4> QED
        BY <1>7, <3>6, <4>1, <4>2
    <3> QED
      BY <3>7, <3>8
  <2> QED
    BY <1>14, <2>1, <2>2 DEF LookedAt
<1>21. DoneOK'
  BY <1>2, <1>11 DEF TarjanInv, DoneOK
<1> QED
  BY <1>12, <1>13, <1>15, <1>16, <1>18, <1>20, <1>21 DEF TarjanInv

(* The last call is one of the calls, and its neighbors are successors of its *)
(* node.                                                                      *)
LEMMA TopFacts ==
    ASSUME TarjanInv, calls # << >>
    PROVE  /\ Len(calls) \in Nat \ {0} /\ Len(calls) \in 1 .. Len(calls) /\ Len(calls) > 0
           /\ top = calls[Len(calls)] /\ top[1] = Caller(Len(calls))
           /\ top[2] \subseteq graph[top[1]] /\ top[2] \subseteq Node /\ top[1] \in Node
<1>1. calls \in Seq(Node \X SUBSET Node)
  BY DEF TarjanInv, CallsOK
<1>2. Len(calls) \in Nat \ {0} /\ Len(calls) \in 1 .. Len(calls)
  BY <1>1
<1>3. top = calls[Len(calls)] /\ top[1] = Caller(Len(calls))
  BY DEF top, Last, Caller
<1>4. calls[Len(calls)] \in Node \X SUBSET Node
  BY <1>1, <1>2
<1>5. calls[Len(calls)][2] \subseteq graph[Caller(Len(calls))]
  BY <1>2 DEF TarjanInv, CallsOK
<1> QED
  BY <1>2, <1>3, <1>4, <1>5

(* The outer loop starts a tree of calls.                                     *)
LEMMA RootKeeps == ASSUME TarjanInv, Root PROVE TarjanInv'
<1>1. calls = << >> /\ Todo # {} /\ graph' = graph /\ repeating' = repeating
  BY DEF Root
<1> DEFINE n == Min(Todo)
<1>2. n \in Todo
  <2>1. Todo \in SUBSET Nat
    BY NumberFacts DEF GraphFacts, Todo, Node
  <2> QED
    BY <1>1, <2>1, MinFacts
<1>3. Opened(n) /\ calls' = <<<<n, graph[n]>>>>
  BY DEF Root
<1> HIDE DEF n
<1>4. << >> \in Seq(Node \X SUBSET Node) /\ Len(<< >>) = Len(calls) /\ ~(Len(calls) > 0)
  BY <1>1
<1>5. calls' = Append(<< >>, <<n, graph[n]>>)
  BY <1>3
<1>6. \A i \in 1 .. Len(calls) : FALSE
  BY <1>1
<1> QED
  BY <1>1, <1>2, <1>3, <1>4, <1>5, <1>6, Opening

(* A neighbor without a number is called for.                                 *)
LEMMA DescendKeeps == ASSUME TarjanInv, Descend PROVE TarjanInv'
<1>1. calls # << >> /\ top[2] # {} /\ graph' = graph /\ repeating' = repeating
  BY DEF Descend
<1>0. PICK L \in Nat : L = Len(calls)
  BY NumberFacts
<1>2. /\ L \in 1 .. L /\ L > 0 /\ top = calls[L] /\ top[1] = Caller(L) /\ top[2] \subseteq graph[top[1]]
      /\ top[2] \subseteq Node
  BY <1>0, <1>1, TopFacts
<1> DEFINE n == Min(top[2])
<1>3. n \in Todo /\ Opened(n)
      /\ calls' = Append([calls EXCEPT ![Len(calls)][2] = @ \ {n}], <<n, graph[n]>>)
  BY DEF Descend
<1>4. n \in top[2]
  <2>1. top[2] \in SUBSET Nat
    BY <1>2, NumberFacts DEF GraphFacts, Node
  <2> QED
    BY <1>1, <2>1, MinFacts
<1> HIDE DEF n
<1> DEFINE cs == [calls EXCEPT ![L][2] = @ \ {n}]
<1>5. calls \in Seq(Node \X SUBSET Node)
  BY DEF TarjanInv, CallsOK
<1>6. calls[L] \in Node \X SUBSET Node
  BY <1>0, <1>2, <1>5
<1>7. /\ cs \in Seq(Node \X SUBSET Node) /\ Len(cs) = L
      /\ cs[L] = [calls[L] EXCEPT ![2] = @ \ {n}]
      /\ \A i \in 1 .. L : i # L => cs[i] = calls[i]
  <2> DEFINE new == [calls[L] EXCEPT ![2] = @ \ {n}]
  <2>1. new \in Node \X SUBSET Node
    BY <1>6
  <2>2. cs = [calls EXCEPT ![L] = new]
    BY <1>2
  <2> HIDE DEF new, cs
  <2>3. cs \in Seq(Node \X SUBSET Node) /\ Len(cs) = L /\ cs[L] = new /\ \A i \in 1 .. L : i # L => cs[i] = calls[i]
    BY <1>0, <1>2, <1>5, <2>1, <2>2
  <2> QED
    BY <2>3 DEF new
<1>8. cs[L][1] = calls[L][1] /\ cs[L][2] = calls[L][2] \ {n}
  BY <1>6, <1>7
<1> HIDE DEF cs
<1>9. \A i \in 1 .. L : /\ cs[i][1] = calls[i][1]
                        /\ cs[i][2] \subseteq calls[i][2]
                        /\ calls[i][2] \ {n} \subseteq cs[i][2]
  BY <1>7, <1>8
<1>10. n \in graph[Caller(L)] /\ calls' = Append(cs, <<n, graph[n]>>)
  BY <1>0, <1>2, <1>3, <1>4 DEF cs
<1>11. /\ Len(cs) = Len(calls) /\ n \in graph[Caller(Len(calls))]
       /\ \A i \in 1 .. Len(calls) : /\ cs[i][1] = calls[i][1]
                                     /\ cs[i][2] \subseteq calls[i][2]
                                     /\ calls[i][2] \ {n} \subseteq cs[i][2]
  BY <1>0, <1>7, <1>9, <1>10
<1>12. cs \in Seq(Node \X SUBSET Node) /\ n \in Todo /\ Opened(n)
  BY <1>3, <1>7
<1> QED
  BY <1>1, <1>10, <1>11, <1>12, Opening

(* A neighbor on the stack lowers the low link of the call; one of a finished *)
(* component changes nothing.                                                 *)
LEMMA LookKeeps == ASSUME TarjanInv, Look PROVE TarjanInv'
<1>1. calls # << >> /\ top[2] # {} /\ graph' = graph /\ repeating' = repeating
      /\ stack' = stack /\ indexOf' = indexOf
  BY DEF Look
<1>0. PICK L \in Nat : L = Len(calls)
  BY NumberFacts
<1>2. /\ L \in 1 .. L /\ L > 0 /\ top = calls[L] /\ top[1] = Caller(L) /\ top[2] \subseteq graph[top[1]]
      /\ top[2] \subseteq Node
  BY <1>0, <1>1, TopFacts
<1>3. PICK w \in top[2] : /\ w \notin Todo /\ calls' = [calls EXCEPT ![L][2] = @ \ {w}]
                          /\ lowlinks' = IF Contains(stack, w)
                                         THEN [lowlinks EXCEPT ![top[1]] = Min({@, indexOf[w]})]
                                         ELSE lowlinks
  <2> DEFINE n == Min(top[2])
  <2>1. n \in top[2]
    <3>1. top[2] \in SUBSET Nat
      BY <1>2, NumberFacts DEF GraphFacts, Node
    <3> QED
      BY <1>1, <3>1, MinFacts
  <2>2. /\ n \notin Todo /\ calls' = [calls EXCEPT ![Len(calls)][2] = @ \ {n}]
        /\ lowlinks' = IF Contains(stack, n)
                       THEN [lowlinks EXCEPT ![top[1]] = Min({@, indexOf[n]})]
                       ELSE lowlinks
    BY DEF Look
  <2> HIDE DEF n
  <2> QED
    BY <1>0, <2>1, <2>2
<1>4. /\ GraphFacts(graph) /\ graph \in [Node -> SUBSET Node]
      /\ \A a \in Node : a \in Numbered <=> indexOf[a] # -1
      /\ \A a \in Numbered : a \in Node /\ indexOf[a] \in Nat
      /\ OnStack \subseteq Numbered
      /\ \A i \in 1 .. L : Caller(i) \in OnStack /\ Caller(i) \in Numbered /\ Caller(i) \in Node
  BY <1>0, NumberFacts
<1>v. PICK v \in Node : v = Caller(L)
  BY <1>2, <1>4
<1>5. w \in Numbered /\ w \in graph[v] /\ v \in Node /\ w \in Node
  BY <1>2, <1>3, <1>4, <1>v DEF Numbered
<1>6. Node' = Node /\ Numbered' = Numbered /\ OnStack' = OnStack /\ Done' = Done
  BY <1>1 DEF Node, Numbered, Todo, OnStack, Done
<1>7. /\ calls' \in Seq(Node \X SUBSET Node) /\ Len(calls') = L
      /\ \A i \in 1 .. L : Caller(i)' = Caller(i) /\ (i # L => calls'[i] = calls[i])
      /\ calls'[L][2] = calls[L][2] \ {w}
  <2>0. calls \in Seq(Node \X SUBSET Node)
    BY DEF TarjanInv, CallsOK
  <2>1. calls[L] \in Node \X SUBSET Node
    BY <1>0, <1>2, <2>0
  <2> DEFINE new == [calls[L] EXCEPT ![2] = @ \ {w}]
  <2>2. new \in Node \X SUBSET Node /\ new[1] = calls[L][1] /\ new[2] = calls[L][2] \ {w}
    BY <2>1
  <2>3. calls' = [calls EXCEPT ![L] = new]
    BY <1>2, <1>3
  <2> HIDE DEF new
  <2>4. /\ calls' \in Seq(Node \X SUBSET Node) /\ Len(calls') = L /\ calls'[L] = new
        /\ \A i \in 1 .. L : i # L => calls'[i] = calls[i]
    BY <1>0, <1>2, <2>0, <2>2, <2>3
  <2>5. \A i \in 1 .. L : calls'[i][1] = calls[i][1]
    BY <2>2, <2>4
  <2> QED
    BY <2>2, <2>4, <2>5 DEF Caller
<1>8. \A i \in 1 .. L : \E m \in OnStack : /\ lowlinks[Caller(i)] = indexOf[m] /\ indexOf[m] <= indexOf[Caller(i)]
                                          /\ Steps(graph, Caller(i), m)
  BY <1>0 DEF TarjanInv, LowOK
<1>9. \A i, j \in 1 .. L : i < j => indexOf[Caller(i)] < indexOf[Caller(j)]
  BY <1>0 DEF TarjanInv, CallsOK
<1>10. \A i \in 1 .. L : i # L => Caller(i) # v /\ indexOf[Caller(i)] < indexOf[v]
  <2> TAKE i \in 1 .. L
  <2>1. i # L => i < L
    OBVIOUS
  <2> QED
    BY <1>2, <1>4, <1>9, <1>v, <2>1
<1>11. \A x, y \in Int : Min({x, y}) \in {x, y} /\ Min({x, y}) <= x /\ Min({x, y}) <= y
  <2> TAKE x, y \in Int
  <2>1. \E z \in {x, y} : \A u \in {x, y} : z <= u
    OBVIOUS
  <2> QED
    BY <2>1 DEF Min
<1>12. lowlinks \in [Node -> Int] /\ indexOf \in [Node -> Nat \cup {-1}]
  BY DEF TarjanInv, NumbersOK
<1>13. /\ lowlinks' \in [Node -> Int]
       /\ \A a \in Node : a # v => lowlinks'[a] = lowlinks[a]
       /\ lowlinks'[v] <= lowlinks[v]
       /\ w \in OnStack => lowlinks'[v] <= indexOf[w]
       /\ lowlinks'[v] = lowlinks[v] \/ (w \in OnStack /\ lowlinks'[v] = indexOf[w])
  <2>1. Contains(stack, w) <=> w \in OnStack
    <3>1. stack \in Seq(Numbered)
      BY DEF TarjanInv, StackOK
    <3> QED
      BY <3>1 DEF Contains, OnStack, Range
  <2>2. lowlinks[v] \in Int /\ indexOf[w] \in Int /\ v = top[1]
    BY <1>v, <1>2, <1>4, <1>5, <1>12
  <2>3. CASE w \in OnStack
    <3> DEFINE low == Min({lowlinks[v], indexOf[w]})
    <3>1. low \in {lowlinks[v], indexOf[w]} /\ low <= lowlinks[v] /\ low <= indexOf[w]
      BY <1>11, <2>2
    <3>2. lowlinks' = [lowlinks EXCEPT ![v] = low]
      BY <1>3, <2>1, <2>2, <2>3
    <3> HIDE DEF low
    <3> QED
      BY <1>5, <1>12, <2>2, <2>3, <3>1, <3>2
  <2>4. CASE w \notin OnStack
    <3>1. lowlinks' = lowlinks
      BY <1>3, <2>1, <2>4
    <3> QED
      BY <1>12, <2>2, <2>4, <3>1
  <2> QED
    BY <2>3, <2>4
<1>14. /\ \A a \in Node : a # v => Seen(a)' \subseteq Seen(a)
       /\ Seen(v)' \subseteq Seen(v) \cup {w}
  <2>1. ASSUME NEW a \in Node, NEW m \in Seen(a)', m \notin Seen(a) PROVE a = v /\ m = w
    <3>1. m \in graph[a] /\ \A i \in 1 .. L : Caller(i) = a => m \notin calls'[i][2]
      BY <1>1, <1>7, <2>1 DEF Seen
    <3>2. PICK i \in 1 .. L : Caller(i) = a /\ m \in calls[i][2]
      BY <1>0, <2>1, <3>1 DEF Seen
    <3>3. i = L
      BY <1>7, <3>1, <3>2
    <3> QED
      BY <1>v, <1>7, <3>1, <3>2, <3>3
  <2> QED
    BY <1>5, <2>1
<1>15. NumbersOK'
  BY <1>1, <1>6, <1>13 DEF TarjanInv, NumbersOK
<1>16. StackOK'
  BY <1>1, <1>6 DEF TarjanInv, StackOK
<1>17. CallsOK'
  <2>1. \A i \in 1 .. L : calls'[i][2] \subseteq calls[i][2]
    BY <1>7
  <2>2. \A i \in 1 .. L : calls[i][2] \subseteq graph[Caller(i)]
    BY <1>0 DEF TarjanInv, CallsOK
  <2>3. \A i \in 1 .. L : Caller(i)' \in OnStack' /\ calls'[i][2] \subseteq graph'[Caller(i)']
    BY <1>1, <1>4, <1>6, <1>7, <2>1, <2>2
  <2>4. \A i, j \in 1 .. L : i < j => indexOf'[Caller(i)'] < indexOf'[Caller(j)']
    BY <1>1, <1>7, <1>9
  <2>5. \A i \in 1 .. L - 1 : Caller(i + 1)' \in graph'[Caller(i)']
    <3> TAKE i \in 1 .. L - 1
    <3>1. i \in 1 .. L /\ i + 1 \in 1 .. L
      OBVIOUS
    <3>2. Caller(i + 1) \in graph[Caller(i)]
      BY <1>0 DEF TarjanInv, CallsOK
    <3> QED
      BY <1>1, <1>7, <3>1, <3>2
  <2> QED
    BY <1>6, <1>7, <2>3, <2>4, <2>5 DEF CallsOK
<1>18. Connected'
  BY <1>0, <1>1, <1>6, <1>7 DEF TarjanInv, Connected
<1>19. LowOK'
  <2> SUFFICES ASSUME NEW i \in 1 .. L
               PROVE  \E m \in OnStack : /\ lowlinks'[Caller(i)] = indexOf[m] /\ indexOf[m] <= indexOf[Caller(i)]
                                        /\ Steps(graph, Caller(i), m)
    BY <1>1, <1>6, <1>7 DEF LowOK
  <2>1. PICK m \in OnStack : /\ lowlinks[Caller(i)] = indexOf[m] /\ indexOf[m] <= indexOf[Caller(i)]
                             /\ Steps(graph, Caller(i), m)
    BY <1>8
  <2>2. CASE lowlinks'[Caller(i)] = lowlinks[Caller(i)]
    BY <2>1, <2>2
  <2>3. CASE lowlinks'[Caller(i)] # lowlinks[Caller(i)]
    <3>1. i = L
      BY <1>4, <1>10, <1>13, <2>3
    <3>2. w \in OnStack /\ lowlinks'[v] = indexOf[w] /\ lowlinks'[v] <= lowlinks[v]
      BY <1>v, <1>13, <2>3, <3>1
    <3>3. indexOf[w] <= indexOf[v]
      <4>1. indexOf[w] \in Nat /\ indexOf[m] \in Nat /\ indexOf[v] \in Nat
        BY <1>v, <1>2, <1>4, <1>5
      <4> QED
        BY <1>v, <2>1, <3>1, <3>2, <4>1
    <3>4. Steps(graph, v, w)
      BY <1>4, <1>5, StepsFacts
    <3> QED
      BY <1>v, <3>1, <3>2, <3>3, <3>4
  <2> QED
    BY <2>2, <2>3
<1>20. LookedAt'
  <2>0. /\ \A a \in Numbered : Seen(a) \subseteq Numbered
        /\ \A i \in 1 .. L : \A a \in Part(i) : \A m \in Seen(a) \cap OnStack :
              lowlinks[Caller(i)] <= indexOf[m]
    BY <1>0 DEF TarjanInv, LookedAt
  <2>1. \A a \in Numbered : Seen(a)' \subseteq Numbered
    BY <1>4, <1>5, <1>14, <2>0
  <2>2. ASSUME NEW i \in 1 .. L, NEW a \in Part(i)', NEW m \in Seen(a)' \cap OnStack
        PROVE  lowlinks'[Caller(i)] <= indexOf[m]
    <3>1. a \in Part(i)
      <4>1. a \in OnStack /\ indexOf[Caller(i)] <= indexOf[a]
        BY <1>1, <1>6, <1>7 DEF Part
      <4>2. ASSUME i < L PROVE indexOf[a] < indexOf[Caller(i + 1)]
        <5>1. i + 1 \in 1 .. L
          BY <4>2
        <5> QED
          BY <1>1, <1>7, <4>2, <5>1 DEF Part
      <4> QED
        BY <1>0, <4>1, <4>2 DEF Part
    <3>2. a \in Node /\ a \in OnStack /\ m \in OnStack /\ indexOf[m] \in Nat
      BY <1>4, <3>1 DEF Part
    <3>3. Caller(i) \in Node
      BY <1>4
    <3>4. lowlinks'[Caller(i)] <= lowlinks[Caller(i)] /\ lowlinks'[Caller(i)] \in Int /\ lowlinks[Caller(i)] \in Int
      BY <1>12, <1>13, <3>3
    <3>5. CASE m \in Seen(a)
      <4>1. lowlinks[Caller(i)] <= indexOf[m]
        BY <2>0, <2>2, <3>1, <3>5
      <4> QED
        BY <3>2, <3>4, <4>1
    <3>6. CASE m \notin Seen(a)
      <4>1. a = v /\ m = w
        BY <1>14, <2>2, <3>2, <3>6
      <4>2. i = L
        <5> SUFFICES ASSUME i # L PROVE FALSE
          OBVIOUS
        <5>1. i < L /\ i + 1 \in 1 .. L
          OBVIOUS
        <5>2. indexOf[a] < indexOf[Caller(i + 1)]
          BY <1>0, <3>1, <5>1 DEF Part
        <5>3. Caller(i + 1) = v \/ indexOf[Caller(i + 1)] < indexOf[v]
          BY <1>v, <1>10, <5>1
        <5>4. indexOf[v] \in Nat /\ indexOf[Caller(i + 1)] \in Nat
          BY <1>v, <1>2, <1>4, <5>1
        <5> QED
          BY <4>1, <5>2, <5>3, <5>4
      <4> QED
        BY <1>v, <1>13, <3>2, <4>1, <4>2
    <3> QED
      BY <3>5, <3>6
  <2> QED
    BY <1>1, <1>6, <1>7, <2>1, <2>2 DEF LookedAt
<1>21. DoneOK'
  BY <1>1, <1>6 DEF TarjanInv, DoneOK
<1> QED
  BY <1>1, <1>15, <1>16, <1>17, <1>18, <1>19, <1>20, <1>21 DEF TarjanInv

(* What Close leaves of the calls, whether or not their node is a root: the   *)
(* caller takes over the low link, and every successor of the nodes from the  *)
(* closed one on has been looked at.                                          *)
LEMMA Closing ==
    ASSUME TarjanInv, Close, NEW L \in Nat, L = Len(calls), NEW v, v = Caller(L)
    PROVE  /\ L \in 1 .. L /\ v \in Node /\ v \in OnStack /\ top[1] = v /\ calls[L][2] = {}
           /\ \A i \in 1 .. L : i # L => i \in 1 .. L - 1 /\ Caller(i) # v /\ indexOf[Caller(i)] < indexOf[v]
           /\ graph' = graph /\ indexOf' = indexOf /\ Node' = Node /\ Numbered' = Numbered
           /\ calls' \in Seq(Node \X SUBSET Node) /\ Len(calls') = L - 1
           /\ \A i \in 1 .. L - 1 : i \in 1 .. L /\ i # L /\ Caller(i)' = Caller(i) /\ calls'[i] = calls[i]
           /\ lowlinks' \in [Node -> Int]
           /\ \A i \in 1 .. L - 1 : i < L - 1 => lowlinks'[Caller(i)] = lowlinks[Caller(i)]
           /\ L > 1 => LET u == Caller(L - 1)
                       IN  /\ lowlinks'[u] <= lowlinks[u] /\ lowlinks'[u] <= lowlinks[v]
                           /\ lowlinks'[u] = lowlinks[u] \/ lowlinks'[u] = lowlinks[v]
           /\ \A a \in Node : Seen(a)' \subseteq Seen(a)
           /\ \A a \in OnStack : indexOf[v] <= indexOf[a] => Seen(a) = graph[a] /\ a \in Part(L)
<1>1. calls # << >> /\ top[2] = {} /\ graph' = graph /\ indexOf' = indexOf /\ calls' = Front(calls)
      /\ lowlinks' = IF Len(calls) = 1 THEN lowlinks
                     ELSE [lowlinks EXCEPT ![Last(Front(calls))[1]] = Min({@, lowlinks[top[1]]})]
  BY DEF Close
<1>2. L \in 1 .. L /\ L > 0 /\ top = calls[L] /\ top[1] = v
  BY <1>1, TopFacts
<1>3. /\ GraphFacts(graph) /\ graph \in [Node -> SUBSET Node]
      /\ \A a \in Numbered : a \in Node /\ indexOf[a] \in Nat
      /\ OnStack \subseteq Numbered
      /\ \A i \in 1 .. L : Caller(i) \in OnStack /\ Caller(i) \in Numbered /\ Caller(i) \in Node
  BY NumberFacts
<1>4. v \in OnStack /\ v \in Node
  BY <1>2, <1>3
<1>5. \A i, j \in 1 .. L : i < j => indexOf[Caller(i)] < indexOf[Caller(j)]
  BY DEF TarjanInv, CallsOK
<1>6. \A i \in 1 .. L : i # L => i \in 1 .. L - 1 /\ Caller(i) # v /\ indexOf[Caller(i)] < indexOf[v]
  <2> TAKE i \in 1 .. L
  <2> HAVE i # L
  <2>1. i < L /\ i \in 1 .. L - 1
    OBVIOUS
  <2>2. indexOf[Caller(i)] < indexOf[v] /\ indexOf[v] \in Nat
    BY <1>2, <1>3, <1>5, <2>1
  <2> QED
    BY <2>1, <2>2
<1>7. Node' = Node /\ Numbered' = Numbered
  BY <1>1 DEF Node, Numbered, Todo
<1>8. calls \in Seq(Node \X SUBSET Node)
  BY DEF TarjanInv, CallsOK
<1>9. /\ calls' \in Seq(Node \X SUBSET Node) /\ Len(calls') = L - 1
      /\ \A i \in 1 .. L - 1 : calls'[i] = calls[i]
  <2>1. Len(calls) > 0
    BY <1>2
  <2> QED
    BY <1>1, <1>8, <2>1, FrontFacts
<1>10. \A i \in 1 .. L - 1 : i \in 1 .. L /\ i # L /\ Caller(i)' = Caller(i) /\ calls'[i] = calls[i]
  BY <1>9 DEF Caller
<1>11. lowlinks \in [Node -> Int]
  BY DEF TarjanInv, NumbersOK
<1>12. \A x, y \in Int : Min({x, y}) \in {x, y} /\ Min({x, y}) <= x /\ Min({x, y}) <= y
  <2> TAKE x, y \in Int
  <2>1. \E z \in {x, y} : \A u \in {x, y} : z <= u
    OBVIOUS
  <2> QED
    BY <2>1 DEF Min
<1>13. ASSUME L > 1
       PROVE  \E u, low : /\ u = Caller(L - 1) /\ u \in Node /\ lowlinks' = [lowlinks EXCEPT ![u] = low]
                          /\ low \in {lowlinks[u], lowlinks[v]} /\ low <= lowlinks[u] /\ low <= lowlinks[v]
                          /\ low \in Int
  <2> DEFINE u == Caller(L - 1)
             low == Min({lowlinks[u], lowlinks[v]})
  <2>1. L - 1 \in 1 .. L /\ L - 1 \in 1 .. L - 1 /\ L # 1
    BY <1>13
  <2>2. u \in Node /\ lowlinks[u] \in Int /\ lowlinks[v] \in Int
    BY <1>3, <1>4, <1>11, <2>1
  <2>3. Last(Front(calls)) = calls[L - 1]
    <3>1. Front(calls) = calls' /\ Len(calls') = L - 1
      BY <1>1, <1>9
    <3> QED
      BY <1>9, <2>1, <3>1 DEF Last
  <2>4. lowlinks' = [lowlinks EXCEPT ![u] = low]
    BY <1>1, <1>2, <2>1, <2>3 DEF Caller
  <2>5. low \in {lowlinks[u], lowlinks[v]} /\ low <= lowlinks[u] /\ low <= lowlinks[v]
    BY <1>12, <2>2
  <2> HIDE DEF low
  <2>6. low \in Int
    BY <2>2, <2>5
  <2> QED
    BY <2>2, <2>4, <2>5, <2>6
<1>14. L > 1 \/ L = 1
  BY <1>2
<1>15. lowlinks' \in [Node -> Int]
  <2>1. CASE L > 1
    BY <1>11, <1>13, <2>1
  <2>2. CASE L = 1
    BY <1>1, <1>11, <2>2
  <2> QED
    BY <1>14, <2>1, <2>2
<1>16. \A i \in 1 .. L - 1 : i < L - 1 => lowlinks'[Caller(i)] = lowlinks[Caller(i)]
  <2> TAKE i \in 1 .. L - 1
  <2> HAVE i < L - 1
  <2>1. L > 1 /\ i \in 1 .. L /\ L - 1 \in 1 .. L
    OBVIOUS
  <2>2. PICK u, low : u = Caller(L - 1) /\ u \in Node /\ lowlinks' = [lowlinks EXCEPT ![u] = low]
    BY <1>13, <2>1
  <2>3. indexOf[Caller(i)] < indexOf[u] /\ indexOf[u] \in Nat
    BY <1>3, <1>5, <2>1, <2>2
  <2>4. Caller(i) # u /\ Caller(i) \in Node
    BY <1>3, <2>1, <2>3
  <2> QED
    BY <1>11, <2>2, <2>4
<1>17. L > 1 => /\ lowlinks'[Caller(L - 1)] <= lowlinks[Caller(L - 1)]
                /\ lowlinks'[Caller(L - 1)] <= lowlinks[v]
                /\ \/ lowlinks'[Caller(L - 1)] = lowlinks[Caller(L - 1)]
                   \/ lowlinks'[Caller(L - 1)] = lowlinks[v]
  <2> HAVE L > 1
  <2>1. PICK u, low : /\ u = Caller(L - 1) /\ u \in Node /\ lowlinks' = [lowlinks EXCEPT ![u] = low]
                      /\ low \in {lowlinks[u], lowlinks[v]} /\ low <= lowlinks[u] /\ low <= lowlinks[v]
    BY <1>13
  <2>2. lowlinks'[u] = low
    BY <1>11, <2>1
  <2> QED
    BY <2>1, <2>2
<1>18. ASSUME NEW a \in Node PROVE Seen(a)' \subseteq Seen(a)
  <2> SUFFICES ASSUME NEW m \in Seen(a)' PROVE m \in Seen(a)
    OBVIOUS
  <2>1. m \in graph[a] /\ \A i \in 1 .. L - 1 : Caller(i) = a => m \notin calls[i][2]
    BY <1>1, <1>9, <1>10 DEF Seen
  <2>2. ASSUME NEW i \in 1 .. L, Caller(i) = a PROVE m \notin calls[i][2]
    <3>1. CASE i = L
      BY <1>1, <1>2, <3>1
    <3>2. CASE i # L
      <4>1. i \in 1 .. L - 1
        BY <3>2
      <4> QED
        BY <2>1, <2>2, <4>1
    <3> QED
      BY <3>1, <3>2
  <2> QED
    BY <2>1, <2>2 DEF Seen
<1>19. ASSUME NEW a \in OnStack, indexOf[v] <= indexOf[a] PROVE Seen(a) = graph[a] /\ a \in Part(L)
  <2>1. a \in Part(L)
    BY <1>19 DEF Part
  <2>2. ASSUME NEW i \in 1 .. L, Caller(i) = a PROVE calls[i][2] = {}
    <3>1. i = L
      <4> SUFFICES ASSUME i # L PROVE FALSE
        OBVIOUS
      <4>1. indexOf[Caller(i)] < indexOf[v] /\ indexOf[v] \in Nat /\ indexOf[a] \in Nat
        BY <1>3, <1>4, <1>6
      <4> QED
        BY <1>19, <2>2, <4>1
    <3> QED
      BY <1>1, <1>2, <3>1
  <2>3. Seen(a) = graph[a]
    BY <2>2 DEF Seen
  <2> QED
    BY <2>1, <2>3
<1> QED
  BY <1>1, <1>2, <1>4, <1>6, <1>7, <1>9, <1>10, <1>15, <1>16, <1>17, <1>18, <1>19

(* A call whose low link is smaller than its number ends. Its node leads to   *)
(* one below it on the stack, and from there to a call that is still under    *)
(* way.                                                                       *)
LEMMA CloseInner ==
    ASSUME TarjanInv, Close, lowlinks[top[1]] # indexOf[top[1]] PROVE TarjanInv'
<1>0. PICK L \in Nat : L = Len(calls)
  BY NumberFacts
<1>v. PICK v : v = Caller(L)
  OBVIOUS
<1>1. /\ L \in 1 .. L /\ v \in Node /\ v \in OnStack /\ top[1] = v /\ calls[L][2] = {}
      /\ \A i \in 1 .. L : i # L => i \in 1 .. L - 1 /\ Caller(i) # v /\ indexOf[Caller(i)] < indexOf[v]
      /\ graph' = graph /\ indexOf' = indexOf /\ Node' = Node /\ Numbered' = Numbered
      /\ calls' \in Seq(Node \X SUBSET Node) /\ Len(calls') = L - 1
      /\ \A i \in 1 .. L - 1 : i \in 1 .. L /\ i # L /\ Caller(i)' = Caller(i) /\ calls'[i] = calls[i]
      /\ lowlinks' \in [Node -> Int]
      /\ \A i \in 1 .. L - 1 : i < L - 1 => lowlinks'[Caller(i)] = lowlinks[Caller(i)]
      /\ \A a \in Node : Seen(a)' \subseteq Seen(a)
  BY <1>0, <1>v, Closing
<1>2. L > 1 => LET u == Caller(L - 1)
               IN  /\ lowlinks'[u] <= lowlinks[u] /\ lowlinks'[u] <= lowlinks[v]
                   /\ lowlinks'[u] = lowlinks[u] \/ lowlinks'[u] = lowlinks[v]
  BY <1>0, <1>v, Closing
<1>3. stack' = stack /\ repeating' = repeating /\ OnStack' = OnStack /\ Done' = Done
  BY <1>1 DEF Close, OnStack, Done
<1>4. /\ GraphFacts(graph) /\ graph \in [Node -> SUBSET Node]
      /\ \A a \in Numbered : a \in Node /\ indexOf[a] \in Nat
      /\ OnStack \subseteq Numbered
      /\ \A i \in 1 .. L : Caller(i) \in OnStack /\ Caller(i) \in Numbered /\ Caller(i) \in Node
  BY <1>0, NumberFacts
<1>5. \A a \in OnStack : a \in Node /\ indexOf[a] \in Nat
  BY <1>4
<1>6. /\ \A a, b \in OnStack : indexOf[a] <= indexOf[b] => Steps(graph, a, b)
      /\ \A a \in OnStack : \E i \in 1 .. L : indexOf[Caller(i)] <= indexOf[a] /\ Steps(graph, a, Caller(i))
  BY <1>0 DEF TarjanInv, Connected
<1>7. \A i \in 1 .. L : \E m \in OnStack : /\ lowlinks[Caller(i)] = indexOf[m] /\ indexOf[m] <= indexOf[Caller(i)]
                                          /\ Steps(graph, Caller(i), m)
  BY <1>0 DEF TarjanInv, LowOK
<1>8. /\ \A i \in 1 .. L : calls[i][2] \subseteq graph[Caller(i)]
      /\ \A i, j \in 1 .. L : i < j => indexOf[Caller(i)] < indexOf[Caller(j)]
      /\ \A i \in 1 .. L - 1 : Caller(i + 1) \in graph[Caller(i)]
  BY <1>0 DEF TarjanInv, CallsOK
<1>9. PICK w \in OnStack : lowlinks[v] = indexOf[w] /\ indexOf[w] < indexOf[v] /\ Steps(graph, v, w)
  <2>1. PICK m \in OnStack : lowlinks[v] = indexOf[m] /\ indexOf[m] <= indexOf[v] /\ Steps(graph, v, m)
    BY <1>1, <1>7, <1>v
  <2>2. indexOf[m] # indexOf[v]
    BY <1>1, <2>1
  <2> QED
    BY <1>1, <1>5, <2>1, <2>2
<1>10. PICK j \in 1 .. L - 1 : indexOf[Caller(j)] <= indexOf[w] /\ Steps(graph, w, Caller(j))
  <2>1. PICK i \in 1 .. L : indexOf[Caller(i)] <= indexOf[w] /\ Steps(graph, w, Caller(i))
    BY <1>6
  <2>2. i # L
    BY <1>1, <1>5, <1>9, <1>v, <2>1
  <2> QED
    BY <1>1, <2>1, <2>2
<1>11. L > 1 /\ L - 1 \in 1 .. L - 1 /\ L - 1 \in 1 .. L
  OBVIOUS
<1>steps. /\ \A n, m, k \in Node : Steps(graph, n, m) /\ Steps(graph, m, k) => Steps(graph, n, k)
       /\ \A n \in Node : \A m \in graph[n] : Steps(graph, n, m)
  BY <1>4, StepsFacts
<1>12. NumbersOK'
  BY <1>1 DEF TarjanInv, NumbersOK
<1>13. StackOK'
  BY <1>1, <1>3 DEF TarjanInv, StackOK
<1>14. CallsOK'
  <2>1. \A i \in 1 .. L - 1 : Caller(i)' \in OnStack' /\ calls'[i][2] \subseteq graph'[Caller(i)']
    <3> TAKE i \in 1 .. L - 1
    <3>1. i \in 1 .. L /\ Caller(i)' = Caller(i) /\ calls'[i] = calls[i]
      BY <1>1
    <3>2. Caller(i) \in OnStack /\ calls[i][2] \subseteq graph[Caller(i)]
      BY <1>4, <1>8, <3>1
    <3> QED
      BY <1>1, <1>3, <3>1, <3>2
  <2>2. \A i, k \in 1 .. L - 1 : i < k => indexOf'[Caller(i)'] < indexOf'[Caller(k)']
    <3> TAKE i, k \in 1 .. L - 1
    <3>1. /\ i \in 1 .. L /\ k \in 1 .. L /\ indexOf' = indexOf
          /\ Caller(i)' = Caller(i) /\ Caller(k)' = Caller(k)
      BY <1>1
    <3> QED
      BY <1>8, <3>1
  <2>3. \A i \in 1 .. (L - 1) - 1 : Caller(i + 1)' \in graph'[Caller(i)']
    <3> TAKE i \in 1 .. (L - 1) - 1
    <3>1. i \in 1 .. L - 1 /\ i + 1 \in 1 .. L - 1
      OBVIOUS
    <3> QED
      BY <1>1, <1>8, <3>1
  <2> QED
    BY <1>1, <2>1, <2>2, <2>3 DEF CallsOK
<1>15. Connected'
  <2>1. ASSUME NEW a \in OnStack
        PROVE  \E i \in 1 .. L - 1 : indexOf[Caller(i)] <= indexOf[a] /\ Steps(graph, a, Caller(i))
    <3>1. PICK i \in 1 .. L : indexOf[Caller(i)] <= indexOf[a] /\ Steps(graph, a, Caller(i))
      BY <1>6
    <3>2. CASE i = L
      <4>1. indexOf[v] <= indexOf[a] /\ Steps(graph, a, v)
        BY <1>v, <3>1, <3>2
      <4>2. /\ a \in Node /\ w \in Node /\ v \in Node /\ Caller(j) \in Node
            /\ indexOf[a] \in Nat /\ indexOf[w] \in Nat /\ indexOf[v] \in Nat /\ indexOf[Caller(j)] \in Nat
        <5>1. j \in 1 .. L
          BY <1>1
        <5> QED
          BY <1>1, <1>4, <1>5, <5>1
      <4>3. Steps(graph, a, w)
        <5>1. Steps(graph, a, v) /\ Steps(graph, v, w)
          BY <1>9, <4>1
        <5> QED
          BY <1>steps, <4>2, <5>1
      <4>4. Steps(graph, a, Caller(j))
        BY <1>10, <1>steps, <4>2, <4>3
      <4>5. indexOf[Caller(j)] <= indexOf[a]
        BY <1>9, <1>10, <4>1, <4>2
      <4> QED
        BY <4>4, <4>5
    <3>3. CASE i # L
      BY <1>1, <3>1, <3>3
    <3> QED
      BY <3>2, <3>3
  <2>2. \A a, b \in OnStack' : indexOf'[a] <= indexOf'[b] => Steps(graph', a, b)
    BY <1>1, <1>3, <1>6
  <2>3. \A a \in OnStack' : \E i \in 1 .. Len(calls') :
            indexOf'[Caller(i)'] <= indexOf'[a] /\ Steps(graph', a, Caller(i)')
    <3> SUFFICES ASSUME NEW a \in OnStack
                 PROVE  \E i \in 1 .. L - 1 : indexOf[Caller(i)'] <= indexOf[a] /\ Steps(graph, a, Caller(i)')
      BY <1>1, <1>3
    <3> QED
      BY <1>1, <2>1
  <2> QED
    BY <2>2, <2>3 DEF Connected
<1>16. LowOK'
  <2> SUFFICES ASSUME NEW i \in 1 .. L - 1
               PROVE  \E m \in OnStack : /\ lowlinks'[Caller(i)] = indexOf[m] /\ indexOf[m] <= indexOf[Caller(i)]
                                        /\ Steps(graph, Caller(i), m)
    <3>1. \A i \in 1 .. L - 1 : Caller(i)' = Caller(i)
      BY <1>1
    <3>2. Len(calls') = L - 1 /\ graph' = graph /\ indexOf' = indexOf /\ OnStack' = OnStack
      BY <1>1, <1>3
    <3> QED
      BY <3>1, <3>2 DEF LowOK
  <2>0. i \in 1 .. L /\ Caller(i) \in Node /\ indexOf[Caller(i)] \in Nat
    BY <1>1, <1>4
  <2>1. PICK m \in OnStack : /\ lowlinks[Caller(i)] = indexOf[m] /\ indexOf[m] <= indexOf[Caller(i)]
                             /\ Steps(graph, Caller(i), m)
    BY <1>7, <2>0
  <2>2. CASE lowlinks'[Caller(i)] = lowlinks[Caller(i)]
    BY <2>1, <2>2
  <2>3. CASE lowlinks'[Caller(i)] # lowlinks[Caller(i)]
    <3>1. i = L - 1
      <4>1. ~(i < L - 1)
        BY <1>1, <2>3
      <4> QED
        BY <4>1
    <3>2. lowlinks'[Caller(i)] = indexOf[w] /\ indexOf[w] <= indexOf[m]
      <4>1. lowlinks'[Caller(i)] <= lowlinks[Caller(i)] /\ lowlinks'[Caller(i)] = lowlinks[v]
        BY <1>2, <1>11, <2>3, <3>1
      <4> QED
        BY <1>9, <2>1, <4>1
    <3>3. indexOf[w] <= indexOf[Caller(i)]
      BY <1>5, <2>0, <2>1, <3>2
    <3>4. v \in graph[Caller(i)]
      BY <1>8, <1>v, <3>1
    <3>5. Steps(graph, Caller(i), w)
      <4>1. Steps(graph, Caller(i), v) /\ w \in Node /\ v \in Node
        BY <1>1, <1>5, <1>steps, <2>0, <3>4
      <4> QED
        BY <1>9, <1>steps, <2>0, <4>1
    <3> QED
      BY <3>2, <3>3, <3>5
  <2> QED
    BY <2>2, <2>3
<1>17. LookedAt'
  <2>0. /\ \A a \in Numbered : Seen(a) \subseteq Numbered
        /\ \A i \in 1 .. L : \A a \in Part(i) : \A m \in Seen(a) \cap OnStack :
              lowlinks[Caller(i)] <= indexOf[m]
    BY <1>0 DEF TarjanInv, LookedAt
  <2>1. \A a \in Numbered : Seen(a)' \subseteq Numbered
    BY <1>1, <1>4, <2>0
  <2>2. ASSUME NEW i \in 1 .. L - 1, NEW a \in Part(i)', NEW m \in Seen(a)' \cap OnStack
        PROVE  lowlinks'[Caller(i)] <= indexOf[m]
    <3>1. a \in OnStack /\ indexOf[Caller(i)] <= indexOf[a]
      BY <1>1, <1>3 DEF Part
    <3>2. i \in 1 .. L /\ m \in Seen(a) /\ m \in OnStack /\ indexOf[m] \in Nat
      BY <1>1, <1>5, <2>2, <3>1
    <3>3. CASE i < L - 1
      <4>1. i + 1 \in 1 .. L - 1 /\ i < L
        BY <3>3
      <4>2. indexOf[a] < indexOf[Caller(i + 1)]
        BY <1>1, <3>3, <4>1 DEF Part
      <4>3. a \in Part(i)
        BY <3>1, <4>2 DEF Part
      <4> QED
        BY <1>1, <2>0, <3>2, <3>3, <4>3
    <3>4. CASE i = L - 1
      <4>0. i + 1 = L
        BY <3>4
      <4> DEFINE u == Caller(i)
      <4>1. /\ lowlinks'[u] <= lowlinks[u] /\ lowlinks'[u] <= lowlinks[v]
        BY <1>2, <1>11, <3>4
      <4>2. lowlinks'[u] \in Int /\ lowlinks[u] \in Int /\ lowlinks[v] \in Int
        <5>1. u \in Node /\ v \in Node
          BY <1>1, <1>4, <3>2
        <5> QED
          BY <1>1, <5>1 DEF TarjanInv, NumbersOK
      <4>3. CASE indexOf[v] <= indexOf[a]
        <5>1. a \in Part(L)
          BY <1>0, <1>v, <3>1, <4>3, Closing
        <5>2. lowlinks[v] <= indexOf[m]
          BY <1>1, <1>v, <2>0, <3>2, <5>1
        <5> QED
          BY <3>2, <4>1, <4>2, <5>2
      <4>4. CASE ~(indexOf[v] <= indexOf[a])
        <5>1. indexOf[a] < indexOf[Caller(i + 1)]
          BY <1>1, <1>5, <1>v, <3>1, <4>0, <4>4
        <5>2. a \in Part(i)
          BY <3>1, <5>1 DEF Part
        <5>3. lowlinks[u] <= indexOf[m]
          BY <2>0, <3>2, <5>2
        <5> QED
          BY <3>2, <4>1, <4>2, <5>3
      <4> QED
        BY <4>3, <4>4
    <3>5. i < L - 1 \/ i = L - 1
      OBVIOUS
    <3> QED
      BY <3>3, <3>4, <3>5
  <2> QED
    BY <1>1, <1>3, <2>1, <2>2 DEF LookedAt
<1>18. DoneOK'
  BY <1>1, <1>3 DEF TarjanInv, DoneOK
<1>19. graph' \in Graphs
  BY <1>1 DEF TarjanInv
<1> QED
  BY <1>12, <1>13, <1>14, <1>15, <1>16, <1>17, <1>18, <1>19 DEF TarjanInv

(* Popping the stack down to a node leaves the nodes with smaller numbers.    *)
LEMMA Popping ==
    ASSUME TarjanInv, NEW v \in OnStack, NEW p, p = CHOOSE i \in DOMAIN stack : stack[i] = v,
           stack' = SubSeq(stack, 1, p - 1)
    PROVE  /\ {stack[i] : i \in p .. Len(stack)} = {a \in OnStack : indexOf[v] <= indexOf[a]}
           /\ OnStack' = {a \in OnStack : indexOf[a] < indexOf[v]}
           /\ stack' \in Seq(Numbered)
           /\ \A i, j \in 1 .. Len(stack') : i < j => indexOf[stack'[i]] < indexOf[stack'[j]]
<1>1. /\ stack \in Seq(Numbered)
      /\ \A i, j \in 1 .. Len(stack) : i < j => indexOf[stack[i]] < indexOf[stack[j]]
  BY DEF TarjanInv, StackOK
<1>M. PICK M \in Nat : M = Len(stack) /\ DOMAIN stack = 1 .. M
  BY <1>1
<1>2. \A a : a \in OnStack <=> \E i \in 1 .. M : stack[i] = a
  BY <1>M DEF OnStack, Range
<1>3. p \in 1 .. M /\ stack[p] = v
  <2>1. \E i \in DOMAIN stack : stack[i] = v
    BY <1>2, <1>M
  <2> QED
    BY <1>M, <2>1
<1>4. \A i \in 1 .. M : stack[i] \in Numbered /\ indexOf[stack[i]] \in Nat
  BY <1>1, <1>M, NumberFacts
<1>5. \A i \in 1 .. M : i >= p <=> indexOf[v] <= indexOf[stack[i]]
  <2> TAKE i \in 1 .. M
  <2>1. indexOf[stack[i]] \in Nat /\ indexOf[v] \in Nat
    BY <1>3, <1>4
  <2>2. CASE i < p
    BY <1>1, <1>3, <1>M, <2>1, <2>2
  <2>3. CASE i = p
    BY <1>3, <2>1, <2>3
  <2>4. CASE i > p
    BY <1>1, <1>3, <1>M, <2>1, <2>4
  <2> QED
    BY <1>3, <2>2, <2>3, <2>4
<1>6. {stack[i] : i \in p .. Len(stack)} = {a \in OnStack : indexOf[v] <= indexOf[a]}
  <2>1. \A a : a \in {stack[i] : i \in p .. Len(stack)} <=> a \in OnStack /\ indexOf[v] <= indexOf[a]
    <3> TAKE a
    <3>1. a \in {stack[i] : i \in p .. Len(stack)} <=> \E i \in p .. M : stack[i] = a
      BY <1>M
    <3>2. ASSUME NEW i \in p .. M, stack[i] = a PROVE a \in OnStack /\ indexOf[v] <= indexOf[a]
      <4>1. i \in 1 .. M /\ i >= p
        BY <1>3, <3>2
      <4> QED
        BY <1>2, <1>5, <3>2, <4>1
    <3>3. ASSUME a \in OnStack, indexOf[v] <= indexOf[a] PROVE \E i \in p .. M : stack[i] = a
      <4>1. PICK i \in 1 .. M : stack[i] = a
        BY <1>2, <3>3
      <4>2. i >= p /\ i \in p .. M
        BY <1>3, <1>5, <3>3, <4>1
      <4> QED
        BY <4>1, <4>2
    <3> QED
      BY <3>1, <3>2, <3>3
  <2> QED
    BY <2>1
<1>7. PICK q \in Nat : q = p - 1 /\ q <= M /\ q < p
  <2>1. p \in Int /\ 1 <= p /\ p <= M
    BY <1>3
  <2>2. p - 1 \in Nat /\ p - 1 <= M /\ p - 1 < p
    BY <2>1
  <2> QED
    BY <2>2
<1>8. stack' \in Seq(Numbered) /\ Len(stack') = q /\ \A i \in 1 .. q : stack'[i] = stack[i]
  <2>1. stack' = SubSeq(stack, 1, q)
    BY <1>7
  <2>2. q \in Nat /\ q <= Len(stack) /\ stack \in Seq(Numbered)
    BY <1>1, <1>M, <1>7
  <2>3. /\ SubSeq(stack, 1, q) \in Seq(Numbered) /\ Len(SubSeq(stack, 1, q)) = q
        /\ \A i \in 1 .. q : SubSeq(stack, 1, q)[i] = stack[i]
    BY <2>2
  <2> QED
    BY <2>1, <2>3
<1>9. OnStack' = {a \in OnStack : indexOf[a] < indexOf[v]}
  <2>1. DOMAIN stack' = 1 .. q
    BY <1>8
  <2>2. \A a : a \in OnStack' <=> \E i \in 1 .. q : stack'[i] = a
    <3>1. OnStack' = {stack'[i] : i \in DOMAIN stack'}
      BY DEF OnStack, Range
    <3> QED
      BY <2>1, <3>1
  <2>3. \A i \in 1 .. M : i \in 1 .. q <=> indexOf[stack[i]] < indexOf[v]
    <3> TAKE i \in 1 .. M
    <3>1. i \in 1 .. q <=> ~(i >= p)
      <4>1. p \in Int /\ q = p - 1 /\ q \in Nat
        BY <1>3, <1>7
      <4> QED
        BY <4>1
    <3>2. indexOf[stack[i]] \in Nat /\ indexOf[v] \in Nat
      BY <1>3, <1>4
    <3> QED
      BY <1>5, <3>1, <3>2
  <2>4. \A i \in 1 .. q : i \in 1 .. M
    BY <1>7
  <2>5. \A a : a \in OnStack' <=> a \in OnStack /\ indexOf[a] < indexOf[v]
    <3> TAKE a
    <3>1. ASSUME NEW i \in 1 .. q, stack'[i] = a PROVE a \in OnStack /\ indexOf[a] < indexOf[v]
      BY <1>2, <1>8, <2>3, <2>4, <3>1
    <3>2. ASSUME a \in OnStack, indexOf[a] < indexOf[v] PROVE \E i \in 1 .. q : stack'[i] = a
      <4>1. PICK i \in 1 .. M : stack[i] = a
        BY <1>2, <3>2
      <4> QED
        BY <1>8, <2>3, <3>2, <4>1
    <3> QED
      BY <2>2, <3>1, <3>2
  <2> QED
    BY <2>5
<1>10. \A i, j \in 1 .. Len(stack') : i < j => indexOf[stack'[i]] < indexOf[stack'[j]]
  <2>1. \A i \in 1 .. q : i \in 1 .. M
    BY <1>7
  <2> QED
    BY <1>1, <1>M, <1>8, <2>1
<1> QED
  BY <1>6, <1>8, <1>9, <1>10

(* A call whose low link is its own number ends. The nodes popped lead to     *)
(* each other, and to nothing that is not popped or finished: they are a      *)
(* strongly connected component.                                              *)
LEMMA CloseRoot ==
    ASSUME TarjanInv, Close, lowlinks[top[1]] = indexOf[top[1]] PROVE TarjanInv'
<1>0. PICK L \in Nat : L = Len(calls)
  BY NumberFacts
<1>v. PICK v : v = Caller(L)
  OBVIOUS
<1>1. /\ L \in 1 .. L /\ v \in Node /\ v \in OnStack /\ top[1] = v /\ calls[L][2] = {}
      /\ \A i \in 1 .. L : i # L => i \in 1 .. L - 1 /\ Caller(i) # v /\ indexOf[Caller(i)] < indexOf[v]
      /\ graph' = graph /\ indexOf' = indexOf /\ Node' = Node /\ Numbered' = Numbered
      /\ calls' \in Seq(Node \X SUBSET Node) /\ Len(calls') = L - 1
      /\ \A i \in 1 .. L - 1 : i \in 1 .. L /\ i # L /\ Caller(i)' = Caller(i) /\ calls'[i] = calls[i]
      /\ lowlinks' \in [Node -> Int]
      /\ \A i \in 1 .. L - 1 : i < L - 1 => lowlinks'[Caller(i)] = lowlinks[Caller(i)]
      /\ \A a \in Node : Seen(a)' \subseteq Seen(a)
  BY <1>0, <1>v, Closing
<1>2. L > 1 => LET u == Caller(L - 1)
               IN  /\ lowlinks'[u] <= lowlinks[u] /\ lowlinks'[u] <= lowlinks[v]
                   /\ lowlinks'[u] = lowlinks[u] \/ lowlinks'[u] = lowlinks[v]
  BY <1>0, <1>v, Closing
<1>3. \A a \in OnStack : indexOf[v] <= indexOf[a] => Seen(a) = graph[a] /\ a \in Part(L)
  BY <1>0, <1>v, Closing
<1>4. /\ GraphFacts(graph) /\ graph \in [Node -> SUBSET Node]
      /\ \A a \in Numbered : a \in Node /\ indexOf[a] \in Nat
      /\ OnStack \subseteq Numbered
      /\ \A i \in 1 .. L : Caller(i) \in OnStack /\ Caller(i) \in Numbered /\ Caller(i) \in Node
  BY <1>0, NumberFacts
<1>5. \A a \in OnStack : a \in Node /\ indexOf[a] \in Nat
  BY <1>4
<1>6. /\ \A a, b \in OnStack : indexOf[a] <= indexOf[b] => Steps(graph, a, b)
      /\ \A a \in OnStack : \E i \in 1 .. L : indexOf[Caller(i)] <= indexOf[a] /\ Steps(graph, a, Caller(i))
  BY <1>0 DEF TarjanInv, Connected
<1>7. \A i \in 1 .. L : \E m \in OnStack : /\ lowlinks[Caller(i)] = indexOf[m] /\ indexOf[m] <= indexOf[Caller(i)]
                                          /\ Steps(graph, Caller(i), m)
  BY <1>0 DEF TarjanInv, LowOK
<1>8. /\ \A i \in 1 .. L : calls[i][2] \subseteq graph[Caller(i)]
      /\ \A i, j \in 1 .. L : i < j => indexOf[Caller(i)] < indexOf[Caller(j)]
      /\ \A i \in 1 .. L - 1 : Caller(i + 1) \in graph[Caller(i)]
  BY <1>0 DEF TarjanInv, CallsOK
<1>9. /\ \A n, m, k \in Node : Steps(graph, n, m) /\ Steps(graph, m, k) => Steps(graph, n, k)
      /\ \A n, m \in Node : n # m /\ Steps(graph, n, m) /\ Steps(graph, m, n) => n \in Reached(graph, n)
  BY <1>4, StepsFacts
<1> DEFINE p == CHOOSE i \in DOMAIN stack : stack[i] = v
           scc == {stack[i] : i \in p .. Len(stack)}
<1>10. /\ lowlinks[v] = indexOf[v] /\ stack' = SubSeq(stack, 1, p - 1)
       /\ repeating' = IF Cardinality(scc) > 1 THEN repeating \cup scc ELSE repeating
  BY <1>1 DEF Close
<1>11. /\ scc = {a \in OnStack : indexOf[v] <= indexOf[a]}
       /\ OnStack' = {a \in OnStack : indexOf[a] < indexOf[v]}
       /\ stack' \in Seq(Numbered)
       /\ \A i, j \in 1 .. Len(stack') : i < j => indexOf[stack'[i]] < indexOf[stack'[j]]
  BY <1>1, <1>10, Popping
<1> HIDE DEF p, scc
<1>12. Done' = Done \cup scc
  <2>1. \A a : a \in Done' <=> a \in Done \/ a \in scc
    BY <1>1, <1>4, <1>5, <1>11 DEF Done
  <2> QED
    BY <2>1
<1>13. \A i \in 1 .. L - 1 : lowlinks'[Caller(i)] = lowlinks[Caller(i)]
  <2> TAKE i \in 1 .. L - 1
  <2>1. CASE i < L - 1
    BY <1>1, <2>1
  <2>2. CASE i = L - 1
    <3>1. L > 1 /\ i \in 1 .. L /\ i # L
      BY <2>2
    <3>2. PICK m \in OnStack : lowlinks[Caller(i)] = indexOf[m] /\ indexOf[m] <= indexOf[Caller(i)]
      BY <1>7, <3>1
    <3>3. lowlinks'[Caller(i)] <= lowlinks[Caller(i)]
          /\ (lowlinks'[Caller(i)] = lowlinks[Caller(i)] \/ lowlinks'[Caller(i)] = lowlinks[v])
      BY <1>2, <2>2, <3>1
    <3>4. indexOf[Caller(i)] < indexOf[v] /\ indexOf[m] \in Nat /\ indexOf[v] \in Nat /\ indexOf[Caller(i)] \in Nat
      BY <1>1, <1>4, <1>5, <3>1
    <3> QED
      BY <1>10, <3>2, <3>3, <3>4
  <2> QED
    BY <2>1, <2>2
<1>14. NumbersOK'
  BY <1>1 DEF TarjanInv, NumbersOK
<1>15. StackOK'
  BY <1>1, <1>11 DEF StackOK
<1>16. CallsOK'
  <2>1. \A i \in 1 .. L - 1 : Caller(i)' \in OnStack' /\ calls'[i][2] \subseteq graph'[Caller(i)']
    <3> TAKE i \in 1 .. L - 1
    <3>1. i \in 1 .. L /\ i # L /\ Caller(i)' = Caller(i) /\ calls'[i] = calls[i] /\ graph' = graph
      BY <1>1
    <3>2. Caller(i) \in OnStack /\ indexOf[Caller(i)] < indexOf[v]
      BY <1>1, <1>4, <3>1
    <3> QED
      BY <1>8, <1>11, <3>1, <3>2
  <2>2. \A i, k \in 1 .. L - 1 : i < k => indexOf'[Caller(i)'] < indexOf'[Caller(k)']
    <3>1. \A i \in 1 .. L - 1 : i \in 1 .. L /\ Caller(i)' = Caller(i)
      BY <1>1
    <3>2. indexOf' = indexOf /\ \A i, k \in 1 .. L : i < k => indexOf[Caller(i)] < indexOf[Caller(k)]
      BY <1>1, <1>8
    <3> QED
      BY <3>1, <3>2
  <2>3. \A i \in 1 .. (L - 1) - 1 : Caller(i + 1)' \in graph'[Caller(i)']
    <3> TAKE i \in 1 .. (L - 1) - 1
    <3>1. i \in 1 .. L - 1 /\ i + 1 \in 1 .. L - 1
      OBVIOUS
    <3> QED
      BY <1>1, <1>8, <3>1
  <2> QED
    BY <1>1, <2>1, <2>2, <2>3 DEF CallsOK
<1>17. Connected'
  <2>1. \A a, b \in OnStack' : indexOf'[a] <= indexOf'[b] => Steps(graph', a, b)
    BY <1>1, <1>6, <1>11
  <2>2. ASSUME NEW a \in OnStack'
        PROVE  \E i \in 1 .. L - 1 : indexOf[Caller(i)'] <= indexOf[a] /\ Steps(graph, a, Caller(i)')
    <3>1. a \in OnStack /\ indexOf[a] < indexOf[v]
      BY <1>11
    <3>2. PICK i \in 1 .. L : indexOf[Caller(i)] <= indexOf[a] /\ Steps(graph, a, Caller(i))
      BY <1>6, <3>1
    <3>3. i # L
      <4>1. indexOf[a] \in Nat /\ indexOf[v] \in Nat
        BY <1>1, <1>5, <3>1
      <4> QED
        BY <1>v, <3>1, <3>2, <4>1
    <3> QED
      BY <1>1, <3>2, <3>3
  <2>3. \A a \in OnStack' : \E i \in 1 .. Len(calls') :
            indexOf'[Caller(i)'] <= indexOf'[a] /\ Steps(graph', a, Caller(i)')
    BY <1>1, <2>2
  <2> QED
    BY <2>1, <2>3 DEF Connected
<1>18. LowOK'
  <2> SUFFICES ASSUME NEW i \in 1 .. L - 1
               PROVE  \E m \in OnStack' : /\ lowlinks'[Caller(i)] = indexOf[m] /\ indexOf[m] <= indexOf[Caller(i)]
                                         /\ Steps(graph, Caller(i), m)
    BY <1>1 DEF LowOK
  <2>1. i \in 1 .. L /\ i # L
    OBVIOUS
  <2>2. PICK m \in OnStack : /\ lowlinks[Caller(i)] = indexOf[m] /\ indexOf[m] <= indexOf[Caller(i)]
                             /\ Steps(graph, Caller(i), m)
    BY <1>7, <2>1
  <2>3. m \in OnStack'
    <3>1. indexOf[Caller(i)] < indexOf[v] /\ indexOf[m] \in Nat /\ indexOf[v] \in Nat /\ indexOf[Caller(i)] \in Nat
      BY <1>1, <1>4, <1>5, <2>1
    <3> QED
      BY <1>11, <2>2, <3>1
  <2> QED
    BY <1>13, <2>2, <2>3
<1>19. /\ \A a \in Numbered : Seen(a) \subseteq Numbered
       /\ \A i \in 1 .. L : \A a \in Part(i) : \A m \in Seen(a) \cap OnStack :
             lowlinks[Caller(i)] <= indexOf[m]
  BY <1>0 DEF TarjanInv, LookedAt
<1>20. LookedAt'
  <2>1. \A a \in Numbered : Seen(a)' \subseteq Numbered
    BY <1>1, <1>4, <1>19
  <2>2. ASSUME NEW i \in 1 .. L - 1, NEW a \in Part(i)', NEW m \in Seen(a)' \cap OnStack'
        PROVE  lowlinks'[Caller(i)] <= indexOf[m]
    <3>1. /\ a \in OnStack /\ indexOf[a] < indexOf[v] /\ indexOf[Caller(i)] <= indexOf[a]
          /\ i < L - 1 => indexOf[a] < indexOf[Caller(i + 1)']
      BY <1>1, <1>11 DEF Part
    <3>2. i \in 1 .. L /\ m \in Seen(a) /\ m \in OnStack
      BY <1>1, <1>5, <1>11, <2>2, <3>1
    <3>3. ASSUME i < L PROVE indexOf[a] < indexOf[Caller(i + 1)]
      <4>1. CASE i < L - 1
        <5>1. i + 1 \in 1 .. L - 1
          BY <4>1
        <5> QED
          BY <1>1, <3>1, <4>1, <5>1
      <4>2. CASE i = L - 1
        <5>1. i + 1 = L
          BY <4>2
        <5> QED
          BY <1>v, <3>1, <5>1
      <4> QED
        BY <4>1, <4>2
    <3>4. a \in Part(i)
      BY <1>0, <3>1, <3>3 DEF Part
    <3> QED
      BY <1>13, <1>19, <3>2, <3>4
  <2> QED
    BY <1>1, <2>1, <2>2 DEF LookedAt
<1>21. /\ repeating \subseteq Node
       /\ \A n \in Done : graph[n] \subseteq Done
       /\ \A n \in Done : n \in Reached(graph, n) => n \in repeating \/ n \in graph[n]
       /\ \A n \in repeating : n \in Reached(graph, n)
  BY DEF TarjanInv, DoneOK
<1>22. \A a \in scc : a \in OnStack /\ indexOf[v] <= indexOf[a] /\ a \in Node
  BY <1>5, <1>11
<1>23. \A a \in scc : graph[a] \subseteq Done \cup scc
  <2> SUFFICES ASSUME NEW a \in scc, NEW m \in graph[a], m \notin Done PROVE m \in scc
    OBVIOUS
  <2>1. Seen(a) = graph[a] /\ a \in Part(L) /\ a \in Numbered
    BY <1>3, <1>4, <1>22
  <2>2. m \in Numbered /\ m \in OnStack
    BY <1>19, <2>1 DEF Done
  <2>3. lowlinks[v] <= indexOf[m]
    BY <1>1, <1>v, <1>19, <2>1, <2>2
  <2> QED
    BY <1>10, <1>11, <2>2, <2>3
<1>24. \A a \in scc : Steps(graph, v, a) /\ Steps(graph, a, v)
  <2> TAKE a \in scc
  <2>1. a \in OnStack /\ indexOf[v] <= indexOf[a] /\ a \in Node
    BY <1>22
  <2>2. Steps(graph, v, a)
    BY <1>1, <1>6, <2>1
  <2>3. PICK i \in 1 .. L : Steps(graph, a, Caller(i))
    BY <1>6, <2>1
  <2>4. Caller(i) \in Node /\ Caller(i) \in OnStack
    BY <1>4
  <2>5. indexOf[Caller(i)] <= indexOf[v]
    <3>1. indexOf[Caller(i)] \in Nat /\ indexOf[v] \in Nat
      BY <1>1, <1>5, <2>4
    <3>2. CASE i = L
      BY <1>v, <3>1, <3>2
    <3>3. CASE i # L
      BY <1>1, <3>1, <3>3
    <3> QED
      BY <3>2, <3>3
  <2>6. Steps(graph, Caller(i), v)
    BY <1>1, <1>6, <2>4, <2>5
  <2> QED
    BY <1>1, <1>9, <2>1, <2>2, <2>3, <2>4, <2>6
<1>25. v \in scc
  BY <1>1, <1>5, <1>11
<1>26. IsFiniteSet(scc)
  <2>1. IsFiniteSet(Node) /\ scc \in SUBSET Node
    BY <1>4, <1>22 DEF GraphFacts, Node
  <2> QED
    BY <2>1, FS_Subset
<1>27. ASSUME Cardinality(scc) > 1, NEW a \in scc PROVE a \in Reached(graph, a)
  <2>1. PICK b \in scc : b # a
    <3> SUFFICES ASSUME \A b \in scc : b = a PROVE FALSE
      OBVIOUS
    <3>1. scc = {a}
      OBVIOUS
    <3>2. Cardinality(scc) = 1
      BY <3>1, FS_Singleton
    <3> QED
      BY <1>27, <3>2
  <2>2. a \in Node /\ b \in Node
    BY <1>22
  <2>3. Steps(graph, a, v) /\ Steps(graph, v, a) /\ Steps(graph, b, v) /\ Steps(graph, v, b)
    BY <1>24
  <2>4. Steps(graph, a, b) /\ Steps(graph, b, a)
    BY <1>1, <1>9, <2>2, <2>3
  <2> QED
    BY <1>9, <2>1, <2>2, <2>4
<1>single. ASSUME ~(Cardinality(scc) > 1) PROVE scc = {v}
  <2>1. {v} \in SUBSET scc /\ Cardinality({v}) = 1 /\ Cardinality(scc) \in Nat
    BY <1>25, <1>26, FS_Singleton, FS_CardinalityType
  <2>2. Cardinality({v}) <= Cardinality(scc) /\ (Cardinality(scc) = Cardinality({v}) => scc = {v})
    BY <1>26, <2>1, FS_Subset
  <2> QED
    BY <1>single, <2>1, <2>2
<1>28. ASSUME ~(Cardinality(scc) > 1), v \notin graph[v] PROVE v \notin Reached(graph, v)
  <2>1. scc = {v}
    BY <1>28, <1>single
  <2>2. graph[v] \subseteq Done
    BY <1>23, <1>28, <2>1
  <2>3. Done \in SUBSET Node /\ v \notin Done /\ Closed(graph, Done)
    BY <1>1, <1>4, <1>21 DEF Done, Closed
  <2>4. \A S \in SUBSET Node : graph[v] \subseteq S /\ Closed(graph, S) => Reached(graph, v) \subseteq S
    <3>1. v \in Node /\ graph \in [Node -> SUBSET Node]
      BY <1>1, <1>4
    <3> QED
      BY <3>1, ReachedFacts
  <2> QED
    BY <2>2, <2>3, <2>4
<1>29. DoneOK'
  <2>1. repeating' \subseteq Node /\ \A n \in repeating' : n \in Reached(graph, n)
    BY <1>10, <1>21, <1>22, <1>27
  <2>2. \A n \in Done' : graph[n] \subseteq Done'
    BY <1>12, <1>21, <1>23
  <2>3. ASSUME NEW n \in Done', n \in Reached(graph, n) PROVE n \in repeating' \/ n \in graph[n]
    <3>1. CASE n \in Done
      BY <1>10, <1>21, <2>3, <3>1
    <3>2. CASE n \in scc
      <4>1. CASE Cardinality(scc) > 1
        BY <1>10, <3>2, <4>1
      <4>2. CASE ~(Cardinality(scc) > 1)
        <5>1. n = v
          BY <1>single, <3>2, <4>2
        <5> QED
          BY <1>28, <2>3, <4>2, <5>1
      <4> QED
        BY <4>1, <4>2
    <3> QED
      BY <1>12, <3>1, <3>2
  <2> QED
    BY <1>1, <2>1, <2>2, <2>3 DEF DoneOK
<1>30. graph' \in Graphs
  BY <1>1 DEF TarjanInv
<1> QED
  BY <1>14, <1>15, <1>16, <1>17, <1>18, <1>20, <1>29, <1>30 DEF TarjanInv

(* A call ends.                                                               *)
LEMMA CloseKeeps == ASSUME TarjanInv, Close PROVE TarjanInv'
  BY CloseInner, CloseRoot

(* Before the search no node is numbered.                                     *)
LEMMA TarjanInit == ASSUME Init PROVE TarjanInv
<1>1. /\ graph \in Graphs /\ calls = << >> /\ stack = << >> /\ repeating = {}
      /\ indexOf = [n \in Node |-> -1] /\ lowlinks = [n \in Node |-> -1]
  BY DEF Init
<1>2. Numbered = {} /\ OnStack = {} /\ Done = {}
  BY <1>1 DEF Numbered, Todo, OnStack, Range, Done
<1>3. Len(calls) = 0 /\ Len(stack) = 0
  BY <1>1
<1>4. \A i \in 1 .. 0 : FALSE
  OBVIOUS
<1>5. NumbersOK
  BY <1>1, <1>2 DEF NumbersOK
<1>6. StackOK
  BY <1>1, <1>3 DEF StackOK
<1>7. CallsOK
  <2>1. calls \in Seq(Node \X SUBSET Node)
    BY <1>1
  <2>2. \A i \in 1 .. 0 - 1 : FALSE
    OBVIOUS
  <2> QED
    BY <1>3, <2>1, <2>2 DEF CallsOK
<1>8. Connected /\ LowOK /\ LookedAt /\ DoneOK
  BY <1>1, <1>2, <1>3 DEF Connected, LowOK, LookedAt, DoneOK
<1> QED
  BY <1>1, <1>5, <1>6, <1>7, <1>8 DEF TarjanInv

(* The invariant depends on the graph and on Tarjan's variables only.         *)
LEMMA TarjanUnchanged == ASSUME TarjanInv, UNCHANGED <<graph, tarjanVars>> PROVE TarjanInv'
<1>1. /\ graph' = graph /\ calls' = calls /\ stack' = stack /\ indexOf' = indexOf
      /\ lowlinks' = lowlinks /\ repeating' = repeating
  BY DEF tarjanVars
<1>2. Node' = Node /\ Numbered' = Numbered /\ OnStack' = OnStack /\ Done' = Done
  BY <1>1 DEF Node, Numbered, Todo, OnStack, Done
<1>3. /\ \A i : Caller(i)' = Caller(i) /\ Part(i)' = Part(i)
      /\ \A n : Seen(n)' = Seen(n)
  BY <1>1, <1>2 DEF Caller, Part, Seen
<1>4. NumbersOK' /\ StackOK'
  BY <1>1, <1>2 DEF TarjanInv, NumbersOK, StackOK
<1>5. CallsOK'
  BY <1>1, <1>2, <1>3 DEF TarjanInv, CallsOK
<1>6. Connected' /\ LowOK'
  BY <1>1, <1>2, <1>3 DEF TarjanInv, Connected, LowOK
<1>7. LookedAt'
  BY <1>1, <1>2, <1>3 DEF TarjanInv, LookedAt
<1>8. DoneOK'
  BY <1>1, <1>2 DEF TarjanInv, DoneOK
<1> QED
  BY <1>1, <1>4, <1>5, <1>6, <1>7, <1>8 DEF TarjanInv

(* The search is over: nodes with an edge to themselves are added.            *)
LEMMA FinishKeeps == ASSUME TarjanInv, Finish PROVE TarjanInv'
<1>1. /\ graph' = graph /\ calls' = calls /\ stack' = stack /\ indexOf' = indexOf
      /\ lowlinks' = lowlinks /\ repeating' = repeating \cup {n \in Node : n \in graph[n]}
  BY DEF Finish
<1>2. Node' = Node /\ Numbered' = Numbered /\ OnStack' = OnStack /\ Done' = Done
  BY <1>1 DEF Node, Numbered, Todo, OnStack, Done
<1>3. /\ \A i : Caller(i)' = Caller(i) /\ Part(i)' = Part(i)
      /\ \A n : Seen(n)' = Seen(n)
  BY <1>1, <1>2 DEF Caller, Part, Seen
<1>4. NumbersOK' /\ StackOK'
  BY <1>1, <1>2 DEF TarjanInv, NumbersOK, StackOK
<1>5. CallsOK'
  BY <1>1, <1>2, <1>3 DEF TarjanInv, CallsOK
<1>6. Connected' /\ LowOK'
  BY <1>1, <1>2, <1>3 DEF TarjanInv, Connected, LowOK
<1>7. LookedAt'
  BY <1>1, <1>2, <1>3 DEF TarjanInv, LookedAt
<1>8. DoneOK'
  <2>1. graph \in [Node -> SUBSET Node]
    BY NumberFacts
  <2>2. \A n \in Node : \A m \in graph[n] : m \in Reached(graph, n)
    BY <2>1, StepsFacts
  <2>3. \A n \in {a \in Node : a \in graph[a]} : n \in Node /\ n \in Reached(graph, n)
    BY <2>2
  <2> QED
    BY <1>1, <1>2, <2>3 DEF TarjanInv, DoneOK
<1> QED
  BY <1>1, <1>4, <1>5, <1>6, <1>7, <1>8 DEF TarjanInv

\* When the search is over every node is numbered and no call is under way.
Over == pc = "done" => /\ calls = << >> /\ Todo = {}
                       /\ \A n \in Node : n \in graph[n] => n \in repeating
\* The inductive invariant of find_nodes_with_cycle.
Components == TarjanInv /\ Over

(* Every step keeps the invariant of the components.                          *)
LEMMA ComponentsStep == ASSUME Components, [Next]_vars PROVE Components'
<1>0. TarjanInv /\ Over
  BY DEF Components
<1>1. ASSUME UNCHANGED <<graph, tarjanVars>>, pc' # "done" PROVE Components'
  BY <1>0, <1>1, TarjanUnchanged DEF Components, Over
<1>2. CASE Split
  <2>1. UNCHANGED <<graph, tarjanVars>> /\ pc' # "done"
    BY <1>2 DEF Split
  <2> QED
    BY <1>1, <2>1
<1>3. CASE NoCycles
  <2>1. UNCHANGED <<graph, tarjanVars>> /\ pc' # "done"
    BY <1>3 DEF NoCycles
  <2> QED
    BY <1>1, <2>1
<1>4. CASE Greedy
  <2>1. UNCHANGED <<graph, tarjanVars>> /\ pc' # "done"
    BY <1>4 DEF Greedy
  <2> QED
    BY <1>1, <2>1
<1>5. CASE GreedyDone
  <2>1. UNCHANGED <<graph, tarjanVars>> /\ pc' # "done"
    BY <1>5 DEF GreedyDone
  <2> QED
    BY <1>1, <2>1
<1>6. CASE ExactMiss
  <2>1. UNCHANGED <<graph, tarjanVars>> /\ pc' # "done"
    BY <1>6 DEF ExactMiss
  <2> QED
    BY <1>1, <2>1
<1>7. CASE ExactHit
  <2>1. UNCHANGED <<graph, tarjanVars>> /\ pc' # "done"
    BY <1>7 DEF ExactHit
  <2> QED
    BY <1>1, <2>1
<1>8. CASE Choose
  <2>1. UNCHANGED <<graph, tarjanVars>> /\ pc' # "done"
    BY <1>8 DEF Choose
  <2> QED
    BY <1>1, <2>1
<1>9. ASSUME TarjanInv', pc' # "done" PROVE Components'
  BY <1>9 DEF Components, Over
<1>10. CASE Root
  <2>1. pc' # "done"
    BY <1>10 DEF Root, InTarjan
  <2> QED
    BY <1>0, <1>9, <1>10, <2>1, RootKeeps
<1>11. CASE Descend
  <2>1. pc' # "done"
    BY <1>11 DEF Descend, InTarjan
  <2> QED
    BY <1>0, <1>9, <1>11, <2>1, DescendKeeps
<1>12. CASE Look
  <2>1. pc' # "done"
    BY <1>12 DEF Look, InTarjan
  <2> QED
    BY <1>0, <1>9, <1>12, <2>1, LookKeeps
<1>13. CASE Close
  <2>1. pc' # "done"
    BY <1>13 DEF Close, InTarjan
  <2> QED
    BY <1>0, <1>9, <1>13, <2>1, CloseKeeps
<1>14. CASE Finish
  <2>1. TarjanInv'
    BY <1>0, <1>14, FinishKeeps
  <2>2. Over'
    BY <1>14 DEF Finish, Over, Todo, Node
  <2> QED
    BY <2>1, <2>2 DEF Components
<1>15. CASE UNCHANGED vars
  <2>1. UNCHANGED <<graph, tarjanVars>> /\ pc' = pc
    BY <1>15 DEF vars
  <2>2. Over'
    BY <1>0, <2>1 DEF Over, Todo, Node, tarjanVars
  <2> QED
    BY <1>0, <2>1, <2>2, TarjanUnchanged DEF Components
<1> QED
  BY <1>2, <1>3, <1>4, <1>5, <1>6, <1>7, <1>8, <1>10, <1>11, <1>12, <1>13, <1>14, <1>15 DEF Next

(* The invariant of the components holds of every graph.                      *)
THEOREM ComponentsHold == Spec => []Components
<1>1. Init => Components
  BY TarjanInit DEF Init, Components, Over
<1>2. Components /\ [Next]_vars => Components'
  BY ComponentsStep
<1> QED
  BY <1>1, <1>2, PTL DEF Spec

(* Avoiding no node, Reach is Reached.                                        *)
LEMMA AvoidNothing ==
    ASSUME TarjanInv PROVE \A n \in Node : Reach(n, {}) = Reached(graph, n)
<1>1. graph \in [Node -> SUBSET Node]
  BY NumberFacts
<1>2. [m \in Node |-> graph[m] \ {}] = graph
  BY <1>1
<1> QED
  BY <1>2 DEF Reach

(* At the end of the search every node belongs to a finished component.       *)
LEMMA ExactAtEnd == ASSUME Components PROVE RepeatingIsExact
<1> SUFFICES ASSUME pc = "done" PROVE repeating = {n \in Node : n \in Reach(n, {})}
  BY DEF RepeatingIsExact
<1>1. /\ TarjanInv /\ calls = << >> /\ Todo = {}
      /\ \A n \in Node : n \in graph[n] => n \in repeating
  BY DEF Components, Over
<1>2. Len(calls) = 0 /\ \A i \in 1 .. 0 : FALSE
  BY <1>1
<1>3. OnStack = {}
  BY <1>1, <1>2 DEF TarjanInv, Connected
<1>4. Done = Node
  BY <1>1, <1>3 DEF Done, Numbered
<1>5. /\ repeating \subseteq Node
      /\ \A n \in Node : n \in Reached(graph, n) => n \in repeating \/ n \in graph[n]
      /\ \A n \in repeating : n \in Reached(graph, n)
  BY <1>1, <1>4 DEF TarjanInv, DoneOK
<1>6. \A n \in Node : n \in Reach(n, {}) <=> n \in Reached(graph, n)
  BY <1>1, AvoidNothing
<1> QED
  BY <1>1, <1>5, <1>6

(* find_nodes_with_cycle says that a block repeats exactly when a loop goes   *)
(* through it, for every graph. get_fn_info reserves the stack space of the   *)
(* allocas in all other blocks on entry.                                      *)
THEOREM Exact == Spec => []RepeatingIsExact
<1>1. Components => RepeatingIsExact
  BY ExactAtEnd
<1> QED
  BY <1>1, ComponentsHold, PTL

-----------------------------------------------------------------------------
(* select_cycle_checks: the combinations the exact search goes through.      *)

(* The members of an increasing sequence are as far apart as their positions, *)
(* or further.                                                                *)
LEMMA Grows ==
    ASSUME NEW n \in Nat, NEW t \in Seq(1 .. n), Increasing(t)
    PROVE  \A i, j \in 1 .. Len(t) : i <= j => t[j] - t[i] >= j - i
<1>0. PICK l \in Nat : l = Len(t) /\ DOMAIN t = 1 .. l
  OBVIOUS
<1>1. \A i \in 1 .. l : t[i] \in Int
  BY <1>0
<1> DEFINE T == {d \in Nat : \A i \in 1 .. l : i + d \in 1 .. l => t[i + d] - t[i] >= d}
<1>2. 0 \in T
  <2>1. \A i \in 1 .. l : i + 0 = i
    OBVIOUS
  <2>2. \A i \in 1 .. l : t[i + 0] - t[i] >= 0
    BY <1>1, <2>1
  <2> QED
    BY <2>2
<1>3. ASSUME NEW d \in Nat, d \in T PROVE d + 1 \in T
  <2> SUFFICES ASSUME NEW i \in 1 .. l, i + (d + 1) \in 1 .. l PROVE t[i + (d + 1)] - t[i] >= d + 1
    BY <1>3
  <2>1. i + d \in 1 .. l /\ i + d < i + (d + 1)
    OBVIOUS
  <2>2. t[i + d] - t[i] >= d
    BY <1>3, <2>1
  <2>3. t[i + d] < t[i + (d + 1)]
    BY <1>0, <2>1 DEF Increasing
  <2>4. t[i] \in Int /\ t[i + d] \in Int /\ t[i + (d + 1)] \in Int
    BY <1>1, <2>1
  <2>5. \A x, y, z \in Int : y - x >= d /\ y < z => z - x >= d + 1
    OBVIOUS
  <2> QED
    BY <2>2, <2>3, <2>4, <2>5
<1>4. \A d \in Nat : d \in T
  <2> HIDE DEF T
  <2> QED
    BY <1>2, <1>3, Induction
<1>5. ASSUME NEW i \in 1 .. l, NEW j \in 1 .. l, i <= j PROVE t[j] - t[i] >= j - i
  <2>1. PICK d \in Nat : d = j - i /\ i + d = j
    <3>1. j - i \in Nat /\ i + (j - i) = j
      BY <1>5
    <3> QED
      BY <3>1
  <2>2. d \in T
    BY <1>4
  <2> QED
    BY <2>1, <2>2
<1> QED
  BY <1>0, <1>5

(* A bound on each member of an increasing sequence of indices.               *)
LEMMA Bounded ==
    ASSUME NEW n \in Nat, NEW t \in Seq(1 .. n), Increasing(t)
    PROVE  \A i \in 1 .. Len(t) : i <= t[i] /\ t[i] <= n - Len(t) + i
<1>0. PICK l \in Nat : l = Len(t)
  OBVIOUS
<1> TAKE i \in 1 .. Len(t)
<1>1. 1 \in 1 .. l /\ l \in 1 .. l /\ 1 <= i /\ i <= l /\ i \in 1 .. l /\ i \in Int
  BY <1>0
<1>2. t[1] \in 1 .. n /\ t[l] \in 1 .. n /\ t[i] \in 1 .. n
  BY <1>0, <1>1
<1>3. \A a, b \in 1 .. l : a <= b => t[b] - t[a] >= b - a
  BY <1>0, Grows
<1>4. t[i] - t[1] >= i - 1 /\ t[l] - t[i] >= l - i
  BY <1>1, <1>3
<1>5. i <= t[i] /\ t[i] <= n - l + i
  <2>1. \A x, y, z \in 1 .. n : y - x >= i - 1 /\ z - y >= l - i => i <= y /\ y <= n - l + i
    BY <1>1
  <2> QED
    BY <1>2, <1>4, <2>1
<1> QED
  BY <1>0, <1>5

\* A combination of the indices 1 to n is an increasing sequence of them.
IsCombination(s, n) == s \in Seq(1 .. n) /\ s # << >> /\ Increasing(s)

\* The order the combinations are tried in.
Before(t, s) ==
    \/ Len(t) < Len(s)
    \/ /\ Len(t) = Len(s)
       /\ \E j \in 1 .. Len(s) : t[j] < s[j] /\ \A i \in 1 .. j - 1 : t[i] = s[i]

(* Of two sequences that agree up to a position, the one that is nowhere      *)
(* larger after it comes first, unless they are equal.                        *)
LEMMA Lexical ==
    ASSUME NEW n \in Nat, NEW t \in Seq(1 .. n), NEW s \in Seq(1 .. n), Len(t) = Len(s),
           NEW i \in Nat, \A j \in 1 .. Len(s) : j <= i => t[j] = s[j],
           \A j \in 1 .. Len(s) : j > i => t[j] <= s[j]
    PROVE  t = s \/ Before(t, s)
<1>0. PICK l \in Nat : l = Len(s) /\ l = Len(t)
  OBVIOUS
<1> DEFINE T == {j \in 1 .. l : t[j] # s[j]}
<1>1. CASE T = {}
  <2>1. \A j \in 1 .. l : t[j] = s[j]
    BY <1>1
  <2>2. t \in [1 .. l -> 1 .. n] /\ s \in [1 .. l -> 1 .. n]
    <3>1. t \in [1 .. Len(t) -> 1 .. n]
      OBVIOUS
    <3>2. s \in [1 .. Len(s) -> 1 .. n]
      OBVIOUS
    <3> QED
      BY <1>0, <3>1, <3>2
  <2>3. t = s
    BY <2>1, <2>2
  <2> QED
    BY <2>3
<1>2. CASE T # {}
  <2>1. T \in SUBSET Nat
    OBVIOUS
  <2>2. PICK j \in T : \A k \in T : j <= k
    BY <1>2, <2>1, LeastElement
  <2>3. j \in 1 .. l /\ t[j] # s[j] /\ t[j] \in 1 .. n /\ s[j] \in 1 .. n
    BY <1>0, <2>2
  <2>4. t[j] < s[j]
    <3>1. j > i
      BY <1>0, <2>3
    <3>2. t[j] <= s[j]
      BY <1>0, <2>3, <3>1
    <3> QED
      BY <2>3, <3>2
  <2>5. ASSUME NEW k \in 1 .. j - 1 PROVE t[k] = s[k]
    <3>1. k \in 1 .. l /\ ~(j <= k)
      BY <2>3
    <3> QED
      BY <2>2, <3>1
  <2>6. Len(t) = Len(s) /\ j \in 1 .. Len(s)
    BY <1>0, <2>3
  <2> QED
    BY <2>4, <2>5, <2>6 DEF Before
<1> QED
  BY <1>1, <1>2

(* What next_combination computes: nothing when each index is as large as its *)
(* place allows, else the last index that can still grow, grown, and those    *)
(* after it restarted.                                                        *)
LEMMA NextFacts ==
    ASSUME NEW n \in Nat, NEW s, IsCombination(s, n), NEW next, next = NextCombination(s, n)
    PROVE  \/ next = << >> /\ \A j \in 1 .. Len(s) : s[j] = n - Len(s) + j
           \/ \E i \in 1 .. Len(s) :
                /\ s[i] < n - Len(s) + i
                /\ \A j \in 1 .. Len(s) : j > i => s[j] = n - Len(s) + j
                /\ next \in Seq(1 .. n) /\ Len(next) = Len(s)
                /\ \A j \in 1 .. Len(s) : next[j] = IF j < i THEN s[j] ELSE s[i] + 1 + (j - i)
<1>0. PICK k \in Nat : k = Len(s)
  BY DEF IsCombination
<1>1. \A j \in 1 .. k : j <= s[j] /\ s[j] <= n - k + j /\ s[j] \in 1 .. n
  BY <1>0, Bounded DEF IsCombination
<1> DEFINE movable == {i \in 1 .. k : s[i] < n - k + i}
           last == Max(movable)
<1>2. next = IF movable = {} THEN << >>
             ELSE [j \in 1 .. k |-> IF j < last THEN s[j] ELSE s[last] + 1 + (j - last)]
  BY <1>0 DEF NextCombination
<1> HIDE DEF last
<1>3. ASSUME NEW j \in 1 .. k, j \notin movable PROVE s[j] = n - k + j
  <2>1. ~(s[j] < n - k + j)
    BY <1>0, <1>3
  <2>2. s[j] <= n - k + j /\ s[j] \in Int
    BY <1>1
  <2> QED
    BY <2>1, <2>2
<1>4. CASE movable = {}
  BY <1>0, <1>2, <1>3, <1>4
<1>5. CASE movable # {}
  <2>1. movable \in SUBSET Nat /\ \A x \in movable : x <= k /\ x \in 1 .. k
    BY <1>0
  <2>2. last \in movable /\ \A y \in movable : y <= last
    BY <1>0, <1>5, <2>1, MaxFacts DEF last
  <2>3. last \in 1 .. k /\ s[last] < n - k + last
    BY <1>0, <2>2
  <2>4. ASSUME NEW j \in 1 .. k, j > last PROVE s[j] = n - k + j
    <3>1. ~(j <= last)
      BY <2>3, <2>4
    <3> QED
      BY <1>3, <2>2, <3>1
  <2>5. ASSUME NEW j \in 1 .. k PROVE (IF j < last THEN s[j] ELSE s[last] + 1 + (j - last)) \in 1 .. n
    <3>1. s[j] \in 1 .. n /\ s[last] \in 1 .. n
      BY <1>1, <2>3
    <3>2. CASE j < last
      BY <3>1, <3>2
    <3>3. CASE ~(j < last)
      <4>1. s[last] + 1 + (j - last) <= n - k + j /\ s[last] + 1 + (j - last) >= 1
        BY <2>3, <3>1, <3>3
      <4>2. n - k + j <= n
        OBVIOUS
      <4>3. s[last] + 1 + (j - last) \in Int
        BY <2>3, <3>1
      <4> HIDE DEF last
      <4> QED
        BY <3>3, <4>1, <4>2, <4>3
    <3> QED
      BY <3>2, <3>3
  <2>6. next = [j \in 1 .. k |-> IF j < last THEN s[j] ELSE s[last] + 1 + (j - last)]
    BY <1>2, <1>5
  <2>7. next \in [1 .. k -> 1 .. n]
    BY <2>5, <2>6
  <2>8. next \in Seq(1 .. n) /\ Len(next) = k
    BY <2>7
  <2>9. \A j \in 1 .. k : next[j] = IF j < last THEN s[j] ELSE s[last] + 1 + (j - last)
    BY <2>6
  <2> QED
    BY <1>0, <1>5, <2>3, <2>4, <2>8, <2>9
<1> QED
  BY <1>4, <1>5

(* next_combination skips no combination: what comes before the next one is   *)
(* the present one or comes before it.                                        *)
LEMMA NextCovers ==
    ASSUME NEW n \in Nat, NEW s, IsCombination(s, n),
           NEW next, next = NextCombination(s, n), next # << >>
    PROVE  /\ IsCombination(next, n)
           /\ \A t \in Seq(1 .. n) : Increasing(t) /\ Before(t, next) => t = s \/ Before(t, s)
<1>0. PICK k \in Nat : k = Len(s) /\ s \in Seq(1 .. n)
  BY DEF IsCombination
<1>2. PICK i \in 1 .. k :
         /\ s[i] < n - k + i
         /\ \A j \in 1 .. k : j > i => s[j] = n - k + j
         /\ next \in Seq(1 .. n) /\ Len(next) = k
         /\ \A j \in 1 .. k : next[j] = IF j < i THEN s[j] ELSE s[i] + 1 + (j - i)
  <2>1. \/ next = << >> /\ \A j \in 1 .. Len(s) : s[j] = n - Len(s) + j
        \/ \E i \in 1 .. Len(s) :
             /\ s[i] < n - Len(s) + i
             /\ \A j \in 1 .. Len(s) : j > i => s[j] = n - Len(s) + j
             /\ next \in Seq(1 .. n) /\ Len(next) = Len(s)
             /\ \A j \in 1 .. Len(s) : next[j] = IF j < i THEN s[j] ELSE s[i] + 1 + (j - i)
    BY NextFacts
  <2> QED
    BY <1>0, <2>1
<1>3. /\ \A j \in 1 .. k : s[j] \in 1 .. n
      /\ \A a, b \in 1 .. k : a < b => s[a] < s[b]
  <2>1. DOMAIN s = 1 .. k /\ \A j \in 1 .. k : s[j] \in 1 .. n
    BY <1>0
  <2> QED
    BY <2>1 DEF IsCombination, Increasing
<1>4. ASSUME NEW a \in 1 .. k, NEW b \in 1 .. k, a < b PROVE next[a] < next[b]
  <2>1. s[a] \in Int /\ s[b] \in Int /\ s[i] \in Int
    BY <1>3
  <2>2. CASE b < i
    <3>1. a < i
      BY <1>4, <2>2
    <3>2. next[a] = s[a] /\ next[b] = s[b]
      BY <1>2, <2>2, <3>1
    <3> QED
      BY <1>3, <1>4, <3>2
  <2>3. CASE a < i /\ ~(b < i)
    <3>1. next[a] = s[a] /\ next[b] = s[i] + 1 + (b - i) /\ s[a] < s[i]
      BY <1>2, <1>3, <2>3
    <3> QED
      BY <2>1, <2>3, <3>1
  <2>4. CASE ~(a < i)
    <3>1. next[a] = s[i] + 1 + (a - i) /\ next[b] = s[i] + 1 + (b - i)
      <4>1. ~(b < i)
        BY <1>4, <2>4
      <4> QED
        BY <1>2, <2>4, <4>1
    <3> QED
      BY <1>4, <2>1, <3>1
  <2> QED
    BY <1>4, <2>2, <2>3, <2>4
<1>5. IsCombination(next, n)
  <2>1. next # << >> /\ DOMAIN next = 1 .. k
    BY <1>2
  <2> QED
    BY <1>2, <1>4, <2>1 DEF IsCombination, Increasing
<1>6. ASSUME NEW t \in Seq(1 .. n), Increasing(t), Before(t, next) PROVE t = s \/ Before(t, s)
  <2>1. CASE Len(t) < k
    BY <1>0, <2>1 DEF Before
  <2>2. CASE ~(Len(t) < k)
    <3>1. Len(t) = k
      BY <1>2, <1>6, <2>2 DEF Before
    <3>2. PICK j \in 1 .. k : t[j] < next[j] /\ \A a \in 1 .. j - 1 : t[a] = next[a]
      BY <1>2, <1>6, <2>2 DEF Before
    <3>3. \A a \in 1 .. k : t[a] \in Int /\ s[a] \in Int
      BY <1>3, <3>1
    <3>4. \A a, b \in 1 .. k : a <= b => t[b] - t[a] >= b - a
      BY <1>6, <3>1, Grows
    <3>5. CASE j < i
      <4>1. t[j] < s[j]
        BY <1>2, <3>2, <3>5
      <4>2. ASSUME NEW a \in 1 .. j - 1 PROVE t[a] = s[a]
        <5>1. a \in 1 .. k /\ a < i
          BY <3>5
        <5> QED
          BY <1>2, <3>2, <5>1
      <4> QED
        BY <1>0, <3>1, <4>1, <4>2 DEF Before
    <3>6. CASE j > i
      <4>1. i \in 1 .. j - 1
        BY <3>6
      <4>2. t[i] = next[i] /\ next[i] = s[i] + 1 + (i - i) /\ next[j] = s[i] + 1 + (j - i)
        <5>1. ~(i < i) /\ ~(j < i)
          BY <3>6
        <5> QED
          BY <1>2, <3>2, <4>1, <5>1
      <4>3. t[j] - t[i] >= j - i
        BY <3>4, <3>6
      <4> QED
        <5>1. t[i] \in Int /\ t[j] \in Int /\ s[i] \in Int /\ i \in Int /\ j \in Int
          BY <3>3, <4>1
        <5>2. t[j] < next[j]
          BY <3>2
        <5> QED
          BY <4>2, <4>3, <5>1, <5>2
    <3>7. CASE j = i
      <4>1. \A a \in 1 .. k : a < i => t[a] = s[a]
        <5> SUFFICES ASSUME NEW a \in 1 .. k, a < i PROVE t[a] = s[a]
          OBVIOUS
        <5>1. a \in 1 .. j - 1
          BY <3>7
        <5> QED
          BY <1>2, <3>2, <5>1
      <4>2. t[i] <= s[i]
        <5>1. next[i] = s[i] + 1 + (i - i) /\ t[i] < next[i]
          BY <1>2, <3>2, <3>7
        <5> QED
          BY <3>3, <5>1
      <4>3. \A a \in 1 .. k : a > i => t[a] <= s[a]
        <5> SUFFICES ASSUME NEW a \in 1 .. k, a > i PROVE t[a] <= s[a]
          OBVIOUS
        <5>1. t[a] <= n - k + a
          BY <1>6, <3>1, Bounded
        <5> QED
          BY <1>2, <5>1
      <4>4. PICK h \in Nat : h = i - 1
        <5>1. i - 1 \in Nat
          OBVIOUS
        <5> QED
          BY <5>1
      <4>5. /\ \A a \in 1 .. Len(s) : a <= h => t[a] = s[a]
            /\ \A a \in 1 .. Len(s) : a > h => t[a] <= s[a]
        <5>1. \A a \in 1 .. k : (a <= h <=> a < i) /\ (a > h <=> a = i \/ a > i)
          BY <4>4
        <5> QED
          BY <1>0, <4>1, <4>2, <4>3, <5>1
      <4>6. s \in Seq(1 .. n) /\ Len(t) = Len(s)
        BY <1>0, <3>1 DEF IsCombination
      <4> QED
        BY <4>5, <4>6, Lexical
    <3> QED
      BY <3>5, <3>6, <3>7
  <2> QED
    BY <2>1, <2>2
<1> QED
  BY <1>5, <1>6

(* When there is no next combination, all those of the size have been tried.  *)
LEMMA NoNextCovers ==
    ASSUME NEW n \in Nat, NEW s, IsCombination(s, n), NextCombination(s, n) = << >>
    PROVE  /\ \A j \in 1 .. Len(s) : s[j] = n - Len(s) + j
           /\ \A t \in Seq(1 .. n) : Increasing(t) /\ Len(t) <= Len(s) => t = s \/ Before(t, s)
<1>0. PICK k \in Nat : k = Len(s) /\ s \in Seq(1 .. n)
  BY DEF IsCombination
<1>1. Len(s) # 0
  BY DEF IsCombination
<1>2. \A j \in 1 .. Len(s) : s[j] = n - Len(s) + j
  <2>1. Len(NextCombination(s, n)) = 0
    OBVIOUS
  <2> QED
    BY <1>1, <2>1, NextFacts
<1>3. ASSUME NEW t \in Seq(1 .. n), Increasing(t), Len(t) <= Len(s) PROVE t = s \/ Before(t, s)
  <2>1. CASE Len(t) < Len(s)
    BY <2>1 DEF Before
  <2>2. CASE Len(t) = Len(s)
    <3>1. \A j \in 1 .. Len(s) : t[j] <= s[j]
      BY <1>2, <1>3, <2>2, Bounded
    <3>2. /\ \A j \in 1 .. Len(s) : j <= 0 => t[j] = s[j]
          /\ \A j \in 1 .. Len(s) : j > 0 => t[j] <= s[j]
      BY <1>0, <3>1
    <3> QED
      BY <1>0, <2>2, <3>2, Lexical
  <2> QED
    BY <1>0, <1>3, <2>1, <2>2
<1> QED
  BY <1>2, <1>3

(* The search for a size starts with its first combination.                   *)
LEMMA FirstFacts ==
    ASSUME NEW n \in Nat, NEW k \in Nat, NEW first, first = [i \in 1 .. k + 1 |-> i]
    PROVE  /\ k + 1 <= n => IsCombination(first, n)
           /\ \A t \in Seq(1 .. n) : Increasing(t) /\ Before(t, first) => Len(t) <= k
<1>1. first \in Seq(Nat) /\ Len(first) = k + 1 /\ DOMAIN first = 1 .. k + 1 /\ \A i \in 1 .. k + 1 : first[i] = i
  OBVIOUS
<1>2. ASSUME k + 1 <= n PROVE IsCombination(first, n)
  <2>1. first \in Seq(1 .. n)
    <3>1. \A i \in 1 .. k + 1 : i \in 1 .. n
      BY <1>2
    <3>2. first \in [1 .. k + 1 -> 1 .. n]
      BY <3>1
    <3> QED
      BY <3>2
  <2>2. first # << >>
    BY <1>1
  <2> QED
    BY <1>1, <2>1, <2>2 DEF IsCombination, Increasing
<1>3. ASSUME NEW t \in Seq(1 .. n), Increasing(t), Before(t, first) PROVE Len(t) <= k
  <2> SUFFICES ASSUME ~(Len(t) <= k) PROVE FALSE
    OBVIOUS
  <2>1. Len(t) = k + 1
    BY <1>1, <1>3 DEF Before
  <2>2. PICK j \in 1 .. k + 1 : t[j] < first[j]
    BY <1>1, <1>3, <2>1 DEF Before
  <2>3. j <= t[j] /\ t[j] \in Int
    <3>1. \A i \in 1 .. Len(t) : i <= t[i]
      BY <1>3, Bounded
    <3> QED
      BY <2>1, <3>1
  <2> QED
    BY <1>1, <2>2, <2>3
<1> QED
  BY <1>2, <1>3

-----------------------------------------------------------------------------
(* select_cycle_checks: the cover.                                          *)

Meets(c, S) == Range(c) \cap S # {}
\* The nodes of the cycles to cover.
OnCycles    == UNION {Range(c) : c \in remaining}

\* What Split does with the cycles.
Selected ==
    /\ \A c \in SimpleCycles(graph) : Meets(c, selfLoops) \/ c \in remaining
    /\ remaining \subseteq SimpleCycles(graph)
    /\ \A c \in remaining : ~Meets(c, selfLoops)
    /\ selfLoops \subseteq Node /\ \A n \in selfLoops : n \in graph[n]
    /\ nodeList = Sorted(OnCycles)

\* What the exact search knows: each combination before the one it is at misses a cycle.
Misses(t) == \E c \in remaining : \A j \in 1 .. Len(t) : nodeList[t[j]] \notin Range(c)
Searching ==
    /\ IsCombination(indices, Len(nodeList))
    /\ \A t \in Seq(1 .. Len(nodeList)) : Increasing(t) /\ Before(t, indices) => Misses(t)

\* After Split: the greedy cover leaves no cycle out that it dropped, the exact
\* search has tried what comes before its combination, and the result covers.
Covering ==
    /\ Selected
    /\ greedyNodes \subseteq OnCycles
    /\ pc \in {"greedy", "exact"} => remaining # {}
    /\ pc = "greedy" => /\ uncovered \subseteq remaining
                        /\ \A c \in remaining \ uncovered : Meets(c, greedyNodes)
    /\ pc = "exact" => Searching
    /\ pc \in {"chosen", "repeating", "done"} =>
          /\ \A c \in remaining : Meets(c, greedyNodes)
          /\ remaining # {} /\ Len(nodeList) <= ExactLimit => Searching /\ greedyNodes = Candidate
    /\ pc \in {"repeating", "done"} => result = selfLoops \cup greedyNodes

\* The inductive invariant of select_cycle_checks.
CoverInv ==
    /\ graph \in Graphs
    /\ pc \in {"select", "fallback", "greedy", "exact", "chosen", "repeating", "done"}
    /\ pc = "select" => greedyNodes = {}
    /\ SimpleCycles(graph) = {} => /\ pc \in {"select", "fallback", "done"}
                                   /\ pc = "done" => result = repeating
    /\ SimpleCycles(graph) # {} => /\ pc # "fallback"
                                   /\ pc # "select" => Covering

(* What the other proofs need of the simple cycles.                           *)
LEMMA CycleFacts ==
    ASSUME graph \in Graphs
    PROVE  /\ IsFiniteSet(SimpleCycles(graph)) /\ IsFiniteSet(Node) /\ Node \in SUBSET Nat
           /\ graph \in [Node -> SUBSET Node]
           /\ \A c \in SimpleCycles(graph) :
                 /\ IsCycle(graph, c) /\ c \in Seq(Node) /\ Len(c) \in Nat \ {0}
                 /\ Range(c) \subseteq Node /\ c[1] \in Range(c) /\ c[1] \in Node
                 /\ c[1] \in graph[c[Len(c)]]
                 /\ \A i \in 1 .. Len(c) : c[i] \in Range(c)
<1>1. GraphFacts(graph) /\ DOMAIN graph = Node
  BY GraphOK DEF Node
<1>2. IsFiniteSet(SimpleCycles(graph))
  BY <1>1, CyclesFinite
<1>3. ASSUME NEW c \in SimpleCycles(graph)
      PROVE  /\ IsCycle(graph, c) /\ c \in Seq(Node) /\ Len(c) \in Nat \ {0}
             /\ Range(c) \subseteq Node /\ c[1] \in Range(c) /\ c[1] \in Node
             /\ c[1] \in graph[c[Len(c)]]
             /\ \A i \in 1 .. Len(c) : c[i] \in Range(c)
  <2>1. IsCycle(graph, c)
    BY <1>1, CyclesAre
  <2>2. c \in Seq(Node) /\ c # << >> /\ c[1] \in graph[c[Len(c)]]
    BY <1>1, <2>1 DEF IsCycle, Shape
  <2>3. Len(c) \in Nat \ {0} /\ 1 \in 1 .. Len(c) /\ DOMAIN c = 1 .. Len(c)
    BY <2>2
  <2>4. \A i \in 1 .. Len(c) : c[i] \in Node
    BY <2>2
  <2> QED
    BY <2>1, <2>2, <2>3, <2>4 DEF Range
<1> QED
  BY <1>1, <1>2, <1>3 DEF GraphFacts

(* What the other proofs need of all_nodes_list once Split has run.           *)
LEMMA ListFacts ==
    ASSUME graph \in Graphs, Selected
    PROVE  /\ OnCycles \in SUBSET Nat /\ OnCycles \subseteq Node /\ IsFiniteSet(OnCycles)
           /\ SortedBy(OnCycles, nodeList, Len(nodeList))
           /\ nodeList \in Seq(OnCycles) /\ Len(nodeList) \in Nat /\ Range(nodeList) = OnCycles
           /\ \A c \in remaining : Range(c) \subseteq OnCycles /\ Range(c) # {}
           /\ remaining # {} => OnCycles # {} /\ Len(nodeList) >= 1
<1>1. remaining \subseteq SimpleCycles(graph) /\ nodeList = Sorted(OnCycles)
  BY DEF Selected
<1>2. OnCycles \subseteq Node /\ \A c \in remaining : Range(c) \subseteq OnCycles /\ Range(c) # {}
  BY <1>1, CycleFacts DEF OnCycles
<1>3. OnCycles \in SUBSET Nat /\ IsFiniteSet(OnCycles)
  <2>1. IsFiniteSet(Node) /\ Node \in SUBSET Nat /\ OnCycles \in SUBSET Node
    BY <1>2, CycleFacts
  <2> QED
    BY <2>1, FS_Subset
<1>4. /\ Cardinality(OnCycles) \in Nat /\ SortedBy(OnCycles, nodeList, Cardinality(OnCycles))
      /\ nodeList \in Seq(OnCycles) /\ Len(nodeList) = Cardinality(OnCycles) /\ Range(nodeList) = OnCycles
  BY <1>1, <1>3, SortedFacts
<1>5. remaining # {} => OnCycles # {}
  BY <1>2
<1>6. OnCycles # {} => Cardinality(OnCycles) # 0
  BY <1>3, FS_EmptySet
<1> QED
  BY <1>2, <1>3, <1>4, <1>5, <1>6

(* The greedy choice exists, and lies on a cycle.                             *)
LEMMA BestFacts ==
    ASSUME graph \in Graphs, Selected, uncovered \subseteq remaining, uncovered # {}
    PROVE  Best \in OnCycles
<1>1. /\ OnCycles \in SUBSET Nat /\ IsFiniteSet(OnCycles) /\ Range(nodeList) = OnCycles
      /\ remaining # {} => OnCycles # {}
  BY ListFacts
<1>2. IsFiniteSet(uncovered)
  <2>1. IsFiniteSet(SimpleCycles(graph)) /\ uncovered \in SUBSET SimpleCycles(graph)
    BY CycleFacts DEF Selected
  <2> QED
    BY <2>1, FS_Subset
<1> DEFINE b == Cardinality(uncovered)
           counts == {Count(n) : n \in OnCycles}
<1>3. b \in Nat
  BY <1>2, FS_CardinalityType
<1>4. ASSUME NEW n PROVE Count(n) \in Nat /\ Count(n) <= b
  <2>1. {c \in uncovered : n \in Range(c)} \in SUBSET uncovered
    OBVIOUS
  <2>2. /\ IsFiniteSet({c \in uncovered : n \in Range(c)})
        /\ Cardinality({c \in uncovered : n \in Range(c)}) <= b
    BY <1>2, <2>1, FS_Subset
  <2>3. Cardinality({c \in uncovered : n \in Range(c)}) \in Nat
    BY <2>2, FS_CardinalityType
  <2> QED
    BY <2>2, <2>3 DEF Count
<1> HIDE DEF b
<1>5. counts \in SUBSET Nat /\ counts # {} /\ \A x \in counts : x <= b
  BY <1>1, <1>4
<1>6. PICK m \in counts : \A x \in counts : x <= m
  <2> HIDE DEF counts
  <2> QED
    BY <1>3, <1>5, MaxFacts
<1> DEFINE most == {n \in OnCycles : Count(n) = m}
<1>7. most \in SUBSET Nat /\ most # {}
  BY <1>1
<1>8. PICK n \in most : \A k \in most : n <= k
  <2> HIDE DEF most
  <2> QED
    BY <1>7, LeastElement
<1>9. n \in OnCycles /\ Count(n) = m /\ m \in Nat
  BY <1>5
<1>10. \A k \in OnCycles : Count(k) < Count(n) \/ (Count(k) = Count(n) /\ n <= k)
  <2> TAKE k \in OnCycles
  <2>1. Count(k) \in counts /\ Count(k) \in Nat /\ Count(k) <= m
    BY <1>4, <1>6
  <2>2. CASE Count(k) = m
    BY <1>8, <1>9, <2>2
  <2>3. CASE Count(k) # m
    <3> HIDE DEF counts, most
    <3> QED
      BY <1>9, <2>1, <2>3
  <2> QED
    BY <2>2, <2>3
<1>11. \E x \in Range(nodeList) : \A k \in Range(nodeList) :
           Count(k) < Count(x) \/ (Count(k) = Count(x) /\ x <= k)
  BY <1>1, <1>9, <1>10
<1> QED
  BY <1>1, <1>11 DEF Best

(* The self loops are chosen, and the cycles they meet are dropped.           *)
LEMMA SplitKeeps == ASSUME CoverInv, Split PROVE CoverInv'
<1> DEFINE cycles == SimpleCycles(graph)
<1>1. /\ pc = "select" /\ cycles # {} /\ graph' = graph /\ greedyNodes' = greedyNodes
      /\ selfLoops' = {c[1] : c \in {d \in cycles : Len(d) = 1}}
      /\ remaining' = {c \in cycles : Len(c) > 1 /\ Range(c) \cap selfLoops' = {}}
      /\ nodeList' = Sorted(UNION {Range(c) : c \in remaining'})
      /\ uncovered' = remaining'
      /\ pc' = IF remaining' = {} THEN "chosen" ELSE "greedy"
  BY DEF Split
<1>2. graph \in Graphs /\ greedyNodes = {}
  BY <1>1 DEF CoverInv
<1>3. \A c \in cycles : /\ Len(c) \in Nat \ {0} /\ c[1] \in Range(c) /\ c[1] \in Node
                        /\ c[1] \in graph[c[Len(c)]]
  BY <1>2, CycleFacts
<1> HIDE DEF cycles
<1>4. \A c \in cycles : Meets(c, selfLoops') \/ c \in remaining'
  <2> TAKE c \in cycles
  <2>1. CASE Len(c) = 1
    BY <1>1, <1>3, <2>1 DEF Meets
  <2>2. CASE Len(c) # 1
    <3>1. Len(c) > 1
      <4>1. Len(c) \in Nat /\ Len(c) # 0
        BY <1>3
      <4>2. \A l \in Nat : l # 0 /\ l # 1 => l > 1
        OBVIOUS
      <4> QED
        BY <2>2, <4>1, <4>2
    <3> QED
      BY <1>1, <3>1 DEF Meets
  <2> QED
    BY <2>1, <2>2
<1>5. \A n \in selfLoops' : n \in Node /\ n \in graph[n]
  <2> SUFFICES ASSUME NEW c \in cycles, Len(c) = 1 PROVE c[1] \in Node /\ c[1] \in graph[c[1]]
    BY <1>1
  <2> QED
    BY <1>3
<1>6. Selected'
  <2>1. OnCycles' = UNION {Range(c) : c \in remaining'} /\ Node' = Node /\ SimpleCycles(graph') = cycles
    BY <1>1 DEF OnCycles, Node, cycles
  <2>2. \A c \in remaining' : c \in cycles /\ ~Meets(c, selfLoops')
    BY <1>1 DEF Meets
  <2> QED
    BY <1>1, <1>4, <1>5, <2>1, <2>2 DEF Selected
<1>7. Covering'
  BY <1>1, <1>2, <1>6 DEF Covering
<1> QED
  BY <1>1, <1>2, <1>7 DEF CoverInv, cycles

(* Without a cycle the components decide.                                     *)
LEMMA NoCyclesKeeps == ASSUME CoverInv, NoCycles PROVE CoverInv'
  BY DEF CoverInv, NoCycles

(* Between Split and the end there are cycles and the cover is under way.     *)
LEMMA InCover ==
    ASSUME CoverInv, pc \in {"greedy", "exact", "chosen", "repeating"}
    PROVE  graph \in Graphs /\ SimpleCycles(graph) # {} /\ Covering /\ Selected
  BY DEF CoverInv, Covering

(* A greedy choice meets each cycle it drops.                                 *)
LEMMA GreedyKeeps == ASSUME CoverInv, Greedy PROVE CoverInv'
<1>1. /\ pc = "greedy" /\ uncovered # {} /\ greedyNodes' = greedyNodes \cup {Best}
      /\ uncovered' = {c \in uncovered : Best \notin Range(c)}
      /\ graph' = graph /\ pc' = pc /\ selfLoops' = selfLoops /\ remaining' = remaining
      /\ nodeList' = nodeList
  BY DEF Greedy
<1>2. graph \in Graphs /\ SimpleCycles(graph) # {} /\ Covering /\ Selected
  BY <1>1, InCover
<1>3. /\ greedyNodes \subseteq OnCycles /\ remaining # {} /\ uncovered \subseteq remaining
      /\ \A c \in remaining \ uncovered : Meets(c, greedyNodes)
  BY <1>1, <1>2 DEF Covering
<1>4. Best \in OnCycles
  BY <1>1, <1>2, <1>3, BestFacts
<1>5. OnCycles' = OnCycles /\ Node' = Node
  BY <1>1 DEF OnCycles, Node
<1>6. Selected'
  BY <1>1, <1>2, <1>5 DEF Selected
<1>7. \A c \in remaining' \ uncovered' : Meets(c, greedyNodes')
  <2> TAKE c \in remaining' \ uncovered'
  <2>1. CASE c \in uncovered
    <3>1. Best \in Range(c)
      BY <1>1, <2>1
    <3> QED
      BY <1>1, <3>1 DEF Meets
  <2>2. CASE c \notin uncovered
    BY <1>1, <1>3, <2>2 DEF Meets
  <2> QED
    BY <2>1, <2>2
<1>8. Covering'
  BY <1>1, <1>3, <1>4, <1>5, <1>6, <1>7 DEF Covering
<1> QED
  BY <1>1, <1>2, <1>8 DEF CoverInv

(* The search for a smaller cover starts with no combination before it.       *)
LEMMA GreedyDoneKeeps == ASSUME CoverInv, GreedyDone PROVE CoverInv'
<1>1. /\ pc = "greedy" /\ uncovered = {}
      /\ IF Len(nodeList) <= ExactLimit THEN pc' = "exact" /\ indices' = <<1>>
                                        ELSE pc' = "chosen" /\ indices' = indices
      /\ graph' = graph /\ selfLoops' = selfLoops /\ remaining' = remaining
      /\ nodeList' = nodeList /\ uncovered' = uncovered /\ greedyNodes' = greedyNodes
  BY DEF GreedyDone
<1>2. graph \in Graphs /\ SimpleCycles(graph) # {} /\ Covering /\ Selected
  BY <1>1, InCover
<1>3. /\ greedyNodes \subseteq OnCycles /\ remaining # {}
      /\ \A c \in remaining : Meets(c, greedyNodes)
  BY <1>1, <1>2 DEF Covering
<1>4. OnCycles' = OnCycles /\ Node' = Node
  BY <1>1 DEF OnCycles, Node
<1>5. Selected'
  BY <1>1, <1>2, <1>4 DEF Selected
<1>6. Len(nodeList) \in Nat /\ Len(nodeList) >= 1
  BY <1>2, <1>3, ListFacts
<1>7. CASE Len(nodeList) <= ExactLimit
  <2>1. pc' = "exact" /\ indices' = <<1>>
    BY <1>1, <1>7
  <2>2. indices' = [i \in 1 .. 0 + 1 |-> i] /\ 0 + 1 <= Len(nodeList)
    BY <1>6, <2>1
  <2>3. /\ IsCombination(indices', Len(nodeList))
        /\ \A t \in Seq(1 .. Len(nodeList)) : Increasing(t) /\ Before(t, indices') => Len(t) <= 0
    BY <1>6, <2>2, FirstFacts
  <2>4. \A t \in Seq(1 .. Len(nodeList)) : Len(t) <= 0 => Misses(t)'
    <3> SUFFICES ASSUME NEW t \in Seq(1 .. Len(nodeList)), Len(t) <= 0
                 PROVE  \E c \in remaining : \A j \in 1 .. Len(t) : nodeList[t[j]] \notin Range(c)
      BY <1>1 DEF Misses
    <3>1. \A j \in 1 .. Len(t) : FALSE
      OBVIOUS
    <3> QED
      BY <1>3, <3>1
  <2>5. Searching'
    BY <1>1, <2>3, <2>4 DEF Searching
  <2>6. Covering'
    BY <1>1, <1>3, <1>4, <1>5, <2>1, <2>5 DEF Covering
  <2> QED
    BY <1>1, <1>2, <2>1, <2>6 DEF CoverInv
<1>8. CASE ~(Len(nodeList) <= ExactLimit)
  <2>1. pc' = "chosen"
    BY <1>1, <1>8
  <2>2. Covering'
    BY <1>1, <1>3, <1>4, <1>5, <1>8, <2>1 DEF Covering
  <2> QED
    BY <1>1, <1>2, <2>1, <2>2 DEF CoverInv
<1> QED
  BY <1>7, <1>8

(* A combination that leaves a cycle uncovered misses it, and the combination *)
(* of all nodes misses none.                                                  *)
LEMMA MissFacts ==
    ASSUME CoverInv, pc = "exact"
    PROVE  /\ ~Hits => Misses(indices)
           /\ Candidate \subseteq OnCycles
           /\ Len(indices) = Len(nodeList) /\ (\A j \in 1 .. Len(indices) : indices[j] = j) => Hits
<1>1. graph \in Graphs /\ Covering /\ Selected
  BY InCover
<1>2. IsCombination(indices, Len(nodeList))
  BY <1>1 DEF Covering, Searching
<1>3. /\ nodeList \in Seq(OnCycles) /\ Range(nodeList) = OnCycles /\ Len(nodeList) \in Nat
      /\ \A c \in remaining : Range(c) \subseteq OnCycles /\ Range(c) # {}
  BY <1>1, ListFacts
<1>4. /\ indices \in Seq(1 .. Len(nodeList)) /\ DOMAIN indices = 1 .. Len(indices)
      /\ \A j \in 1 .. Len(indices) : indices[j] \in 1 .. Len(nodeList)
  BY <1>2 DEF IsCombination
<1>5. \A n : n \in Candidate <=> \E j \in 1 .. Len(indices) : n = nodeList[indices[j]]
  <2>1. Range(indices) = {indices[j] : j \in 1 .. Len(indices)}
    BY <1>4 DEF Range
  <2> QED
    BY <2>1 DEF Candidate
<1>6. ~Hits => Misses(indices)
  BY <1>5 DEF Hits, Misses
<1>7. Candidate \subseteq OnCycles
  <2>1. \A i \in 1 .. Len(nodeList) : nodeList[i] \in OnCycles
    BY <1>3
  <2> QED
    BY <1>4, <1>5, <2>1
<1>8. ASSUME Len(indices) = Len(nodeList), \A j \in 1 .. Len(indices) : indices[j] = j PROVE Hits
  <2>1. OnCycles \subseteq Candidate
    <3> SUFFICES ASSUME NEW n \in OnCycles PROVE n \in Candidate
      OBVIOUS
    <3>1. Range(nodeList) = {nodeList[i] : i \in 1 .. Len(nodeList)}
      BY <1>3 DEF Range
    <3>2. PICK i \in 1 .. Len(nodeList) : nodeList[i] = n
      BY <1>3, <3>1
    <3> QED
      BY <1>5, <1>8, <3>2
  <2> QED
    BY <1>3, <2>1 DEF Hits
<1> QED
  BY <1>6, <1>7, <1>8

(* After a miss the search goes on to the next combination, and has one to go *)
(* on to.                                                                     *)
LEMMA ExactMissKeeps == ASSUME CoverInv, ExactMiss PROVE CoverInv'
<1> DEFINE next == NextCombination(indices, Len(nodeList))
<1>1. /\ pc = "exact" /\ ~Hits
      /\ indices' = IF next # << >> THEN next ELSE [i \in 1 .. Len(indices) + 1 |-> i]
      /\ graph' = graph /\ pc' = pc /\ selfLoops' = selfLoops /\ remaining' = remaining
      /\ nodeList' = nodeList /\ greedyNodes' = greedyNodes
  BY DEF ExactMiss
<1>2. graph \in Graphs /\ SimpleCycles(graph) # {} /\ Covering /\ Selected
  BY <1>1, InCover
<1>3. greedyNodes \subseteq OnCycles /\ remaining # {} /\ Searching
  BY <1>1, <1>2 DEF Covering
<1>4. OnCycles' = OnCycles /\ Node' = Node
  BY <1>1 DEF OnCycles, Node
<1>5. Selected'
  BY <1>1, <1>2, <1>4 DEF Selected
<1>6. PICK N \in Nat : N = Len(nodeList)
  BY <1>2, ListFacts
<1>7. PICK s : s = indices
  OBVIOUS
<1>8. /\ IsCombination(s, N) /\ s \in Seq(1 .. N) /\ Len(s) \in Nat
      /\ \A t \in Seq(1 .. N) : Increasing(t) /\ Before(t, s) => Misses(t)
      /\ Misses(s)
  BY <1>1, <1>3, <1>6, <1>7, MissFacts DEF Searching, IsCombination
<1>9. \A t \in Seq(1 .. N) : Increasing(t) /\ (t = s \/ Before(t, s)) => Misses(t)
  BY <1>8
<1> HIDE DEF next
<1>10. CASE next # << >>
  <2>1. indices' = next
    BY <1>1, <1>10
  <2>2. /\ IsCombination(next, N)
        /\ \A t \in Seq(1 .. N) : Increasing(t) /\ Before(t, next) => t = s \/ Before(t, s)
    BY <1>6, <1>7, <1>8, <1>10, NextCovers DEF next
  <2> QED
    <3>1. IsCombination(indices', N)
          /\ \A t \in Seq(1 .. N) : Increasing(t) /\ Before(t, indices') => Misses(t)
      BY <1>9, <2>1, <2>2
    <3>2. Searching'
      BY <1>1, <1>6, <3>1 DEF Searching, Misses
    <3>3. Covering'
      BY <1>1, <1>3, <1>4, <1>5, <3>2 DEF Covering
    <3> QED
      BY <1>1, <1>2, <3>3 DEF CoverInv
<1>11. CASE next = << >>
  <2>1. indices' = [i \in 1 .. Len(s) + 1 |-> i]
    BY <1>1, <1>7, <1>11
  <2>2. /\ \A j \in 1 .. Len(s) : s[j] = N - Len(s) + j
        /\ \A t \in Seq(1 .. N) : Increasing(t) /\ Len(t) <= Len(s) => t = s \/ Before(t, s)
    BY <1>6, <1>7, <1>8, <1>11, NoNextCovers DEF next
  <2>3. Len(s) + 1 <= N
    <3>1. Len(s) <= N
      <4>1. 1 \in 1 .. Len(s)
        BY <1>8 DEF IsCombination
      <4>2. s[1] <= N - Len(s) + 1 /\ 1 <= s[1] /\ s[1] \in Int
        BY <1>8, <4>1, Bounded DEF IsCombination
      <4>3. s[1] = N - Len(s) + 1
        BY <2>2, <4>1
      <4> QED
        BY <1>8, <4>2, <4>3
    <3>2. Len(s) # N
      <4> SUFFICES ASSUME Len(s) = N PROVE FALSE
        OBVIOUS
      <4>1. \A j \in 1 .. Len(s) : s[j] = j
        BY <1>8, <2>2
      <4> QED
        BY <1>1, <1>6, <1>7, <4>1, MissFacts
    <3> QED
      BY <1>8, <3>1, <3>2
  <2>4. /\ IsCombination(indices', N)
        /\ \A t \in Seq(1 .. N) : Increasing(t) /\ Before(t, indices') => Len(t) <= Len(s)
    BY <1>8, <2>1, <2>3, FirstFacts
  <2> QED
    <3>1. IsCombination(indices', N)
          /\ \A t \in Seq(1 .. N) : Increasing(t) /\ Before(t, indices') => Misses(t)
      BY <1>9, <2>2, <2>4
    <3>2. Searching'
      BY <1>1, <1>6, <3>1 DEF Searching, Misses
    <3>3. Covering'
      BY <1>1, <1>3, <1>4, <1>5, <3>2 DEF Covering
    <3> QED
      BY <1>1, <1>2, <3>3 DEF CoverInv
<1> QED
  BY <1>10, <1>11

(* A hit is a cover, and each combination before it missed.                   *)
LEMMA ExactHitKeeps == ASSUME CoverInv, ExactHit PROVE CoverInv'
<1>1. /\ pc = "exact" /\ Hits /\ greedyNodes' = Candidate /\ pc' = "chosen"
      /\ graph' = graph /\ selfLoops' = selfLoops /\ remaining' = remaining
      /\ nodeList' = nodeList /\ indices' = indices
  BY DEF ExactHit
<1>2. graph \in Graphs /\ SimpleCycles(graph) # {} /\ Covering /\ Selected
  BY <1>1, InCover
<1>3. Searching /\ Candidate \subseteq OnCycles
  BY <1>1, <1>2, MissFacts DEF Covering
<1>4. OnCycles' = OnCycles /\ Node' = Node /\ Candidate' = Candidate
  BY <1>1 DEF OnCycles, Node, Candidate
<1>5. Selected'
  BY <1>1, <1>2, <1>4 DEF Selected
<1>6. Searching'
  BY <1>1, <1>3 DEF Searching, Misses
<1>7. \A c \in remaining' : Meets(c, greedyNodes')
  BY <1>1 DEF Hits, Meets
<1>8. Covering'
  BY <1>1, <1>3, <1>4, <1>5, <1>6, <1>7 DEF Covering
<1> QED
  BY <1>1, <1>2, <1>8 DEF CoverInv

(* The nodes chosen are the result.                                           *)
LEMMA ChooseKeeps == ASSUME CoverInv, Choose PROVE CoverInv'
<1>1. /\ pc = "chosen" /\ result' = selfLoops \cup greedyNodes /\ pc' = "repeating" /\ graph' = graph
      /\ selfLoops' = selfLoops /\ remaining' = remaining /\ nodeList' = nodeList
      /\ greedyNodes' = greedyNodes /\ indices' = indices
  BY DEF Choose, coverVars
<1>2. graph \in Graphs /\ SimpleCycles(graph) # {} /\ Covering /\ Selected
  BY <1>1, InCover
<1>3. OnCycles' = OnCycles /\ Node' = Node /\ Candidate' = Candidate
  BY <1>1 DEF OnCycles, Node, Candidate
<1>4. Selected'
  BY <1>1, <1>2, <1>3 DEF Selected
<1>5. Searching => Searching'
  BY <1>1 DEF Searching, Misses
<1>6. Covering'
  BY <1>1, <1>2, <1>3, <1>4, <1>5 DEF Covering
<1> QED
  BY <1>1, <1>2, <1>6 DEF CoverInv

(* Steps that leave the cover and the result alone.                           *)
LEMMA CoverUnchanged ==
    ASSUME CoverInv, UNCHANGED <<graph, coverVars, result>>,
           \/ pc' = pc /\ (pc = "done" => repeating' = repeating)
           \/ pc = "repeating" /\ pc' = "done"
    PROVE  CoverInv'
<1>1. /\ graph' = graph /\ selfLoops' = selfLoops /\ remaining' = remaining /\ nodeList' = nodeList
      /\ uncovered' = uncovered /\ greedyNodes' = greedyNodes /\ indices' = indices /\ result' = result
  BY DEF coverVars
<1>2. OnCycles' = OnCycles /\ Node' = Node /\ Candidate' = Candidate
  BY <1>1 DEF OnCycles, Node, Candidate
<1>3. Selected => Selected'
  BY <1>1, <1>2 DEF Selected
<1>4. Searching => Searching'
  BY <1>1 DEF Searching, Misses
<1>5. CASE pc' = pc /\ (pc = "done" => repeating' = repeating)
  <2>1. Covering => Covering'
    BY <1>1, <1>2, <1>3, <1>4, <1>5 DEF Covering
  <2> QED
    BY <1>1, <1>5, <2>1 DEF CoverInv
<1>6. CASE pc = "repeating" /\ pc' = "done"
  <2>1. graph \in Graphs /\ SimpleCycles(graph) # {} /\ Covering
    BY <1>6, InCover
  <2>2. Covering'
    BY <1>1, <1>2, <1>3, <1>4, <1>6, <2>1 DEF Covering
  <2> QED
    BY <1>1, <1>6, <2>1, <2>2 DEF CoverInv
<1> QED
  BY <1>5, <1>6

(* Without a cycle the result is what the components say.                     *)
LEMMA FallbackKeeps == ASSUME CoverInv, Finish PROVE CoverInv'
<1>1. /\ pc \in {"fallback", "repeating"} /\ pc' = "done" /\ UNCHANGED <<graph, coverVars>>
      /\ result' = IF pc = "fallback" THEN repeating' ELSE result
  BY DEF Finish, InTarjan
<1>2. CASE pc = "fallback"
  <2>1. graph' = graph /\ result' = repeating'
    BY <1>1, <1>2
  <2>2. graph \in Graphs /\ SimpleCycles(graph) = {}
    BY <1>2 DEF CoverInv
  <2> QED
    BY <1>1, <2>1, <2>2 DEF CoverInv
<1>3. CASE pc = "repeating"
  <2>1. result' = result
    BY <1>1, <1>3
  <2> QED
    BY <1>1, <1>3, <2>1, CoverUnchanged
<1> QED
  BY <1>1, <1>2, <1>3

(* Every step keeps the invariant of the cover.                               *)
LEMMA CoverStep == ASSUME CoverInv, [Next]_vars PROVE CoverInv'
<1>1. ASSUME UNCHANGED <<graph, pc, result, coverVars>>, pc # "done" PROVE CoverInv'
  BY <1>1, CoverUnchanged
<1>2. CASE Split
  BY <1>2, SplitKeeps
<1>3. CASE NoCycles
  BY <1>3, NoCyclesKeeps
<1>4. CASE Greedy
  BY <1>4, GreedyKeeps
<1>5. CASE GreedyDone
  BY <1>5, GreedyDoneKeeps
<1>6. CASE ExactMiss
  BY <1>6, ExactMissKeeps
<1>7. CASE ExactHit
  BY <1>7, ExactHitKeeps
<1>8. CASE Choose
  BY <1>8, ChooseKeeps
<1>9. CASE Root
  BY <1>1, <1>9 DEF Root, InTarjan
<1>10. CASE Descend
  BY <1>1, <1>10 DEF Descend, InTarjan
<1>11. CASE Look
  BY <1>1, <1>11 DEF Look, InTarjan
<1>12. CASE Close
  BY <1>1, <1>12 DEF Close, InTarjan
<1>13. CASE Finish
  BY <1>13, FallbackKeeps
<1>14. CASE UNCHANGED vars
  <2>1. UNCHANGED <<graph, coverVars, result>> /\ pc' = pc /\ repeating' = repeating
    BY <1>14 DEF vars, tarjanVars
  <2> QED
    BY <2>1, CoverUnchanged
<1> QED
  BY <1>2, <1>3, <1>4, <1>5, <1>6, <1>7, <1>8, <1>9, <1>10, <1>11, <1>12, <1>13, <1>14 DEF Next

(* The invariant of the cover holds of every graph and every limit.           *)
THEOREM CoverHolds == Spec => []CoverInv
<1>1. Init => CoverInv
  BY DEF Init, CoverInv
<1>2. CoverInv /\ [Next]_vars => CoverInv'
  BY CoverStep
<1> QED
  BY <1>1, <1>2, PTL DEF Spec

-----------------------------------------------------------------------------
(* What the two promise.                                                   *)

(* A node that leads to itself around a set of nodes does so along a cycle    *)
(* that avoids the set.                                                       *)
LEMMA AvoidingCycle ==
    ASSUME graph \in Graphs, NEW S, NEW n \in Node, n \in Reach(n, S)
    PROVE  \E c \in SimpleCycles(graph) : Range(c) \cap S = {}
<1> DEFINE R == [m \in Node |-> graph[m] \ S]
<1>1. GraphFacts(graph) /\ DOMAIN graph = Node /\ graph \in [Node -> SUBSET Node]
  BY GraphOK, CycleFacts DEF Node
<1>2. R \in [Node -> SUBSET Node] /\ \A m \in Node : R[m] = graph[m] \ S
  BY <1>1
<1>3. n \in Reached(R, n)
  BY DEF Reach
<1> HIDE DEF R
<1>4. PICK l \in Nat \ {0} : \E c \in [1 .. l -> Node] : Shape(R, c, l)
  BY <1>2, <1>3, ShortCycle
<1>5. PICK c \in [1 .. l -> Node] : Shape(R, c, l)
  BY <1>4
<1>6. c \in Seq(Node) /\ Len(c) = l /\ c # << >> /\ 1 \in 1 .. l /\ l \in 1 .. l /\ DOMAIN c = 1 .. l
  BY <1>4
<1>7. /\ \A i \in 1 .. l - 1 : c[i + 1] \in R[c[i]]
      /\ c[1] \in R[c[l]]
      /\ \A i, j \in 1 .. l : c[i] = c[j] => i = j
  BY <1>5 DEF Shape
<1>8. \A i \in 1 .. l - 1 : i \in 1 .. l
  BY <1>4
<1>9. \A i \in 1 .. l : c[i] \in Node
  OBVIOUS
<1>10. IsCycle(graph, c)
  <2>1. \A i \in 1 .. l - 1 : c[i + 1] \in graph[c[i]]
    BY <1>2, <1>7, <1>8, <1>9
  <2>2. c[1] \in graph[c[l]]
    BY <1>2, <1>6, <1>7, <1>9
  <2> QED
    BY <1>1, <1>6, <1>7, <2>1, <2>2 DEF IsCycle, Shape
<1>11. \A i \in 1 .. l : c[i] \notin S
  <2> TAKE i \in 1 .. l
  <2>1. CASE i = 1
    BY <1>2, <1>6, <1>7, <1>9, <2>1
  <2>2. CASE i # 1
    <3>1. i - 1 \in 1 .. l - 1 /\ (i - 1) + 1 = i /\ i - 1 \in 1 .. l
      BY <1>4, <2>2
    <3>2. c[(i - 1) + 1] \in R[c[i - 1]] /\ c[i - 1] \in Node
      BY <1>7, <1>9, <3>1
    <3> QED
      BY <1>2, <3>1, <3>2
  <2> QED
    BY <2>1, <2>2
<1>12. Range(c) \cap S = {}
  BY <1>6, <1>11 DEF Range
<1> QED
  BY <1>1, <1>10, <1>12, CyclesAre

(* The nodes of a cycle that avoids a set lead to themselves around it.       *)
LEMMA AvoidedCycle ==
    ASSUME graph \in Graphs, NEW S, NEW c \in SimpleCycles(graph), Range(c) \cap S = {}
    PROVE  \A n \in Range(c) : n \in Node \ S /\ n \in Reach(n, S)
<1> DEFINE R == [m \in Node |-> graph[m] \ S]
<1>1. /\ graph \in [Node -> SUBSET Node] /\ IsCycle(graph, c) /\ c \in Seq(Node)
      /\ Len(c) \in Nat \ {0} /\ \A i \in 1 .. Len(c) : c[i] \in Range(c)
  BY CycleFacts
<1>2. R \in [Node -> SUBSET Node] /\ \A m \in Node : R[m] = graph[m] \ S
  BY <1>1
<1> HIDE DEF R
<1>3. PICK l \in Nat \ {0} : l = Len(c)
  BY <1>1
<1>4. c \in [1 .. l -> Node] /\ 1 \in 1 .. l /\ l \in 1 .. l /\ DOMAIN c = 1 .. l
  BY <1>1, <1>3
<1>5. \A i \in 1 .. l : c[i] \notin S /\ c[i] \in Node
  BY <1>1, <1>3, <1>4
<1>6. Shape(R, c, l)
  <2>1. Shape(graph, c, l)
    BY <1>1, <1>3 DEF IsCycle
  <2>2. \A i \in 1 .. l - 1 : i \in 1 .. l /\ i + 1 \in 1 .. l
    BY <1>3
  <2>3. \A i \in 1 .. l - 1 : c[i + 1] \in R[c[i]]
    BY <1>2, <1>5, <2>1, <2>2 DEF Shape
  <2>4. c[1] \in R[c[l]]
    BY <1>2, <1>4, <1>5, <2>1 DEF Shape
  <2> QED
    BY <2>1, <2>3, <2>4 DEF Shape
<1>7. \A i \in 1 .. l : c[i] \in Reached(R, c[i])
  BY <1>2, <1>4, <1>6, CycleReaches
<1>8. \A n \in Range(c) : \E i \in 1 .. l : c[i] = n
  BY <1>4 DEF Range
<1>9. \A n : Reach(n, S) = Reached(R, n)
  BY DEF Reach, R
<1> QED
  BY <1>5, <1>7, <1>8, <1>9

(* The result meets each simple cycle.                                        *)
LEMMA AllBroken == ASSUME CoverInv PROVE BreaksEveryCycle
<1> SUFFICES ASSUME pc = "done", NEW n \in Node \ result, n \in Reach(n, result) PROVE FALSE
  BY DEF BreaksEveryCycle
<1>1. graph \in Graphs
  BY DEF CoverInv
<1>2. PICK c \in SimpleCycles(graph) : Range(c) \cap result = {}
  BY <1>1, AvoidingCycle
<1>3. /\ \A d \in SimpleCycles(graph) : Meets(d, selfLoops) \/ d \in remaining
      /\ \A d \in remaining : Meets(d, greedyNodes)
      /\ result = selfLoops \cup greedyNodes
  BY <1>2 DEF CoverInv, Covering, Selected
<1> QED
  BY <1>2, <1>3 DEF Meets

(* No loop of a function runs without a check, for every graph and every      *)
(* limit of the exact search: what StackReset assumes of its programs.        *)
THEOREM EveryCycleBroken == Spec => []BreaksEveryCycle
<1>1. CoverInv => BreaksEveryCycle
  BY AllBroken
<1> QED
  BY <1>1, CoverHolds, PTL

(* The result consists of nodes on cycles.                                    *)
LEMMA OnlyLoops == ASSUME CoverInv, Components PROVE ChecksOnlyLoops
<1> SUFFICES ASSUME pc = "done", NEW n \in result PROVE n \in Reach(n, {})
  BY DEF ChecksOnlyLoops
<1>1. graph \in Graphs
  BY DEF CoverInv
<1>2. CASE SimpleCycles(graph) = {}
  <2>1. result = repeating
    BY <1>2 DEF CoverInv
  <2> QED
    BY <2>1, ExactAtEnd DEF RepeatingIsExact
<1>3. CASE SimpleCycles(graph) # {}
  <2>1. /\ remaining \subseteq SimpleCycles(graph) /\ selfLoops \subseteq Node
        /\ \A m \in selfLoops : m \in graph[m]
        /\ greedyNodes \subseteq OnCycles /\ result = selfLoops \cup greedyNodes
    BY <1>3 DEF CoverInv, Covering, Selected
  <2>2. CASE n \in selfLoops
    <3>1. graph \in [Node -> SUBSET Node] /\ n \in Node /\ n \in graph[n]
      BY <1>1, <2>1, <2>2, CycleFacts
    <3>2. n \in Reached(graph, n)
      BY <3>1, StepsFacts
    <3> QED
      BY <3>1, <3>2, AvoidNothing DEF Components
  <2>3. CASE n \in OnCycles
    <3>1. PICK c \in SimpleCycles(graph) : n \in Range(c)
      BY <2>1, <2>3 DEF OnCycles
    <3> QED
      BY <1>1, <3>1, AvoidedCycle
  <2> QED
    BY <2>1, <2>2, <2>3
<1> QED
  BY <1>2, <1>3

(* No check is put on a block outside every loop.                             *)
THEOREM OnlyLoopsChecked == Spec => []ChecksOnlyLoops
<1>1. CoverInv /\ Components => ChecksOnlyLoops
  BY OnlyLoops
<1> QED
  BY <1>1, CoverHolds, ComponentsHold, PTL

(* A set that meets every cycle is no smaller than the result: outside the    *)
(* self loops it has as many nodes as a combination that does not miss, and   *)
(* no such combination came before the one that was taken.                    *)
LEMMA NoSmaller ==
    ASSUME CoverInv, pc = "done", SimpleCycles(graph) # {}, Len(nodeList) <= ExactLimit,
           NEW S \in SUBSET Node, \A c \in SimpleCycles(graph) : Meets(c, S), selfLoops \subseteq S
    PROVE  IsFiniteSet(S) /\ IsFiniteSet(result) /\ Cardinality(result) <= Cardinality(S)
<1>1. /\ graph \in Graphs /\ Covering /\ Selected
  BY DEF CoverInv, Covering
<1>2. /\ remaining \subseteq SimpleCycles(graph)
      /\ \A c \in remaining : ~Meets(c, selfLoops)
      /\ greedyNodes \subseteq OnCycles /\ result = selfLoops \cup greedyNodes
      /\ remaining # {} => Searching /\ greedyNodes = Candidate
  BY <1>1 DEF Covering, Selected
<1>3. /\ OnCycles \in SUBSET Nat /\ IsFiniteSet(OnCycles)
      /\ SortedBy(OnCycles, nodeList, Len(nodeList))
      /\ nodeList \in Seq(OnCycles) /\ Len(nodeList) \in Nat /\ Range(nodeList) = OnCycles
      /\ \A c \in remaining : Range(c) \subseteq OnCycles
  BY <1>1, ListFacts
<1>4. IsFiniteSet(S)
  <2>1. IsFiniteSet(Node)
    BY <1>1, CycleFacts
  <2> QED
    BY <2>1, FS_Subset
<1>5. IsFiniteSet(selfLoops) /\ selfLoops \cap OnCycles = {}
  <2>1. IsFiniteSet(selfLoops)
    BY <1>4, FS_Subset
  <2> QED
    BY <1>2, <2>1 DEF OnCycles, Meets
<1> DEFINE H == S \cap OnCycles
<1>6. IsFiniteSet(H) /\ Cardinality(H) \in Nat
  BY <1>4, FS_Subset, FS_CardinalityType
<1>7. \A c \in remaining : Meets(c, H)
  BY <1>2, <1>3 DEF Meets
<1>8. IsFiniteSet(greedyNodes) /\ Cardinality(greedyNodes) <= Cardinality(H)
  <2>1. CASE remaining = {}
    <3>1. greedyNodes = {}
      BY <1>2, <2>1 DEF OnCycles
    <3>2. Cardinality(greedyNodes) = 0 /\ IsFiniteSet(greedyNodes)
      BY <3>1, FS_EmptySet
    <3> QED
      BY <1>6, <3>2
  <2>2. CASE remaining # {}
    <3> DEFINE I == {i \in 1 .. Len(nodeList) : nodeList[i] \in H}
               t == Sorted(I)
    <3>0. PICK N \in Nat : N = Len(nodeList)
      BY <1>3
    <3>1. IsFiniteSet(1 .. N) /\ I \in SUBSET (1 .. N)
      BY <3>0, FS_Interval
    <3>2. IsFiniteSet(I) /\ I \in SUBSET Nat
      BY <3>1, FS_Subset
    <3>3. /\ \A i, j \in 1 .. N : i < j => nodeList[i] < nodeList[j]
          /\ \A x \in OnCycles : \E i \in 1 .. N : nodeList[i] = x
          /\ \A i \in 1 .. N : nodeList[i] \in Nat
      BY <1>3, <3>0 DEF SortedBy
    <3>4. H = {nodeList[i] : i \in I}
      BY <3>0, <3>3
    <3>5. \A i, j \in I : nodeList[i] = nodeList[j] => i = j
      <4> SUFFICES ASSUME NEW i \in 1 .. N, NEW j \in 1 .. N, nodeList[i] = nodeList[j] PROVE i = j
        BY <3>0
      <4>1. ~(i < j) /\ ~(j < i)
        BY <3>3
      <4> QED
        BY <4>1
    <3> HIDE DEF I
    <3>6. Cardinality(H) = Cardinality(I)
      BY <3>2, <3>4, <3>5, Bijections
    <3>7. t \in Seq(I) /\ Len(t) = Cardinality(I) /\ Range(t) = I /\ SortedBy(I, t, Cardinality(I))
          /\ Cardinality(I) \in Nat
      BY <3>2, SortedFacts
    <3> HIDE DEF t
    <3>8. t \in Seq(1 .. N) /\ Increasing(t)
      <4>1. t \in Seq(1 .. N)
        <5>1. PICK k \in Nat : k = Cardinality(I)
          BY <3>7
        <5>2. t \in [1 .. k -> I] /\ \A i \in I : i \in 1 .. N
          BY <3>1, <3>7, <5>1 DEF SortedBy
        <5>3. t \in [1 .. k -> 1 .. N]
          BY <5>2
        <5> QED
          BY <5>1, <5>3
      <4>2. DOMAIN t = 1 .. Cardinality(I)
        BY <3>7
      <4> QED
        BY <3>7, <4>1, <4>2 DEF Increasing, SortedBy
    <3>9. ~Misses(t)
      <4> SUFFICES ASSUME NEW c \in remaining, \A j \in 1 .. Len(t) : nodeList[t[j]] \notin Range(c) PROVE FALSE
        BY DEF Misses
      <4>1. PICK n \in Range(c) : n \in H
        BY <1>7 DEF Meets
      <4>2. PICK i \in I : nodeList[i] = n
        BY <3>4, <4>1
      <4>3. DOMAIN t = 1 .. Len(t)
        BY <3>7
      <4>4. PICK j \in 1 .. Len(t) : t[j] = i
        BY <3>7, <4>2, <4>3 DEF Range
      <4> QED
        BY <4>1, <4>2, <4>4
    <3>10. Searching /\ greedyNodes = Candidate
      BY <1>2, <2>2
    <3>11. ~Before(t, indices)
      BY <3>0, <3>8, <3>9, <3>10 DEF Searching
    <3>12. Len(indices) \in Nat /\ DOMAIN indices = 1 .. Len(indices)
      BY <3>10 DEF Searching, IsCombination
    <3>13. Len(indices) <= Len(t)
      BY <3>7, <3>11, <3>12 DEF Before
    <3>14. IsFiniteSet(Candidate) /\ Cardinality(Candidate) <= Len(indices)
      <4> DEFINE f == [j \in 1 .. Len(indices) |-> nodeList[indices[j]]]
      <4>1. Candidate = {f[j] : j \in 1 .. Len(indices)}
        <5>1. Range(indices) = {indices[j] : j \in 1 .. Len(indices)}
          BY <3>12 DEF Range
        <5>2. Candidate = {nodeList[indices[j]] : j \in 1 .. Len(indices)}
          BY <5>1 DEF Candidate
        <5> QED
          BY <5>2
      <4>2. IsFiniteSet(1 .. Len(indices)) /\ Cardinality(1 .. Len(indices)) = Len(indices)
        <5>1. PICK k \in Nat : k = Len(indices)
          BY <3>12
        <5>2. 1 \in Int /\ k \in Int /\ k - 1 + 1 = k
          OBVIOUS
        <5>3. IsFiniteSet(1 .. k) /\ Cardinality(1 .. k) = IF 1 > k THEN 0 ELSE k - 1 + 1
          BY <5>2, FS_Interval
        <5>4. 1 > k => k = 0
          OBVIOUS
        <5> QED
          BY <5>1, <5>2, <5>3, <5>4
      <4> HIDE DEF f
      <4> QED
        BY <4>1, <4>2, Images
    <3> QED
      <4>1. Cardinality(Candidate) \in Nat
        BY <3>14, FS_CardinalityType
      <4> QED
        BY <3>6, <3>7, <3>10, <3>12, <3>13, <3>14, <4>1
  <2> QED
    BY <2>1, <2>2
<1>9. /\ IsFiniteSet(result)
      /\ Cardinality(result) = Cardinality(selfLoops) + Cardinality(greedyNodes)
  <2>1. selfLoops \cap greedyNodes = {}
    BY <1>2, <1>5
  <2>2. Cardinality(selfLoops \cap greedyNodes) = 0 /\ Cardinality(selfLoops) \in Nat
        /\ Cardinality(greedyNodes) \in Nat
    BY <1>5, <1>8, <2>1, FS_EmptySet, FS_CardinalityType
  <2> QED
    BY <1>2, <1>5, <1>8, <2>2, FS_Union
<1>10. Cardinality(selfLoops) + Cardinality(H) <= Cardinality(S)
  <2>1. selfLoops \cap H = {} /\ selfLoops \cup H \in SUBSET S
    BY <1>5
  <2>2. Cardinality(selfLoops \cap H) = 0 /\ Cardinality(selfLoops) \in Nat
    BY <1>5, <2>1, FS_EmptySet, FS_CardinalityType
  <2>3. Cardinality(selfLoops \cup H) = Cardinality(selfLoops) + Cardinality(H)
    <3>1. /\ IsFiniteSet(selfLoops \cup H)
          /\ Cardinality(selfLoops \cup H) = Cardinality(selfLoops) + Cardinality(H) - Cardinality(selfLoops \cap H)
      <4> HIDE DEF H
      <4> QED
        BY <1>5, <1>6, FS_Union
    <3> QED
      BY <1>6, <2>2, <3>1
  <2>4. Cardinality(selfLoops \cup H) <= Cardinality(S)
    BY <1>4, <2>1, FS_Subset
  <2> QED
    BY <2>3, <2>4
<1>11. /\ Cardinality(selfLoops) \in Nat /\ Cardinality(greedyNodes) \in Nat
       /\ Cardinality(S) \in Nat /\ Cardinality(result) \in Nat
  BY <1>4, <1>5, <1>8, <1>9, FS_CardinalityType
<1> HIDE DEF H
<1> QED
  BY <1>4, <1>6, <1>8, <1>9, <1>10, <1>11

(* Up to the limit the result is as small as can be.                          *)
LEMMA Minimum == ASSUME CoverInv, Components PROVE ExactIsMinimum
<1> SUFFICES ASSUME pc = "done", Len(nodeList) <= ExactLimit, NEW S \in SUBSET Node,
                    Cardinality(S) < Cardinality(result),
                    \A n \in Node \ S : n \notin Reach(n, S)
             PROVE  FALSE
  BY DEF ExactIsMinimum
<1>1. graph \in Graphs /\ graph \in [Node -> SUBSET Node] /\ IsFiniteSet(Node)
  BY CycleFacts DEF CoverInv
<1>2. \A c \in SimpleCycles(graph) : Meets(c, S)
  <2> SUFFICES ASSUME NEW c \in SimpleCycles(graph), Range(c) \cap S = {} PROVE FALSE
    BY DEF Meets
  <2>1. c[1] \in Range(c)
    BY <1>1, CycleFacts
  <2>2. c[1] \in Node \ S /\ c[1] \in Reach(c[1], S)
    BY <1>1, <2>1, AvoidedCycle
  <2> QED
    BY <2>2
<1>3. IsFiniteSet(S) /\ Cardinality(S) \in Nat
  BY <1>1, FS_Subset, FS_CardinalityType
<1>4. CASE SimpleCycles(graph) = {}
  <2>1. result = repeating /\ repeating = {n \in Node : n \in Reach(n, {})}
    BY <1>4, ExactAtEnd DEF CoverInv, RepeatingIsExact
  <2>2. result = {}
    <3> SUFFICES ASSUME NEW n \in Node, n \in Reach(n, {}) PROVE FALSE
      BY <2>1
    <3> QED
      BY <1>1, <1>4, AvoidingCycle
  <2>3. Cardinality(result) = 0
    BY <2>2, FS_EmptySet
  <2> QED
    BY <1>3, <2>3
<1>5. CASE SimpleCycles(graph) # {}
  <2>1. selfLoops \subseteq Node /\ \A n \in selfLoops : n \in graph[n]
    BY <1>5 DEF CoverInv, Covering, Selected
  <2>2. selfLoops \subseteq S
    <3> SUFFICES ASSUME NEW n \in selfLoops, n \notin S PROVE FALSE
      OBVIOUS
    <3> DEFINE R == [m \in Node |-> graph[m] \ S]
    <3>1. R \in [Node -> SUBSET Node] /\ n \in Node /\ n \in R[n]
      BY <1>1, <2>1
    <3> HIDE DEF R
    <3>2. n \in Reached(R, n)
      BY <3>1, StepsFacts
    <3> QED
      BY <3>1, <3>2 DEF Reach, R
  <2>3. IsFiniteSet(result) /\ Cardinality(result) <= Cardinality(S)
    BY <1>2, <1>5, <2>2, NoSmaller
  <2>4. Cardinality(result) \in Nat
    BY <2>3, FS_CardinalityType
  <2> QED
    BY <1>3, <2>3, <2>4
<1> QED
  BY <1>4, <1>5

(* Up to the limit of the exact search no smaller set of blocks would have    *)
(* done, whatever the graph.                                                  *)
THEOREM CoverIsMinimum == Spec => []ExactIsMinimum
<1>1. CoverInv /\ Components => ExactIsMinimum
  BY Minimum
<1> QED
  BY <1>1, CoverHolds, ComponentsHold, PTL
=============================================================================
