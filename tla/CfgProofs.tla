------------------------------- MODULE CfgProofs -------------------------------
(***************************************************************************)
(* Theorems about CfgSccs, CfgReach and CfgDominators, for every graph:    *)
(* compute_cfg_sccs finds the strongly connected components and puts them  *)
(* in order, CfgReachability::compute gives every block what it leads to,  *)
(* and DomTree::compute what dominates it.  They count the steps of a path *)
(* only at the end (LedToRoutes); until then "a leads to b" is that b is   *)
(* in every set of blocks with a that no arc leaves (Route), which needs   *)
(* no induction.                                                           *)
(*                                                                         *)
(* compute_cfg_sccs:                                                       *)
(*                                                                         *)
(*   - when the first pass leaves a block, a block that it leads to and    *)
(*     that has not been left is led to by one that is still on the stack  *)
(*     and in the component of the first (Pending1);                       *)
(*   - so of two blocks of which the first leads to the second and not     *)
(*     back, the component of the first is left last (LeftLater);          *)
(*   - the second pass takes the blocks in the reverse of this order: what *)
(*     leads to the block it takes and has no component yet is in the      *)
(*     component of that block (Gathered), and what has a component is     *)
(*     led to by nothing that has none (Backwards).                        *)
(*                                                                         *)
(* tarjan_sccs and compute:                                                *)
(*                                                                         *)
(*   - a block on the stack leads to all that were numbered after it, and  *)
(*     to an open one that was not (Ways), so when the top block is        *)
(*     complete the blocks from it on lead to each other;                  *)
(*   - lowlink is the number of a block that is led to, and no greater than *)
(*     that of a successor of the block or of those left below it (Lows),  *)
(*     so the arcs from a complete component lead to it or to components   *)
(*     found before (Found);                                               *)
(*   - so the pass over the components needs nothing that it has not got   *)
(*     (United).                                                           *)
(*                                                                         *)
(* DomTree::compute:                                                       *)
(*                                                                         *)
(*   - each block but the entry has a predecessor that is earlier in the   *)
(*     order (Callers, Orders), so a pass finds one that is processed;     *)
(*   - what every path to a block goes through, every path to the one      *)
(*     above it goes through (Climbs): neither a step of intersect nor the *)
(*     next predecessor loses a dominator (Meets);                         *)
(*   - after a pass that changed nothing the one above a block is above    *)
(*     all its predecessors (Passed), so the blocks that another is not    *)
(*     above are led to without it (OverIsForced);                         *)
(*   - what is above all predecessors of a block is above the one above it *)
(*     (Nearest), so the passes only move blocks up; that one was above an *)
(*     earlier predecessor, and a pass moves both or neither (Forward).    *)
(***************************************************************************)
EXTENDS CfgSccs, CfgReach, CfgDominators, TLAPS, FiniteSetTheorems, SequenceTheorems, WellFoundedInduction

-----------------------------------------------------------------------------
(* Induction.                                                              *)

\* A set of numbers has a least one.
LEMMA LeastExists ==
  ASSUME NEW S \in SUBSET Nat, S # {}
  PROVE  \E m \in S : \A k \in S : m <= k
<1>1. PICK m \in S : \A k \in S : <<k, m>> \notin OpToRel(<, Nat)
  BY NatLessThanWellFounded, WFMin
<1>2. ASSUME NEW k \in S, k < m PROVE FALSE
  <2>1. k \in Nat /\ m \in Nat
    OBVIOUS
  <2>2. <<k, m>> \in OpToRel(<, Nat)
    BY <1>2, <2>1 DEF OpToRel
  <2> QED BY <1>1, <2>2
<1> QED BY <1>2

\* Induction up to n.
LEMMA UpTo ==
  ASSUME NEW n \in Nat, NEW S, 0 \in S, \A k \in 0 .. n - 1 : k \in S => k + 1 \in S
  PROVE  \A k \in 0 .. n : k \in S
<1> SUFFICES ASSUME NEW k \in 0 .. n, k \notin S PROVE FALSE
  OBVIOUS
<1>1. PICK m \in 0 .. n \ S : \A i \in 0 .. n \ S : m <= i
  <2>1. 0 .. n \ S \in SUBSET Nat /\ 0 .. n \ S # {}
    OBVIOUS
  <2> QED BY <2>1, LeastExists
<1>2. m # 0 /\ m - 1 \in 0 .. n - 1 /\ m - 1 \in S
  BY <1>1
<1> QED BY <1>1, <1>2

\* The recursion of LedTo has a value.
Widens(g, a, n, w) == w = [k \in 0 .. n |-> IF k = 0 THEN {a} ELSE Wider(g, w[k - 1])]

LEMMA WidensExists ==
  ASSUME NEW g, NEW a, NEW n \in Nat
  PROVE  \E w : Widens(g, a, n, w)
<1> DEFINE S == {m \in 0 .. n : \E w : Widens(g, a, m, w)}
<1>1. 0 \in S
  <2> DEFINE w == [k \in 0 .. 0 |-> {a}]
  <2>1. w = [k \in 0 .. 0 |-> IF k = 0 THEN {a} ELSE Wider(g, w[k - 1])]
    OBVIOUS
  <2> HIDE DEF w
  <2>2. Widens(g, a, 0, w)
    BY <2>1 DEF Widens
  <2> QED BY <2>2
<1>2. ASSUME NEW m \in 0 .. n - 1, m \in S PROVE m + 1 \in S
  <2>1. PICK w : Widens(g, a, m, w)
    BY <1>2
  <2> DEFINE t == [k \in 0 .. m + 1 |-> IF k = m + 1 THEN Wider(g, w[m]) ELSE w[k]]
  <2>2. w = [k \in 0 .. m |-> IF k = 0 THEN {a} ELSE Wider(g, w[k - 1])]
    BY <2>1 DEF Widens
  <2>3. \A k \in 0 .. m : t[k] = w[k]
    OBVIOUS
  <2>4. t[m + 1] = Wider(g, w[m])
    OBVIOUS
  <2>5. \A k \in 0 .. m + 1 : t[k] = IF k = 0 THEN {a} ELSE Wider(g, t[k - 1])
    <3> SUFFICES ASSUME NEW k \in 0 .. m + 1 PROVE t[k] = IF k = 0 THEN {a} ELSE Wider(g, t[k - 1])
      OBVIOUS
    <3> HIDE DEF t
    <3>1. CASE k = m + 1
      <4>1. t[k - 1] = w[m] /\ k # 0
        BY <2>3, <3>1
      <4> QED BY <2>4, <3>1, <4>1
    <3>2. CASE k \in 0 .. m
      <4>1. w[k] = IF k = 0 THEN {a} ELSE Wider(g, w[k - 1])
        BY <2>2, <3>2
      <4>2. k # 0 => t[k - 1] = w[k - 1]
        BY <2>3, <3>2
      <4> QED BY <2>3, <3>2, <4>1, <4>2
    <3> QED BY <3>1, <3>2
  <2>6. t = [k \in 0 .. m + 1 |-> t[k]]
    OBVIOUS
  <2> HIDE DEF t
  <2>7. t = [k \in 0 .. m + 1 |-> IF k = 0 THEN {a} ELSE Wider(g, t[k - 1])]
    BY <2>5, <2>6
  <2>8. Widens(g, a, m + 1, t)
    BY <2>7 DEF Widens
  <2> QED BY <2>8
<1> HIDE DEF S
<1>3. n \in S
  BY <1>1, <1>2, UpTo
<1> QED BY <1>3 DEF S

-----------------------------------------------------------------------------
(* Paths of a graph.                                                       *)

Arc(g, a, b) == \E i \in DOMAIN g[a] : g[a][i] = b
ArcClosed(g, S) == \A a \in S, b \in DOMAIN g : Arc(g, a, b) => b \in S
Route(g, a, b) == \A S \in SUBSET DOMAIN g : a \in S /\ ArcClosed(g, S) => b \in S
Alike(g, a, b) == Route(g, a, b) /\ Route(g, b, a)

\* The empty path, an arc, and one path after another.
LEMMA Routes ==
  ASSUME NEW g
  PROVE  /\ \A a : Route(g, a, a)
         /\ \A a, b \in DOMAIN g : Arc(g, a, b) => Route(g, a, b)
         /\ \A a, b, c : Route(g, a, b) /\ Route(g, b, c) => Route(g, a, c)
<1>1. \A a : Route(g, a, a)
  BY DEF Route
<1>2. \A a, b \in DOMAIN g : Arc(g, a, b) => Route(g, a, b)
  BY DEF Route, ArcClosed
<1>3. \A a, b, c : Route(g, a, b) /\ Route(g, b, c) => Route(g, a, c)
  BY DEF Route
<1> QED BY <1>1, <1>2, <1>3

\* To be in one component is an equivalence.
LEMMA Alikes ==
  ASSUME NEW g
  PROVE  /\ \A a : Alike(g, a, a)
         /\ \A a, b : Alike(g, a, b) => Alike(g, b, a)
         /\ \A a, b, c : Alike(g, a, b) /\ Alike(g, b, c) => Alike(g, a, c)
BY Routes DEF Alike

\* What leads out of a set passes through an arc out of it.
LEMMA RouteOut ==
  ASSUME NEW g, NEW S \in SUBSET DOMAIN g, NEW a \in S, NEW b \in DOMAIN g \ S, Route(g, a, b)
  PROVE  \E c \in S, d \in DOMAIN g \ S : Arc(g, c, d)
BY DEF Route, ArcClosed

\* The arcs stay in the graph, and the graph is finite.
LEMMA ArcTypes ==
  ASSUME NEW g \in FlowGraphs, NEW a \in DOMAIN g
  PROVE  /\ g[a] \in Seq(DOMAIN g)
         /\ \A i \in 1 .. Len(g[a]) : g[a][i] \in DOMAIN g /\ Arc(g, a, g[a][i])
         /\ IsFiniteSet(DOMAIN g) /\ DOMAIN g \subseteq Nat
<1>1. PICK n \in Nat : DOMAIN g = 0 .. n - 1 /\ g \in [DOMAIN g -> Seq(DOMAIN g)]
  BY DEF FlowGraphs
<1>2. g[a] \in Seq(DOMAIN g)
  BY <1>1
<1>3. \A i \in 1 .. Len(g[a]) : g[a][i] \in DOMAIN g /\ Arc(g, a, g[a][i])
  BY <1>2, ElementOfSeq DEF Arc
<1>4. IsFiniteSet(DOMAIN g) /\ DOMAIN g \subseteq Nat
  <2>1. IsFiniteSet(0 .. n - 1)
    <3>1. 0 \in Int /\ n - 1 \in Int
      BY <1>1
    <3> QED BY <3>1, FS_Interval
  <2> QED BY <1>1, <2>1
<1> QED BY <1>2, <1>3, <1>4

\* LedTo is what a block leads to: as many steps as there are blocks are enough.
LEMMA LedToRoutes ==
  ASSUME NEW g \in FlowGraphs, NEW a \in DOMAIN g
  PROVE  LedTo(g, a) = {b \in DOMAIN g : Route(g, a, b)}
<1> DEFINE n == Cardinality(DOMAIN g)
<1>1. n \in Nat /\ IsFiniteSet(DOMAIN g)
  <2>1. IsFiniteSet(DOMAIN g)
    BY ArcTypes
  <2> QED BY <2>1, FS_CardinalityType
<1>2. PICK w : Widens(g, a, n, w)
  BY <1>1, WidensExists
<1> DEFINE u == CHOOSE f : Widens(g, a, n, f)
<1>3. Widens(g, a, n, u)
  BY <1>2
<1>4. LedTo(g, a) = u[n]
  BY DEF LedTo, Widens
<1> HIDE DEF u
<1>5. u[0] = {a} /\ \A k \in 0 .. n - 1 : u[k + 1] = Wider(g, u[k])
  <2>1. u = [k \in 0 .. n |-> IF k = 0 THEN {a} ELSE Wider(g, u[k - 1])]
    BY <1>3 DEF Widens
  <2> HIDE DEF n
  <2>2. u[0] = {a}
    BY <1>1, <2>1
  <2>3. ASSUME NEW k \in 0 .. n - 1 PROVE u[k + 1] = Wider(g, u[k])
    <3>1. k + 1 \in 0 .. n /\ k + 1 # 0 /\ (k + 1) - 1 = k
      BY <1>1
    <3> QED BY <2>1, <3>1
  <2> QED BY <2>2, <2>3
<1> HIDE DEF n
<1>6. \A s \in SUBSET DOMAIN g : \A x : x \in Wider(g, s) <=> x \in s \/ \E c \in s : x \in DOMAIN g /\ Arc(g, c, x)
  <2> SUFFICES ASSUME NEW s \in SUBSET DOMAIN g, NEW x
               PROVE  x \in Wider(g, s) <=> x \in s \/ \E c \in s : x \in DOMAIN g /\ Arc(g, c, x)
    OBVIOUS
  <2>1. \A c \in s : x \in Range(g[c]) <=> x \in DOMAIN g /\ Arc(g, c, x)
    <3> SUFFICES ASSUME NEW c \in s PROVE x \in Range(g[c]) <=> x \in DOMAIN g /\ Arc(g, c, x)
      OBVIOUS
    <3>1. g[c] \in Seq(DOMAIN g)
      BY ArcTypes
    <3>2. \A i \in DOMAIN g[c] : g[c][i] \in DOMAIN g
      BY <3>1, LenProperties, ElementOfSeq
    <3> QED BY <3>2 DEF Range, Arc
  <2> QED BY <2>1 DEF Wider
<1> DEFINE T == {k \in 0 .. n : u[k] \in SUBSET DOMAIN g /\ a \in u[k] /\ \A b \in u[k] : Route(g, a, b)}
<1>7. \A k \in 0 .. n : k \in T
  <2>1. 0 \in T
    BY <1>1, <1>5, Routes
  <2>2. ASSUME NEW k \in 0 .. n - 1, k \in T PROVE k + 1 \in T
    <3>1. u[k + 1] = Wider(g, u[k]) /\ u[k] \in SUBSET DOMAIN g /\ a \in u[k] /\ \A b \in u[k] : Route(g, a, b)
      BY <1>5, <2>2
    <3>2. u[k + 1] \in SUBSET DOMAIN g /\ a \in u[k + 1]
      BY <1>6, <3>1
    <3>3. \A b \in u[k + 1] : Route(g, a, b)
      <4> SUFFICES ASSUME NEW b \in u[k + 1], b \notin u[k] PROVE Route(g, a, b)
        BY <3>1
      <4>1. PICK c \in u[k] : b \in DOMAIN g /\ Arc(g, c, b)
        BY <1>6, <3>1
      <4>2. Route(g, c, b) /\ Route(g, a, c)
        BY <3>1, <4>1, Routes
      <4> QED BY <4>2, Routes
    <3>4. k + 1 \in 0 .. n
      BY <1>1
    <3> QED BY <3>2, <3>3, <3>4
  <2> HIDE DEF T
  <2> QED BY <1>1, <2>1, <2>2, UpTo
<1> DEFINE G == {k \in 0 .. n : ArcClosed(g, u[k]) \/ Cardinality(u[k]) >= k + 1}
<1>8. \A k \in 0 .. n : u[k] \in SUBSET DOMAIN g /\ a \in u[k] /\ \A b \in u[k] : Route(g, a, b)
  BY <1>7
<1>9. \A k \in 0 .. n : k \in G
  <2>1. 0 \in G
    <3>1. Cardinality({a}) = 1
      BY FS_Singleton
    <3>2. Cardinality(u[0]) = 1
      BY <1>5, <3>1
    <3> QED BY <1>1, <3>2
  <2>2. ASSUME NEW k \in 0 .. n - 1, k \in G PROVE k + 1 \in G
    <3>1. /\ u[k + 1] = Wider(g, u[k]) /\ u[k] \in SUBSET DOMAIN g /\ u[k + 1] \in SUBSET DOMAIN g
          /\ k + 1 \in 0 .. n /\ k \in Nat
      BY <1>1, <1>5, <1>8
    <3>2. CASE ArcClosed(g, u[k])
      <4>1. u[k + 1] = u[k]
        BY <1>6, <3>1, <3>2 DEF ArcClosed
      <4> QED BY <3>1, <3>2, <4>1
    <3>3. CASE ~ArcClosed(g, u[k])
      <4>1. PICK c \in u[k], d \in DOMAIN g : Arc(g, c, d) /\ d \notin u[k]
        BY <3>3 DEF ArcClosed
      <4>2. u[k] \subseteq u[k + 1] /\ u[k + 1] # u[k]
        BY <1>6, <3>1, <4>1
      <4>3. IsFiniteSet(u[k + 1]) /\ IsFiniteSet(u[k])
        BY <1>1, <3>1, FS_Subset
      <4>4. Cardinality(u[k + 1]) \in Nat /\ Cardinality(u[k]) \in Nat
        BY <4>3, FS_CardinalityType
      <4>5. Cardinality(u[k]) <= Cardinality(u[k + 1]) /\ Cardinality(u[k]) # Cardinality(u[k + 1])
        BY <4>2, <4>3, FS_Subset
      <4>6. Cardinality(u[k]) >= k + 1
        BY <2>2, <3>3
      <4>7. Cardinality(u[k + 1]) >= (k + 1) + 1
        BY <3>1, <4>4, <4>5, <4>6
      <4> QED BY <3>1, <4>7
    <3> QED BY <3>2, <3>3
  <2> HIDE DEF G
  <2> QED BY <1>1, <2>1, <2>2, UpTo
<1>10. u[n] \in SUBSET DOMAIN g /\ a \in u[n] /\ ArcClosed(g, u[n])
  <2>1. n \in 0 .. n
    BY <1>1
  <2>2. u[n] \in SUBSET DOMAIN g /\ a \in u[n]
    BY <1>8, <2>1
  <2>3. Cardinality(u[n]) <= n /\ Cardinality(u[n]) \in Nat
    BY <1>1, <2>2, FS_Subset, FS_CardinalityType DEF n
  <2>4. n \in G
    BY <1>9, <2>1
  <2> QED BY <1>1, <2>2, <2>3, <2>4
<1>11. \A b \in u[n] : Route(g, a, b)
  BY <1>1, <1>8
<1> QED BY <1>4, <1>10, <1>11 DEF Route

-----------------------------------------------------------------------------
(* compute_cfg_sccs.  Paths of its graph.                                  *)

V == DOMAIN nexts

Arrow(a, b) == Arc(nexts, a, b)
Leads(a, b) == Route(nexts, a, b)
Same(a, b) == Alike(nexts, a, b)

-----------------------------------------------------------------------------
(* The inductive invariant.                                                *)

On == {path[i].block : i \in DOMAIN path}
Off == {finished[i] : i \in DOMAIN finished}
Collected == UNION {comps[i].members : i \in DOMAIN comps}
Current == comps[Len(comps)].first

\* The types, and what is empty when.
SccTypeOK ==
  /\ pass \in {"idle", "finish", "collect", "arrange", "done"}
  /\ upto \in Nat
  /\ path \in Seq([block : V, seen : Nat])
  /\ visited \in SUBSET V
  /\ finished \in Seq(V)
  /\ pending \in SUBSET visited
  /\ comps \in Seq([first : V, members : SUBSET V])
  /\ sccs \in Seq(Seq(V))
  /\ pass # "idle" => nexts \in FlowGraphs
  /\ pass \in {"idle", "collect", "done"} => path = <<>>
  /\ pass \in {"idle", "done"} => finished = <<>>
  /\ pass = "idle" => visited = {} /\ upto = 0
  /\ pass # "collect" => pending = {}
  /\ pass \in {"idle", "finish"} => comps = <<>>
  /\ pass \in {"idle", "finish", "collect"} => sccs = <<>>
  /\ Len(sccs) <= Len(comps)
  /\ pass = "arrange" /\ ~(path = <<>> /\ finished = <<>>) => Len(sccs) < Len(comps)
  /\ pass = "done" => Len(sccs) = Len(comps)

\* A depth-first search: a block is on the stack, or left, or not visited.
Search ==
  /\ IsInjective(finished)
  /\ pass \in {"finish", "arrange"} =>
       /\ \A i, j \in DOMAIN path : path[i].block = path[j].block => i = j
       /\ visited = On \cup Off
       /\ On \cap Off = {}
       /\ \/ pass = "arrange" /\ path = <<>> /\ finished = <<>>
          \/ visited \subseteq Inside

\* The first pass: the stack is a path, what has been looked at is visited.
Stack ==
  pass = "finish" =>
    /\ \A i, j \in DOMAIN path : i <= j => Leads(path[i].block, path[j].block)
    /\ \A i \in DOMAIN path : \A k \in DOMAIN nexts[path[i].block] :
         k <= path[i].seen => nexts[path[i].block][k] \in visited
    /\ \A b \in Off : \A c \in V : Arrow(b, c) => c \in visited
    /\ \A b \in V : b < upto => b \in visited

\* A block that was left and leads to one that was not is in the component of one on the stack.
Pending1 ==
  pass = "finish" =>
    \A u \in Off, w \in V \ Off : Leads(u, w) => \E g \in On : Same(u, g)

\* Of a component that leads to another a block is left after all of the other, or not yet.
LeftLater ==
  pass \in {"finish", "collect"} =>
    \A i \in DOMAIN finished, u \in V :
      Leads(u, finished[i]) /\ ~Leads(finished[i], u)
        => \E g \in V : Same(u, g) /\ \A j \in 1 .. i : finished[j] # g

\* The second pass: what it took has a component, and what leads there, too.
Backwards ==
  pass = "collect" =>
    /\ V \ Off \subseteq visited
    /\ visited = pending \cup Collected
    /\ \A b \in visited \ pending, a \in V : Arrow(a, b) => a \in visited

\* What leads to the block it took last has a component or is in the component of that block.
Gathered ==
  pass = "collect" =>
    /\ pending # {} => comps # <<>>
    /\ comps # <<>> => \A u \in V : Leads(u, Current) => u \in visited \/ Same(u, Current)
    /\ \A b \in pending : Same(b, Current)

\* The components are those of their first blocks, all of them but the last one complete.
Components ==
  /\ \A i \in DOMAIN comps :
       /\ comps[i].first \in comps[i].members \/ (i = Len(comps) /\ comps[i].first \in pending)
       /\ \A b \in comps[i].members : Same(b, comps[i].first)
       /\ i < Len(comps) \/ pending = {} =>
            \A b \in V : Same(b, comps[i].first) => b \in comps[i].members
  /\ \A i, j \in DOMAIN comps : i < j => ~Leads(comps[j].first, comps[i].first)
  /\ pass \in {"arrange", "done"} => Collected = V

\* The result so far.
Arranged ==
  \A i \in DOMAIN sccs :
    /\ Range(sccs[i]) = comps[i].members
    /\ IsInjective(sccs[i])

SccInv == SccTypeOK /\ Search /\ Stack /\ Pending1 /\ LeftLater /\ Backwards /\ Gathered
          /\ Components /\ Arranged

-----------------------------------------------------------------------------
(* Lemmas.                                                                 *)

\* The relations depend on nothing but the graph, which stays.
LEMMA Fixed ==
  ASSUME nexts' = nexts
  PROVE  /\ V' = V
         /\ \A a, b : Arrow(a, b)' <=> Arrow(a, b)
         /\ \A a, b : Leads(a, b)' <=> Leads(a, b)
         /\ \A a, b : Same(a, b)' <=> Same(a, b)
BY DEF V, Arrow, Leads, Same

\* Paths: the empty one, an arrow, and one after another.
LEMMA Paths ==
  /\ \A a : Leads(a, a)
  /\ \A a, b \in V : Arrow(a, b) => Leads(a, b)
  /\ \A a, b, c : Leads(a, b) /\ Leads(b, c) => Leads(a, c)
BY Routes DEF V, Arrow, Leads

\* To be in one component is an equivalence: paths both ways.
LEMMA Classes ==
  /\ \A a : Same(a, a)
  /\ \A a, b : Same(a, b) => Same(b, a)
  /\ \A a, b, c : Same(a, b) /\ Same(b, c) => Same(a, c)
  /\ \A a, b : Same(a, b) <=> Leads(a, b) /\ Leads(b, a)
BY Alikes DEF Same, Leads, Alike

LEMMA WayOut ==
  ASSUME NEW S \in SUBSET V, NEW a \in S, NEW b \in V \ S, Leads(a, b)
  PROVE  \E c \in S, d \in V \ S : Arrow(c, d)
BY RouteOut DEF V, Arrow, Leads

\* The graph of a call.
LEMMA GraphFacts ==
  ASSUME nexts \in FlowGraphs
  PROVE  \E n \in Nat : V = 0 .. n - 1
BY DEF FlowGraphs, V

LEMMA GraphTypes ==
  ASSUME nexts \in FlowGraphs, NEW a \in V
  PROVE  /\ nexts[a] \in Seq(V)
         /\ \A i \in 1 .. Len(nexts[a]) : nexts[a][i] \in V /\ Arrow(a, nexts[a][i])
         /\ IsFiniteSet(V) /\ V \subseteq Nat
BY ArcTypes DEF V, Arrow

\* A sequence without its last element.
LEMMA FrontFacts ==
  ASSUME NEW T, NEW s \in Seq(T), s # <<>>
  PROVE  /\ Front(s) \in Seq(T)
         /\ Len(s) \in Nat \ {0}
         /\ Len(Front(s)) = Len(s) - 1
         /\ DOMAIN Front(s) = 1 .. Len(s) - 1
         /\ DOMAIN s = 1 .. Len(s)
         /\ \A i \in 1 .. Len(s) - 1 : Front(s)[i] = s[i]
         /\ Last(s) = s[Len(s)] /\ Last(s) \in T
<1>1. Len(s) \in Nat \ {0} /\ DOMAIN s = 1 .. Len(s)
  BY EmptySeq, LenProperties
<1>2. Front(s) = SubSeq(s, 1, Len(s) - 1)
  BY DEF Front
<1>3. /\ SubSeq(s, 1, Len(s) - 1) \in Seq(T)
      /\ Len(SubSeq(s, 1, Len(s) - 1)) = Len(s) - 1
      /\ \A i \in 1 .. Len(s) - 1 : SubSeq(s, 1, Len(s) - 1)[i] = s[i]
  BY <1>1
<1>4. DOMAIN Front(s) = 1 .. Len(s) - 1
  BY <1>2, <1>3
<1>5. Last(s) = s[Len(s)] /\ Last(s) \in T
  BY <1>1, ElementOfSeq DEF Last
<1> QED BY <1>1, <1>2, <1>3, <1>4, <1>5

\* The top of the stack, and the stack when a successor was looked at.
LEMMA TopFacts ==
  ASSUME SccTypeOK, path # <<>>
  PROVE  /\ pass \in {"finish", "arrange"} /\ nexts \in FlowGraphs
         /\ Len(path) \in Nat \ {0} /\ DOMAIN path = 1 .. Len(path) /\ Len(path) \in DOMAIN path
         /\ Top \in [block : V, seen : Nat]
         /\ Counted \in Seq([block : V, seen : Nat])
         /\ Len(Counted) = Len(path) /\ DOMAIN Counted = 1 .. Len(path)
         /\ \A i \in 1 .. Len(path) : Counted[i].block = path[i].block
         /\ \A i \in 1 .. Len(path) - 1 : Counted[i].seen = path[i].seen
         /\ Counted[Len(path)].seen = Top.seen + 1
<1>1. pass \in {"finish", "arrange"} /\ nexts \in FlowGraphs /\ path \in Seq([block : V, seen : Nat])
  BY DEF SccTypeOK
<1>2. Len(path) \in Nat \ {0} /\ DOMAIN path = 1 .. Len(path) /\ Len(path) \in DOMAIN path
  BY <1>1, EmptySeq, LenProperties
<1>3. Top \in [block : V, seen : Nat]
  BY <1>1, <1>2, ElementOfSeq DEF Top
<1>4. \A i \in DOMAIN path : path[i] \in [block : V, seen : Nat]
  BY <1>1, <1>2, ElementOfSeq
<1>5. Counted = [i \in 1 .. Len(path) |->
                   IF i = Len(path) THEN [Top EXCEPT !.seen = Top.seen + 1] ELSE path[i]]
  BY <1>2 DEF Counted, Top
<1>6. [Top EXCEPT !.seen = Top.seen + 1] \in [block : V, seen : Nat]
  BY <1>3
<1>7. Counted \in Seq([block : V, seen : Nat])
  <2>1. \A i \in 1 .. Len(path) :
          (IF i = Len(path) THEN [Top EXCEPT !.seen = Top.seen + 1] ELSE path[i]) \in [block : V, seen : Nat]
    BY <1>2, <1>4, <1>6
  <2>2. Counted \in [1 .. Len(path) -> [block : V, seen : Nat]]
    BY <1>5, <2>1
  <2>3. Len(path) \in Nat
    BY <1>2
  <2> QED BY <2>2, <2>3, SeqDef
<1>8. Len(Counted) = Len(path) /\ DOMAIN Counted = 1 .. Len(path)
  BY <1>5, <1>7, <1>2, LenProperties
<1>9. \A i \in 1 .. Len(path) : Counted[i].block = path[i].block
  BY <1>5, <1>3, <1>4, <1>2 DEF Top
<1>10. \A i \in 1 .. Len(path) - 1 : Counted[i].seen = path[i].seen
  BY <1>5, <1>2
<1>11. Counted[Len(path)].seen = Top.seen + 1
  BY <1>5, <1>2, <1>3
<1> QED BY <1>1, <1>2, <1>3, <1>7, <1>8, <1>9, <1>10, <1>11

\* The next successor of the top.
LEMMA SuccessorFacts ==
  ASSUME SccTypeOK, path # <<>>, MoreToSee
  PROVE  /\ Successor \in V /\ Arrow(Top.block, Successor)
         /\ Top.seen + 1 \in DOMAIN nexts[Top.block]
<1>1. Top.block \in V /\ Top.seen \in Nat /\ nexts \in FlowGraphs
  BY TopFacts
<1>2. nexts[Top.block] \in Seq(V)
  BY <1>1, GraphTypes
<1>3. Top.seen + 1 \in 1 .. Len(nexts[Top.block])
  BY <1>1, <1>2, LenProperties DEF MoreToSee
<1>4. Successor \in V /\ Arrow(Top.block, Successor)
  BY <1>1, <1>3, GraphTypes DEF Successor
<1>5. Top.seen + 1 \in DOMAIN nexts[Top.block]
  BY <1>2, <1>3, LenProperties
<1> QED BY <1>4, <1>5

LEMMA TypeInit == SccInit => SccTypeOK
<1> SUFFICES ASSUME SccInit PROVE SccTypeOK
  OBVIOUS
<1>1. pass = "idle" /\ path = <<>> /\ finished = <<>> /\ comps = <<>> /\ sccs = <<>>
      /\ upto = 0 /\ visited = {} /\ pending = {}
  BY DEF SccInit
<1> QED BY <1>1 DEF SccTypeOK

-----------------------------------------------------------------------------
(* Sequences of the elements of a set.                                     *)

\* A sequence without repetition is as long as its range.
LEMMA LenIsCardinality ==
  ASSUME NEW T, NEW s \in Seq(T), IsInjective(s)
  PROVE  IsFiniteSet(Range(s)) /\ Cardinality(Range(s)) = Len(s)
<1>1. Len(s) \in Nat /\ DOMAIN s = 1 .. Len(s) /\ s \in [1 .. Len(s) -> T]
  BY LenProperties
<1>2. s \in [1 .. Len(s) -> Range(s)] /\ \A y \in Range(s) : \E i \in 1 .. Len(s) : s[i] = y
  BY <1>1 DEF Range
<1>3. s \in Bijection(1 .. Len(s), Range(s))
  BY <1>1, <1>2 DEF Bijection, Injection, Surjection, IsInjective
<1>4. ExistsBijection(1 .. Len(s), Range(s))
  BY <1>3 DEF ExistsBijection
<1> QED BY <1>1, <1>4, FS_NatBijection, FS_CountingElements

\* SetToSeq has every element, once.
LEMMA SetToSeqFacts ==
  ASSUME NEW S, IsFiniteSet(S)
  PROVE  SetToSeq(S) \in Seq(S) /\ IsInjective(SetToSeq(S)) /\ Range(SetToSeq(S)) = S
<1> DEFINE n == Cardinality(S)
           s == SetToSeq(S)
<1>1. n \in Nat
  BY FS_CardinalityType
<1>2. \E f \in [1 .. n -> S] : IsInjective(f)
  <2>1. PICK m \in Nat : ExistsBijection(1 .. m, S)
    BY FS_NatBijection
  <2>2. m = n
    BY <2>1, FS_CountingElements
  <2>3. PICK f : f \in Bijection(1 .. n, S)
    BY <2>1, <2>2 DEF ExistsBijection
  <2> QED BY <2>3 DEF Bijection, Injection, IsInjective
<1>3. s \in [1 .. n -> S] /\ IsInjective(s)
  BY <1>2 DEF SetToSeq
<1>4. s \in Seq(S)
  BY <1>1, <1>3, SeqDef
<1>5. Len(s) = n
  BY <1>1, <1>3, <1>4, LenProperties
<1>6. Range(s) \subseteq S
  BY <1>3 DEF Range
<1>7. Cardinality(Range(s)) = n
  BY <1>3, <1>4, <1>5, LenIsCardinality
<1>8. Range(s) = S
  BY <1>6, <1>7, FS_Subset
<1> QED BY <1>3, <1>4, <1>8

\* A sequence, and the elements it has not, backwards.
LEMMA ReversedFacts ==
  ASSUME NEW T, NEW s \in Seq(T), IsInjective(s), NEW S \in SUBSET T, IsFiniteSet(S),
         S \cap Range(s) = {}
  PROVE  /\ Reverse(s \o SetToSeq(S)) \in Seq(T)
         /\ IsInjective(Reverse(s \o SetToSeq(S)))
         /\ Range(Reverse(s \o SetToSeq(S))) = Range(s) \cup S
<1> DEFINE t == SetToSeq(S)
           c == s \o t
           r == Reverse(c)
<1>1. t \in Seq(S) /\ IsInjective(t) /\ Range(t) = S
  BY SetToSeqFacts
<1>2. t \in Seq(T)
  BY <1>1, SeqMonotonic
<1> HIDE DEF t
<1>3. c \in Seq(T) /\ Len(c) = Len(s) + Len(t) /\ Range(c) = Range(s) \cup S
  BY <1>1, <1>2, ConcatProperties, RangeConcatenation
<1>4. /\ \A i \in 1 .. Len(s) : c[i] = s[i]
      /\ \A i \in Len(s) + 1 .. Len(s) + Len(t) : c[i] = t[i - Len(s)]
  BY <1>2, ConcatProperties
<1>5. /\ Len(s) \in Nat /\ DOMAIN s = 1 .. Len(s)
      /\ Len(t) \in Nat /\ DOMAIN t = 1 .. Len(t)
      /\ DOMAIN c = 1 .. Len(c)
  BY <1>2, <1>3, LenProperties
<1>6. IsInjective(c)
  <2> SUFFICES ASSUME NEW i \in 1 .. Len(c), NEW j \in 1 .. Len(c), c[i] = c[j]
               PROVE  i = j
    BY <1>5 DEF IsInjective
  <2>1. \A k \in 1 .. Len(s) : c[k] \in Range(s)
    BY <1>4, <1>5 DEF Range
  <2>2. \A k \in Len(s) + 1 .. Len(s) + Len(t) : c[k] \in S /\ k - Len(s) \in DOMAIN t
    BY <1>1, <1>4, <1>5 DEF Range
  <2>3. CASE i <= Len(s) /\ j <= Len(s)
    BY <2>3, <1>3, <1>4, <1>5 DEF IsInjective
  <2>4. CASE i > Len(s) /\ j > Len(s)
    <3>1. t[i - Len(s)] = t[j - Len(s)] /\ i - Len(s) \in DOMAIN t /\ j - Len(s) \in DOMAIN t
      BY <2>4, <2>2, <1>3, <1>4, <1>5
    <3>2. i - Len(s) = j - Len(s)
      BY <3>1, <1>1 DEF IsInjective
    <3> QED BY <3>2, <1>5, <1>3
  <2>5. CASE (i <= Len(s)) # (j <= Len(s))
    BY <2>5, <2>1, <2>2, <1>3, <1>5
  <2> QED BY <2>3, <2>4, <2>5, <1>3, <1>5
<1> HIDE DEF c
<1>7. r = [i \in 1 .. Len(c) |-> c[(Len(c) - i) + 1]]
  BY DEF Reverse
<1> HIDE DEF r
<1>8. Len(c) \in Nat
  BY <1>3, LenProperties
<1>9. \A i \in 1 .. Len(c) : (Len(c) - i) + 1 \in 1 .. Len(c)
  BY <1>8
<1>10. r \in [1 .. Len(c) -> T] /\ DOMAIN r = 1 .. Len(c)
  BY <1>3, <1>7, <1>9, ElementOfSeq
<1>11. r \in Seq(T)
  BY <1>8, <1>10, SeqDef
<1>12. IsInjective(r)
  BY <1>6, <1>7, <1>8, <1>9, <1>5 DEF IsInjective
<1>13. Range(r) = Range(c)
  <2>1. Range(r) \subseteq Range(c)
    BY <1>5, <1>7, <1>9, <1>10 DEF Range
  <2>2. \A i \in 1 .. Len(c) : r[(Len(c) - i) + 1] = c[i]
    BY <1>7, <1>8, <1>9
  <2>3. Range(c) \subseteq Range(r)
    BY <1>5, <1>9, <1>10, <2>2 DEF Range
  <2> QED BY <2>1, <2>3
<1> QED BY <1>3, <1>11, <1>12, <1>13 DEF r, c, t

-----------------------------------------------------------------------------
(* The types.                                                              *)

\* The component that is arranged.
LEMMA InsideFacts ==
  ASSUME SccTypeOK, pass = "finish" \/ Len(sccs) < Len(comps)
  PROVE  /\ Inside \subseteq V
         /\ pass # "finish" => /\ Len(sccs) + 1 \in DOMAIN comps
                               /\ Component.first \in V
                               /\ Inside = comps[Len(sccs) + 1].members
<1>1. comps \in Seq([first : V, members : SUBSET V]) /\ Len(sccs) \in Nat
  BY LenProperties DEF SccTypeOK
<1>2. CASE pass = "finish"
  BY <1>2 DEF Inside, V
<1>3. CASE pass # "finish"
  <2>1. Len(sccs) + 1 \in 1 .. Len(comps) /\ DOMAIN comps = 1 .. Len(comps)
    BY <1>1, <1>3, LenProperties
  <2>2. comps[Len(sccs) + 1] \in [first : V, members : SUBSET V]
    BY <1>1, <2>1, ElementOfSeq
  <2> QED BY <1>3, <2>1, <2>2 DEF Inside, Component
<1> QED BY <1>2, <1>3

LEMMA TypeStep == SccTypeOK /\ Search /\ [SccNext]_sccVars => SccTypeOK'
<1> SUFFICES ASSUME SccTypeOK, Search, [SccNext]_sccVars PROVE SccTypeOK'
  OBVIOUS
<1> USE DEF SccTypeOK
<1>1. CASE UNCHANGED sccVars
  BY <1>1 DEF sccVars, V
<1>2. ASSUME NEW g \in FlowGraphs, CallSccs(g) PROVE SccTypeOK'
  <2>1. path' = <<>> /\ finished' = <<>> /\ comps' = <<>> /\ sccs' = <<>>
        /\ visited' = {} /\ pending' = {} /\ pass' = "finish" /\ nexts' \in FlowGraphs /\ upto' \in Nat
    <3>1. path = <<>> /\ finished = <<>> /\ comps = <<>> /\ sccs = <<>> /\ pending = {}
      BY <1>2 DEF CallSccs
    <3>2. visited = {}
      BY <1>2 DEF CallSccs
    <3> QED BY <1>2, <3>1, <3>2 DEF CallSccs
  <2> QED BY <2>1
<1>3. CASE SccStep
  <2>0. V' = V /\ nexts \in FlowGraphs
    BY <1>3 DEF SccStep, Look, Leave, Begin1, End1, Begin2, Gather, End2, Begin3, Arrange, End3, V
  <2>1. CASE Look
    <3>1. pass \in {"finish", "arrange"} /\ Counted \in Seq([block : V, seen : Nat]) /\ Successor \in V
      BY <2>1, TopFacts, SuccessorFacts DEF Look
    <3>2. [block |-> Successor, seen |-> 0] \in [block : V, seen : Nat]
      BY <3>1
    <3>3. path' \in Seq([block : V, seen : Nat]) /\ visited' \in SUBSET V
      <4>1. Append(Counted, [block |-> Successor, seen |-> 0]) \in Seq([block : V, seen : Nat])
        BY <3>1, <3>2, AppendProperties
      <4> QED BY <2>1, <3>1, <4>1 DEF Look
    <3>4. path # <<>>
      BY <2>1 DEF Look
    <3>5. UNCHANGED <<nexts, pass, upto, finished, pending, comps, sccs>> /\ visited \subseteq visited'
      BY <2>1 DEF Look
    <3> QED BY <2>0, <3>1, <3>3, <3>4, <3>5
  <2>2. CASE Leave
    <3>1. pass \in {"finish", "arrange"} /\ Top.block \in V /\ path # <<>>
      BY <2>2, TopFacts DEF Leave
    <3>2. path' \in Seq([block : V, seen : Nat])
      BY <2>2, <3>1, FrontFacts DEF Leave
    <3>3. finished' \in Seq(V)
      BY <2>2, <3>1, AppendProperties DEF Leave
    <3>4. UNCHANGED <<nexts, pass, upto, visited, pending, comps, sccs>>
      BY <2>2 DEF Leave
    <3> QED BY <2>0, <3>1, <3>2, <3>3, <3>4
  <2>3. CASE Begin1
    <3>1. pass = "finish" /\ upto \in V /\ upto \in Nat /\ path \in Seq([block : V, seen : Nat])
      BY <2>3 DEF Begin1, V
    <3>2. [block |-> upto, seen |-> 0] \in [block : V, seen : Nat]
      BY <3>1
    <3>3. path' \in Seq([block : V, seen : Nat]) /\ visited' \in SUBSET V
      <4>1. CASE upto \in visited
        BY <2>3, <4>1 DEF Begin1
      <4>2. CASE upto \notin visited
        <5>1. path' = Append(<<>>, [block |-> upto, seen |-> 0]) /\ path = <<>>
          BY <2>3, <4>2 DEF Begin1
        <5>2. <<>> \in Seq([block : V, seen : Nat])
          BY EmptySeq
        <5>3. path' \in Seq([block : V, seen : Nat])
          BY <3>2, <5>1, <5>2, AppendProperties
        <5>4. visited' = visited \cup {upto}
          BY <2>3, <4>2 DEF Begin1
        <5> QED BY <3>1, <5>3, <5>4
      <4> QED BY <4>1, <4>2
    <3>4. upto' = upto + 1 /\ visited \subseteq visited'
          /\ UNCHANGED <<nexts, pass, finished, pending, comps, sccs>>
      BY <2>3 DEF Begin1
    <3> QED BY <2>0, <3>1, <3>3, <3>4
  <2>4. CASE End1
    BY <2>0, <2>4 DEF End1
  <2>5. CASE Begin2
    <3>1. pass = "collect" /\ Front(finished) \in Seq(V) /\ Last(finished) \in V
      BY <2>5, FrontFacts DEF Begin2
    <3>2. [first |-> Last(finished), members |-> {}] \in [first : V, members : SUBSET V]
      BY <3>1
    <3>3. /\ comps' \in Seq([first : V, members : SUBSET V])
          /\ Len(sccs) <= Len(comps')
          /\ visited' \in SUBSET V /\ pending' \in SUBSET visited'
      <4>1. CASE Last(finished) \in visited
        BY <2>5, <4>1, <3>1 DEF Begin2
      <4>2. CASE Last(finished) \notin visited
        <5>1. /\ Append(comps, [first |-> Last(finished), members |-> {}]) \in Seq([first : V, members : SUBSET V])
              /\ Len(Append(comps, [first |-> Last(finished), members |-> {}])) = Len(comps) + 1
          BY <3>2, AppendProperties
        <5>2. Len(comps) \in Nat /\ Len(sccs) \in Nat
          BY LenProperties
        <5>3. /\ visited' = visited \cup {Last(finished)} /\ pending' = {Last(finished)}
              /\ comps' = Append(comps, [first |-> Last(finished), members |-> {}])
          BY <2>5, <4>2 DEF Begin2
        <5>4. Len(sccs) <= Len(comps')
          BY <5>1, <5>2, <5>3
        <5> QED BY <3>1, <5>1, <5>3, <5>4
      <4> QED BY <4>1, <4>2
    <3>4. finished' \in Seq(V) /\ UNCHANGED <<nexts, pass, upto, path, sccs>>
      BY <2>5, <3>1 DEF Begin2
    <3> QED BY <2>0, <3>1, <3>3, <3>4
  <2>6. CASE Gather
    <3>1. PICK b \in pending :
            /\ pending' = (pending \ {b}) \cup (LeadingTo(b) \ visited)
            /\ visited' = visited \cup LeadingTo(b)
            /\ comps' = [comps EXCEPT ![Len(comps)].members = @ \cup {b}]
      BY <2>6 DEF Gather
    <3>2. LeadingTo(b) \subseteq V
      BY DEF LeadingTo, V
    <3>3. comps' \in Seq([first : V, members : SUBSET V]) /\ Len(comps') = Len(comps)
      <4>1. CASE comps = <<>>
        <5>1. Len(comps) \notin DOMAIN comps
          BY <4>1
        <5>2. comps' = comps
          BY <3>1, <5>1
        <5> QED BY <5>2
      <4>2. CASE comps # <<>>
        <5>1. Len(comps) \in 1 .. Len(comps) /\ DOMAIN comps = 1 .. Len(comps)
          BY <4>2, EmptySeq, LenProperties
        <5>2. comps[Len(comps)] \in [first : V, members : SUBSET V]
          BY <5>1, ElementOfSeq
        <5> DEFINE c == [comps[Len(comps)] EXCEPT !.members = comps[Len(comps)].members \cup {b}]
        <5>3. c \in [first : V, members : SUBSET V]
          BY <5>2
        <5>4. comps' = [comps EXCEPT ![Len(comps)] = c]
          BY <3>1
        <5> HIDE DEF c
        <5> QED BY <5>1, <5>3, <5>4, ExceptSeq
      <4> QED BY <4>1, <4>2
    <3>4. pass = "collect" /\ UNCHANGED <<nexts, pass, upto, path, finished, sccs>>
      BY <2>6 DEF Gather
    <3> QED BY <2>0, <3>1, <3>2, <3>3, <3>4
  <2>7. CASE End2
    BY <2>0, <2>7 DEF End2
  <2>8. CASE Begin3
    <3>1. pass = "arrange" /\ Component.first \in V
      BY <2>8, InsideFacts DEF Begin3
    <3>2. [block |-> Component.first, seen |-> 0] \in [block : V, seen : Nat]
      BY <3>1
    <3>3. path' = Append(<<>>, [block |-> Component.first, seen |-> 0]) /\ path = <<>>
      BY <2>8 DEF Begin3
    <3>4. path' \in Seq([block : V, seen : Nat])
      BY <3>2, <3>3, AppendProperties
    <3>5. visited' \in SUBSET V /\ pending = {} /\ Len(sccs) < Len(comps)
          /\ UNCHANGED <<nexts, pass, upto, finished, pending, comps, sccs>>
      BY <2>8, <3>1 DEF Begin3
    <3> QED BY <2>0, <3>1, <3>4, <3>5
  <2>9. CASE Arrange
    <3>1. pass = "arrange" /\ path = <<>> /\ finished # <<>>
      BY <2>9 DEF Arrange
    <3>2. Inside \subseteq V /\ Len(sccs) < Len(comps)
      BY <3>1, InsideFacts
    <3> DEFINE r == Reverse(finished \o SetToSeq(Inside \ visited))
    <3>3. IsFiniteSet(Inside \ visited)
      <4>1. PICK n \in Nat : V = 0 .. n - 1
        BY <2>0, GraphFacts
      <4>2. IsFiniteSet(V)
        BY <4>1, FS_Interval
      <4> QED BY <4>2, <3>2, FS_Subset
    <3>4. Range(finished) \subseteq visited
      BY <3>1 DEF Search, Off, Range
    <3>5. r \in Seq(V)
      BY <3>2, <3>3, <3>4, ReversedFacts DEF Search
    <3> HIDE DEF r
    <3>6. sccs' = Append(sccs, r)
      BY <2>9 DEF Arrange, r
    <3>7. sccs' \in Seq(Seq(V)) /\ Len(sccs') = Len(sccs) + 1
      BY <3>5, <3>6, AppendProperties
    <3>8. Len(sccs) \in Nat /\ Len(comps) \in Nat
      BY LenProperties
    <3>9. finished' = <<>> /\ visited' = {} /\ UNCHANGED <<nexts, pass, upto, path, pending, comps>>
      BY <2>9 DEF Arrange
    <3>10. Len(sccs') <= Len(comps')
      BY <3>2, <3>7, <3>8, <3>9
    <3> QED BY <2>0, <3>1, <3>7, <3>9, <3>10
  <2>10. CASE End3
    BY <2>0, <2>10 DEF End3
  <2> QED BY <1>3, <2>1, <2>2, <2>3, <2>4, <2>5, <2>6, <2>7, <2>8, <2>9, <2>10 DEF SccStep
<1> QED BY <1>1, <1>2, <1>3 DEF SccNext

-----------------------------------------------------------------------------
(* Depth-first search.                                                     *)

\* What a look does to the stack.
LEMMA LookFacts ==
  ASSUME SccTypeOK, Look
  PROVE  /\ \A i \in 1 .. Len(path) : path'[i].block = path[i].block
         /\ \A i \in 1 .. Len(path) - 1 : path'[i].seen = path[i].seen
         /\ path'[Len(path)].seen = Top.seen + 1
         /\ IF Successor \in Inside \ visited
              THEN /\ DOMAIN path' = 1 .. Len(path) + 1
                   /\ path'[Len(path) + 1] = [block |-> Successor, seen |-> 0]
                   /\ visited' = visited \cup {Successor}
                   /\ On' = On \cup {Successor}
              ELSE /\ DOMAIN path' = 1 .. Len(path)
                   /\ visited' = visited
                   /\ On' = On
<1>1. path # <<>> /\ Counted \in Seq([block : V, seen : Nat]) /\ Successor \in V
  BY TopFacts, SuccessorFacts DEF Look
<1>2. /\ Len(path) \in Nat \ {0} /\ DOMAIN path = 1 .. Len(path)
      /\ Len(Counted) = Len(path) /\ DOMAIN Counted = 1 .. Len(path)
      /\ \A i \in 1 .. Len(path) : Counted[i].block = path[i].block
      /\ \A i \in 1 .. Len(path) - 1 : Counted[i].seen = path[i].seen
      /\ Counted[Len(path)].seen = Top.seen + 1
  BY <1>1, TopFacts
<1> DEFINE new == [block |-> Successor, seen |-> 0]
<1>3. new \in [block : V, seen : Nat] /\ new.block = Successor
  BY <1>1
<1> HIDE DEF new
<1>4. /\ Append(Counted, new) \in Seq([block : V, seen : Nat])
      /\ Len(Append(Counted, new)) = Len(path) + 1
      /\ \A i \in 1 .. Len(path) : Append(Counted, new)[i] = Counted[i]
      /\ Append(Counted, new)[Len(path) + 1] = new
  BY <1>1, <1>2, <1>3, AppendProperties
<1>5. DOMAIN Append(Counted, new) = 1 .. Len(path) + 1
  BY <1>4, LenProperties
<1>6. CASE Successor \in Inside \ visited
  <2>1. path' = Append(Counted, new) /\ visited' = visited \cup {Successor}
    BY <1>6 DEF Look, new
  <2>2. /\ \A i \in 1 .. Len(path) : path'[i] = Counted[i]
        /\ DOMAIN path' = 1 .. Len(path) + 1
        /\ path'[Len(path) + 1] = new
    BY <1>4, <1>5, <2>1
  <2>3. /\ \A i \in 1 .. Len(path) : path'[i].block = path[i].block
        /\ \A i \in 1 .. Len(path) - 1 : path'[i].seen = path[i].seen
        /\ path'[Len(path)].seen = Top.seen + 1
    BY <1>2, <2>2
  <2>4. On' = On \cup {Successor}
    <3>1. On' = {path'[i].block : i \in 1 .. Len(path) + 1}
      BY <2>2 DEF On
    <3>2. path'[Len(path) + 1].block = Successor
      BY <2>2, <1>3
    <3>3. 1 .. Len(path) + 1 = (1 .. Len(path)) \cup {Len(path) + 1}
      BY <1>2
    <3>4. On = {path[i].block : i \in 1 .. Len(path)}
      BY <1>2 DEF On
    <3> QED BY <3>1, <3>2, <3>3, <3>4, <2>3
  <2> QED BY <1>6, <2>1, <2>2, <2>3, <2>4 DEF new
<1>7. CASE Successor \notin Inside \ visited
  <2>1. path' = Counted /\ visited' = visited
    BY <1>7 DEF Look
  <2>2. On' = On
    BY <1>2, <2>1 DEF On
  <2> QED BY <1>2, <1>7, <2>1, <2>2
<1> QED BY <1>6, <1>7

\* What leaving a block does.
LEMMA LeaveFacts ==
  ASSUME SccTypeOK, Search, Leave
  PROVE  /\ Len(path) \in Nat \ {0} /\ DOMAIN path = 1 .. Len(path)
         /\ DOMAIN path' = 1 .. Len(path) - 1
         /\ \A i \in 1 .. Len(path) - 1 : path'[i] = path[i]
         /\ Top.block \in On /\ Top.block \in V
         /\ On' = On \ {Top.block}
         /\ Len(finished) \in Nat /\ DOMAIN finished = 1 .. Len(finished)
         /\ DOMAIN finished' = 1 .. Len(finished) + 1
         /\ \A i \in 1 .. Len(finished) : finished'[i] = finished[i]
         /\ finished'[Len(finished) + 1] = Top.block
         /\ Off' = Off \cup {Top.block}
<1>1. path # <<>> /\ path \in Seq([block : V, seen : Nat]) /\ pass \in {"finish", "arrange"}
  BY DEF Leave, SccTypeOK
<1>2. path' = Front(path) /\ finished' = Append(finished, Top.block)
  BY DEF Leave
<1>3. /\ Len(path) \in Nat \ {0} /\ DOMAIN path = 1 .. Len(path)
      /\ DOMAIN path' = 1 .. Len(path) - 1
      /\ \A i \in 1 .. Len(path) - 1 : path'[i] = path[i]
  BY <1>1, <1>2, FrontFacts
<1>4. Top.block \in On /\ Top.block \in V
  BY <1>1, <1>3, TopFacts DEF On, Top
<1>5. On' = On \ {Top.block}
  <2>1. \A i \in 1 .. Len(path) - 1 : path[i].block # Top.block
    BY <1>1, <1>3 DEF Search, Top
  <2>2. On = {path[i].block : i \in 1 .. Len(path)} /\ On' = {path[i].block : i \in 1 .. Len(path) - 1}
    BY <1>3 DEF On
  <2>3. 1 .. Len(path) = (1 .. Len(path) - 1) \cup {Len(path)}
    BY <1>3
  <2> QED BY <2>1, <2>2, <2>3 DEF Top
<1>6. finished \in Seq(V)
  BY DEF SccTypeOK
<1>7. /\ Len(finished) \in Nat /\ DOMAIN finished = 1 .. Len(finished)
      /\ DOMAIN finished' = 1 .. Len(finished) + 1
      /\ \A i \in 1 .. Len(finished) : finished'[i] = finished[i]
      /\ finished'[Len(finished) + 1] = Top.block
  BY <1>2, <1>4, <1>6, AppendProperties, LenProperties
<1>8. Off' = Off \cup {Top.block}
  <2>1. 1 .. Len(finished) + 1 = (1 .. Len(finished)) \cup {Len(finished) + 1}
    BY <1>7
  <2> QED BY <1>7, <2>1 DEF Off
<1> QED BY <1>3, <1>4, <1>5, <1>7, <1>8

\* What taking the last block from the finish stack does.
LEMMA TakeFacts ==
  ASSUME SccTypeOK, Begin2
  PROVE  /\ Len(finished) \in Nat \ {0} /\ DOMAIN finished = 1 .. Len(finished)
         /\ DOMAIN finished' = 1 .. Len(finished) - 1
         /\ \A i \in 1 .. Len(finished) - 1 : finished'[i] = finished[i]
         /\ Last(finished) = finished[Len(finished)] /\ Last(finished) \in V
         /\ Off = Off' \cup {Last(finished)}
<1>1. finished # <<>> /\ finished \in Seq(V) /\ finished' = Front(finished)
  BY DEF Begin2, SccTypeOK
<1>2. /\ Len(finished) \in Nat \ {0} /\ DOMAIN finished = 1 .. Len(finished)
      /\ DOMAIN finished' = 1 .. Len(finished) - 1
      /\ \A i \in 1 .. Len(finished) - 1 : finished'[i] = finished[i]
      /\ Last(finished) = finished[Len(finished)] /\ Last(finished) \in V
  BY <1>1, FrontFacts
<1>3. 1 .. Len(finished) = (1 .. Len(finished) - 1) \cup {Len(finished)}
  BY <1>2
<1> QED BY <1>2, <1>3 DEF Off

\* Nothing else touches the stack of a search, or only to start one.
LEMMA Started ==
  ASSUME NEW b, path' = <<[block |-> b, seen |-> 0]>>
  PROVE  On' = {b} /\ DOMAIN path' = {1} /\ path'[1].block = b /\ path'[1].seen = 0
<1>1. DOMAIN path' = {1} /\ path'[1] = [block |-> b, seen |-> 0]
  OBVIOUS
<1> QED BY <1>1 DEF On

LEMMA SearchStep == SccTypeOK /\ SccTypeOK' /\ Search /\ Components /\ [SccNext]_sccVars => Search'
<1> SUFFICES ASSUME SccTypeOK, SccTypeOK', Search, Components, [SccNext]_sccVars PROVE Search'
  OBVIOUS
<1>0. IsInjective(<<>>)
  BY DEF IsInjective
<1>1. CASE UNCHANGED sccVars
  BY <1>1 DEF sccVars, Search, On, Off, Inside, Component, V
<1>2. ASSUME NEW g \in FlowGraphs, CallSccs(g) PROVE Search'
  <2>1. path' = <<>> /\ finished' = <<>> /\ visited' = {}
    BY <1>2 DEF CallSccs, SccTypeOK
  <2>2. On' = {} /\ Off' = {}
    BY <2>1 DEF On, Off
  <2> QED BY <1>0, <2>1, <2>2 DEF Search
<1>3. CASE SccStep
  <2>1. CASE Look
    <3>1. /\ UNCHANGED <<nexts, pass, finished, comps, sccs>>
          /\ pass \in {"finish", "arrange"} /\ path # <<>>
          /\ Len(path) \in Nat \ {0} /\ DOMAIN path = 1 .. Len(path)
      BY <2>1, TopFacts DEF Look
    <3>2. Off' = Off /\ Inside' = Inside
      BY <3>1 DEF Off, Inside, Component
    <3>3. /\ IsInjective(finished)
          /\ \A i, j \in DOMAIN path : path[i].block = path[j].block => i = j
          /\ visited = On \cup Off /\ On \cap Off = {} /\ visited \subseteq Inside
      BY <3>1 DEF Search
    <3>4. CASE Successor \in Inside \ visited
      <4>1. /\ DOMAIN path' = 1 .. Len(path) + 1
            /\ \A i \in 1 .. Len(path) : path'[i].block = path[i].block
            /\ path'[Len(path) + 1] = [block |-> Successor, seen |-> 0]
            /\ visited' = visited \cup {Successor} /\ On' = On \cup {Successor}
        BY <2>1, <3>4, LookFacts
      <4>2. path'[Len(path) + 1].block = Successor
        BY <4>1
      <4>3. \A i \in 1 .. Len(path) : path[i].block \in On
        BY <3>1 DEF On
      <4>4. \A i, j \in DOMAIN path' : path'[i].block = path'[j].block => i = j
        BY <3>1, <3>3, <3>4, <4>1, <4>2, <4>3
      <4>5. visited' = On' \cup Off' /\ On' \cap Off' = {} /\ visited' \subseteq Inside'
        BY <3>2, <3>3, <3>4, <4>1
      <4> QED BY <3>1, <3>3, <4>4, <4>5 DEF Search
    <3>5. CASE Successor \notin Inside \ visited
      <4>1. /\ DOMAIN path' = 1 .. Len(path)
            /\ \A i \in 1 .. Len(path) : path'[i].block = path[i].block
            /\ visited' = visited /\ On' = On
        BY <2>1, <3>5, LookFacts
      <4>2. \A i, j \in DOMAIN path' : path'[i].block = path'[j].block => i = j
        BY <3>1, <3>3, <4>1
      <4> QED BY <3>1, <3>2, <3>3, <4>1, <4>2 DEF Search
    <3> QED BY <3>4, <3>5
  <2>2. CASE Leave
    <3>1. /\ UNCHANGED <<nexts, pass, visited, comps, sccs>>
          /\ pass \in {"finish", "arrange"} /\ path # <<>>
      BY <2>2, TopFacts DEF Leave
    <3>2. Inside' = Inside
      BY <3>1 DEF Inside, Component
    <3>3. /\ \A i, j \in DOMAIN finished : finished[i] = finished[j] => i = j
          /\ \A i, j \in DOMAIN path : path[i].block = path[j].block => i = j
          /\ visited = On \cup Off /\ On \cap Off = {} /\ visited \subseteq Inside
      BY <3>1 DEF Search, IsInjective
    <3>4. \A i \in 1 .. Len(finished) : finished[i] \in Off
      BY <2>2, LeaveFacts DEF Off
    <3>5. Top.block \notin Off
      BY <2>2, <3>3, LeaveFacts
    <3>6. IsInjective(finished')
      <4> SUFFICES ASSUME NEW i \in DOMAIN finished', NEW j \in DOMAIN finished', finished'[i] = finished'[j]
                   PROVE  i = j
        BY DEF IsInjective
      <4> QED BY <2>2, <3>3, <3>4, <3>5, LeaveFacts
    <3>7. \A i, j \in DOMAIN path' : path'[i].block = path'[j].block => i = j
      BY <2>2, <3>3, LeaveFacts
    <3>8. visited' = On' \cup Off' /\ On' \cap Off' = {} /\ visited' \subseteq Inside'
      BY <2>2, <3>1, <3>2, <3>3, LeaveFacts
    <3> QED BY <3>1, <3>6, <3>7, <3>8 DEF Search
  <2>3. CASE Begin1
    <3>1. pass = "finish" /\ path = <<>> /\ upto \in V
          /\ UNCHANGED <<nexts, pass, finished, comps, sccs>>
      BY <2>3 DEF Begin1, V
    <3>2. On = {} /\ visited = On \cup Off /\ Off' = Off /\ Inside = V /\ Inside' = V
      BY <3>1 DEF Search, On, Off, Inside, V
    <3>3. CASE upto \in visited
      <4>1. path' = path /\ visited' = visited
        BY <2>3, <3>3 DEF Begin1
      <4>2. On' = On
        BY <4>1 DEF On
      <4> QED BY <3>1, <3>2, <4>1, <4>2 DEF Search
    <3>4. CASE upto \notin visited
      <4>1. path' = <<[block |-> upto, seen |-> 0]>> /\ visited' = visited \cup {upto}
        BY <2>3, <3>4 DEF Begin1
      <4>2. On' = {upto} /\ DOMAIN path' = {1}
        BY <4>1, Started
      <4>3. visited' = On' \cup Off' /\ On' \cap Off' = {} /\ visited' \subseteq Inside'
        BY <3>1, <3>2, <3>4, <4>1, <4>2 DEF SccTypeOK
      <4>4. \A i, j \in DOMAIN path' : path'[i].block = path'[j].block => i = j
        BY <4>2
      <4>5. IsInjective(finished')
        BY <3>1 DEF Search
      <4> QED BY <4>3, <4>4, <4>5 DEF Search
    <3> QED BY <3>3, <3>4
  <2>4. CASE End1
    BY <2>4 DEF End1, Search
  <2>5. CASE Begin2
    <3>1. IsInjective(finished')
      BY <2>5, TakeFacts DEF Search, IsInjective
    <3>2. pass' = "collect"
      BY <2>5 DEF Begin2
    <3> QED BY <3>1, <3>2 DEF Search
  <2>6. CASE Gather
    BY <2>6 DEF Gather, Search
  <2>7. CASE End2
    <3>1. path' = <<>> /\ finished' = <<>> /\ visited' = {} /\ pass' = "arrange"
      BY <2>7 DEF End2, SccTypeOK
    <3>2. On' = {} /\ Off' = {}
      BY <3>1 DEF On, Off
    <3> QED BY <1>0, <3>1, <3>2 DEF Search
  <2>8. CASE Begin3
    <3>1. /\ pass = "arrange" /\ finished = <<>> /\ Len(sccs) < Len(comps)
          /\ path' = <<[block |-> Component.first, seen |-> 0]>> /\ visited' = {Component.first}
          /\ UNCHANGED <<nexts, pass, finished, comps, sccs, pending>>
      BY <2>8 DEF Begin3
    <3>2. On' = {Component.first} /\ DOMAIN path' = {1}
      BY <3>1, Started
    <3>3. Off' = {}
      BY <3>1 DEF Off
    <3>4. Component.first \in Inside'
      <4>1. pending = {} /\ Len(sccs) + 1 \in DOMAIN comps /\ Component = comps[Len(sccs) + 1]
        BY <3>1, InsideFacts DEF SccTypeOK, Component
      <4>2. Component.first \in Component.members
        BY <4>1 DEF Components
      <4> QED BY <3>1, <4>2 DEF Inside, Component
    <3> QED BY <1>0, <3>1, <3>2, <3>3, <3>4 DEF Search
  <2>9. CASE Arrange
    <3>1. path' = <<>> /\ finished' = <<>> /\ visited' = {} /\ pass' = "arrange"
      BY <2>9 DEF Arrange
    <3>2. On' = {} /\ Off' = {}
      BY <3>1 DEF On, Off
    <3> QED BY <1>0, <3>1, <3>2 DEF Search
  <2>10. CASE End3
    BY <2>10 DEF End3, Search
  <2> QED BY <1>3, <2>1, <2>2, <2>3, <2>4, <2>5, <2>6, <2>7, <2>8, <2>9, <2>10 DEF SccStep
<1> QED BY <1>1, <1>2, <1>3 DEF SccNext

\* No step but a call changes the graph.
LEMMA GraphStays ==
  ASSUME SccStep
  PROVE  nexts' = nexts
BY DEF SccStep, Look, Leave, Begin1, End1, Begin2, Gather, End2, Begin3, Arrange, End3

LEMMA StackStep == SccTypeOK /\ Search /\ Stack /\ [SccNext]_sccVars => Stack'
<1> SUFFICES ASSUME SccTypeOK, Search, Stack, [SccNext]_sccVars, pass' = "finish" PROVE Stack'
  BY DEF Stack
<1>1. CASE UNCHANGED sccVars
  <2>1. nexts' = nexts /\ UNCHANGED <<pass, path, visited, finished, upto>> /\ On' = On /\ Off' = Off
    BY <1>1 DEF sccVars, On, Off
  <2>2. (V' = V) /\ (\A a, b : Arrow(a, b)' <=> Arrow(a, b)) /\ (\A a, b : Leads(a, b)' <=> Leads(a, b))
    BY <2>1, Fixed
  <2> QED BY <2>1, <2>2 DEF Stack
<1>2. ASSUME NEW g \in FlowGraphs, CallSccs(g) PROVE Stack'
  <2>1. path' = <<>> /\ finished' = <<>> /\ upto' = 0 /\ nexts' \in FlowGraphs
    BY <1>2 DEF CallSccs, SccTypeOK
  <2>2. Off' = {}
    BY <2>1 DEF Off
  <2>3. PICK n \in Nat : V' = 0 .. n - 1
    BY <2>1 DEF FlowGraphs, V
  <2> QED BY <2>1, <2>2, <2>3 DEF Stack
<1>3. CASE SccStep
  <2>1. /\ nexts' = nexts /\ V' = V
        /\ \A a, b : Arrow(a, b)' <=> Arrow(a, b)
        /\ \A a, b : Leads(a, b)' <=> Leads(a, b)
    BY <1>3, GraphStays, Fixed
  <2>2. CASE Look
    <3>1. /\ pass = "finish" /\ path # <<>> /\ MoreToSee /\ UNCHANGED <<finished, upto>>
          /\ nexts \in FlowGraphs /\ Top \in [block : V, seen : Nat]
          /\ Len(path) \in Nat \ {0} /\ DOMAIN path = 1 .. Len(path)
      BY <2>2, TopFacts DEF Look
    <3>2. /\ \A i, j \in DOMAIN path : i <= j => Leads(path[i].block, path[j].block)
          /\ \A i \in DOMAIN path : \A k \in DOMAIN nexts[path[i].block] :
               k <= path[i].seen => nexts[path[i].block][k] \in visited
          /\ \A b \in Off : \A c \in V : Arrow(b, c) => c \in visited
          /\ \A b \in V : b < upto => b \in visited
      BY <3>1 DEF Stack
    <3>3. Successor \in V /\ Arrow(Top.block, Successor) /\ Inside = V
      BY <3>1, SuccessorFacts DEF Inside, V
    <3>4. visited \subseteq visited' /\ Successor \in visited'
      BY <2>2, <3>3, LookFacts
    <3>5. \A i, j \in DOMAIN path' : i <= j => Leads(path'[i].block, path'[j].block)
      <4>1. \A i, j \in 1 .. Len(path) : i <= j => Leads(path'[i].block, path'[j].block)
        BY <2>2, <3>1, <3>2, LookFacts
      <4>2. CASE Successor \in Inside \ visited
        <5>1. DOMAIN path' = 1 .. Len(path) + 1 /\ path'[Len(path) + 1] = [block |-> Successor, seen |-> 0]
          BY <2>2, <4>2, LookFacts
        <5>2. path'[Len(path) + 1].block = Successor /\ path'[Len(path)].block = Top.block
          <6>1. path'[Len(path)].block = path[Len(path)].block
            BY <2>2, <3>1, LookFacts
          <6>2. path'[Len(path) + 1].block = Successor
            BY <5>1
          <6> QED BY <6>1, <6>2 DEF Top
        <5>3. Leads(Top.block, Successor)
          BY <3>1, <3>3, Paths
        <5>4. \A i \in 1 .. Len(path) : Leads(path'[i].block, Successor)
          BY <3>1, <4>1, <5>2, <5>3, Paths
        <5>5. Leads(Successor, Successor)
          BY Paths
        <5> QED BY <3>1, <4>1, <5>1, <5>2, <5>4, <5>5
      <4>3. CASE Successor \notin Inside \ visited
        BY <2>2, <4>1, <4>3, LookFacts
      <4> QED BY <4>2, <4>3
    <3>6. \A i \in DOMAIN path' : \A k \in DOMAIN nexts[path'[i].block] :
            k <= path'[i].seen => nexts[path'[i].block][k] \in visited'
      <4> SUFFICES ASSUME NEW i \in DOMAIN path', NEW k \in DOMAIN nexts[path'[i].block],
                          k <= path'[i].seen
                   PROVE  nexts[path'[i].block][k] \in visited'
        OBVIOUS
      <4>1. CASE i \in 1 .. Len(path) - 1
        <5>1. path'[i].block = path[i].block /\ path'[i].seen = path[i].seen
          BY <2>2, <3>1, <4>1, LookFacts
        <5> QED BY <3>1, <3>2, <3>4, <4>1, <5>1
      <4>2. CASE i = Len(path)
        <5>1. path'[i].block = Top.block /\ path'[i].seen = Top.seen + 1
          BY <2>2, <3>1, <4>2, LookFacts DEF Top
        <5>2. DOMAIN nexts[Top.block] = 1 .. Len(nexts[Top.block]) /\ Len(nexts[Top.block]) \in Nat
          BY <3>1, GraphTypes, LenProperties
        <5>3. k <= Top.seen \/ k = Top.seen + 1
          BY <3>1, <5>1, <5>2
        <5>4. nexts[Top.block][k] \in visited \/ nexts[Top.block][k] = Successor
          BY <3>1, <3>2, <5>1, <5>3 DEF Top, Successor
        <5> QED BY <3>4, <5>1, <5>4
      <4>3. CASE i \notin 1 .. Len(path)
        <5>1. path'[i] = [block |-> Successor, seen |-> 0]
          BY <2>2, <3>1, <4>3, LookFacts
        <5>2. DOMAIN nexts[Successor] = 1 .. Len(nexts[Successor]) /\ Len(nexts[Successor]) \in Nat
          BY <3>1, <3>3, GraphTypes, LenProperties
        <5> QED BY <5>1, <5>2
      <4> QED BY <3>1, <4>1, <4>2, <4>3
    <3>7. Off' = Off /\ upto' = upto
      BY <3>1 DEF Off
    <3>8. /\ \A b \in Off' : \A c \in V : Arrow(b, c) => c \in visited'
          /\ \A b \in V : b < upto' => b \in visited'
      BY <3>2, <3>4, <3>7
    <3> QED BY <2>1, <3>5, <3>6, <3>8 DEF Stack
  <2>3. CASE Leave
    <3>1. /\ pass = "finish" /\ path # <<>> /\ ~MoreToSee /\ UNCHANGED <<visited, upto>>
          /\ nexts \in FlowGraphs /\ Top \in [block : V, seen : Nat]
          /\ Len(path) \in DOMAIN path
      BY <2>3, TopFacts DEF Leave
    <3>2. /\ \A i, j \in DOMAIN path : i <= j => Leads(path[i].block, path[j].block)
          /\ \A i \in DOMAIN path : \A k \in DOMAIN nexts[path[i].block] :
               k <= path[i].seen => nexts[path[i].block][k] \in visited
          /\ \A b \in Off : \A c \in V : Arrow(b, c) => c \in visited
          /\ \A b \in V : b < upto => b \in visited
      BY <3>1 DEF Stack
    <3>3. \A i \in DOMAIN path' : i \in DOMAIN path /\ path'[i] = path[i]
      BY <2>3, LeaveFacts
    <3>4. \A c \in V : Arrow(Top.block, c) => c \in visited
      <4> SUFFICES ASSUME NEW c \in V, NEW k \in DOMAIN nexts[Top.block], nexts[Top.block][k] = c
                   PROVE  c \in visited
        BY DEF Arrow, Arc
      <4>1. DOMAIN nexts[Top.block] = 1 .. Len(nexts[Top.block]) /\ Len(nexts[Top.block]) \in Nat
        BY <3>1, GraphTypes, LenProperties
      <4>2. k <= Top.seen
        BY <3>1, <4>1 DEF MoreToSee
      <4> QED BY <3>1, <3>2, <4>2 DEF Top
    <3>5. \A b \in Off' : \A c \in V : Arrow(b, c) => c \in visited
      BY <2>3, <3>2, <3>4, LeaveFacts
    <3>6. /\ \A i, j \in DOMAIN path' : i <= j => Leads(path'[i].block, path'[j].block)
          /\ \A i \in DOMAIN path' : \A k \in DOMAIN nexts[path'[i].block] :
               k <= path'[i].seen => nexts[path'[i].block][k] \in visited
      BY <3>2, <3>3
    <3> QED BY <2>1, <3>1, <3>2, <3>5, <3>6 DEF Stack
  <2>4. CASE Begin1
    <3>1. /\ pass = "finish" /\ path = <<>> /\ upto' = upto + 1 /\ finished' = finished
          /\ upto \in V /\ nexts \in FlowGraphs /\ upto \in Nat
      BY <2>4 DEF Begin1, V, SccTypeOK
    <3>2. /\ \A b \in Off : \A c \in V : Arrow(b, c) => c \in visited
          /\ \A b \in V : b < upto => b \in visited
      BY <3>1 DEF Stack
    <3>3. visited \subseteq visited' /\ upto \in visited' /\ Off' = Off
      BY <2>4, <3>1 DEF Begin1, Off
    <3>4. \A b \in V : b < upto' => b \in visited'
      <4>1. V \subseteq Nat
        BY <3>1, GraphTypes
      <4> QED BY <3>1, <3>2, <3>3, <4>1
    <3>5. /\ \A i, j \in DOMAIN path' : i <= j => Leads(path'[i].block, path'[j].block)
          /\ \A i \in DOMAIN path' : \A k \in DOMAIN nexts[path'[i].block] :
               k <= path'[i].seen => nexts[path'[i].block][k] \in visited'
      <4>1. CASE upto \in visited
        <5>1. path' = <<>>
          BY <2>4, <3>1, <4>1 DEF Begin1
        <5> QED BY <5>1
      <4>2. CASE upto \notin visited
        <5>1. path' = <<[block |-> upto, seen |-> 0]>>
          BY <2>4, <4>2 DEF Begin1
        <5>2. DOMAIN path' = {1} /\ path'[1].block = upto /\ path'[1].seen = 0
          BY <5>1, Started
        <5>3. DOMAIN nexts[upto] = 1 .. Len(nexts[upto]) /\ Len(nexts[upto]) \in Nat
          BY <3>1, GraphTypes, LenProperties
        <5>4. Leads(upto, upto)
          BY Paths
        <5> QED BY <5>2, <5>3, <5>4
      <4> QED BY <4>1, <4>2
    <3> QED BY <2>1, <3>2, <3>3, <3>4, <3>5 DEF Stack
  <2>5. CASE End1 \/ Begin2 \/ Gather \/ End2 \/ Begin3 \/ Arrange \/ End3
    BY <2>5 DEF End1, Begin2, Gather, End2, Begin3, Arrange, End3
  <2> QED BY <1>3, <2>2, <2>3, <2>4, <2>5 DEF SccStep
<1> QED BY <1>1, <1>2, <1>3 DEF SccNext

\* What was left and leads on is in the component of a block that is still on the stack.
LEMMA Pending1Step ==
  SccTypeOK /\ Search /\ Stack /\ Stack' /\ Pending1 /\ [SccNext]_sccVars => Pending1'
<1> SUFFICES ASSUME SccTypeOK, Search, Stack, Stack', Pending1, [SccNext]_sccVars, pass' = "finish"
             PROVE  Pending1'
  BY DEF Pending1
<1>0. ASSUME nexts' = nexts, finished' = finished, On \subseteq On', pass = "finish"
      PROVE  Pending1'
  <2>1. V' = V /\ (\A a, b : Leads(a, b)' <=> Leads(a, b)) /\ (\A a, b : Same(a, b)' <=> Same(a, b))
    BY <1>0, Fixed
  <2>2. Off' = Off
    BY <1>0 DEF Off
  <2> QED BY <1>0, <2>1, <2>2 DEF Pending1
<1>1. CASE UNCHANGED sccVars
  <2>1. On' = On /\ nexts' = nexts /\ finished' = finished /\ pass = "finish"
    BY <1>1 DEF sccVars, On
  <2> QED BY <2>1, <1>0
<1>2. ASSUME NEW g \in FlowGraphs, CallSccs(g) PROVE Pending1'
  <2>1. finished' = <<>>
    BY <1>2 DEF CallSccs, SccTypeOK
  <2>2. Off' = {}
    BY <2>1 DEF Off
  <2> QED BY <2>2 DEF Pending1
<1>3. CASE Look
  <2>1. pass = "finish" /\ nexts' = nexts /\ finished' = finished
    BY <1>3 DEF Look
  <2>2. On \subseteq On'
    BY <1>3, LookFacts
  <2> QED BY <2>1, <2>2, <1>0
<1>4. CASE Leave
  <2>1. pass = "finish" /\ nexts' = nexts /\ visited' = visited /\ path # <<>>
    BY <1>4 DEF Leave
  <2>2. /\ V' = V
        /\ \A a, b : Arrow(a, b)' <=> Arrow(a, b)
        /\ \A a, b : Leads(a, b)' <=> Leads(a, b)
        /\ \A a, b : Same(a, b)' <=> Same(a, b)
    BY <2>1, Fixed
  <2> DEFINE y == Top.block
  <2>3. y \in V /\ y \in On /\ On' = On \ {y} /\ Off' = Off \cup {y}
    BY <1>4, LeaveFacts
  <2>4. visited = On \cup Off /\ Off \subseteq V
    BY <2>1, ElementOfSeq DEF Search, Off, SccTypeOK
  <2>5. \A b \in Off' : \A c \in V : Arrow(b, c) => c \in visited
    BY <2>1, <2>2 DEF Stack
  <2>6. \A g \in On : Leads(g, y)
    <3>1. Len(path) \in Nat \ {0} /\ DOMAIN path = 1 .. Len(path)
      BY <2>1, TopFacts
    <3>2. \A i \in DOMAIN path : Leads(path[i].block, path[Len(path)].block)
      BY <2>1, <3>1 DEF Stack
    <3> QED BY <3>2 DEF On, Top
  <2> HIDE DEF y
  \* The last block on the way that was left has an arrow to one on the stack.
  <2>7. ASSUME NEW w \in V \ Off', Leads(y, w)
        PROVE  \E g \in On' : Same(y, g)
    <3> DEFINE S == {x \in Off' : Leads(y, x)}
    <3>1. S \in SUBSET V /\ y \in S /\ w \in V \ S
      BY <2>3, <2>4, Paths
    <3>2. PICK c \in S, d \in V \ S : Arrow(c, d)
      BY <2>7, <3>1, WayOut
    <3>3. Leads(y, d)
      <4>1. Leads(c, d) /\ Leads(y, c)
        BY <3>1, <3>2, Paths
      <4> QED BY <4>1, Paths
    <3>4. d \notin Off' /\ d \in visited
      BY <3>2, <3>3, <2>5
    <3>5. d \in On'
      BY <3>4, <2>3, <2>4
    <3>6. Leads(d, y)
      BY <3>5, <2>3, <2>6
    <3> QED BY <3>3, <3>5, <3>6 DEF Same, Alike, Leads
  <2> SUFFICES ASSUME NEW u \in Off', NEW w \in V \ Off', Leads(u, w)
               PROVE  \E g \in On' : Same(u, g)
    BY <2>2 DEF Pending1
  <2>8. CASE u = y
    BY <2>8, <2>7
  <2>9. CASE u # y
    <3>1. u \in Off /\ w \in V \ Off
      BY <2>3, <2>9
    <3>2. PICK g \in On : Same(u, g)
      BY <2>1, <3>1 DEF Pending1
    <3>3. CASE g = y
      <4>1. Leads(y, w)
        BY <3>2, <3>3, Paths DEF Same, Alike, Leads
      <4>2. PICK h \in On' : Same(y, h)
        BY <4>1, <2>7
      <4> QED BY <3>2, <3>3, <4>2, Classes
    <3>4. CASE g # y
      BY <2>3, <3>2, <3>4
    <3> QED BY <3>3, <3>4
  <2> QED BY <2>8, <2>9
<1>5. CASE Begin1
  <2>1. pass = "finish" /\ nexts' = nexts /\ finished' = finished /\ path = <<>>
    BY <1>5 DEF Begin1
  <2>2. On = {}
    BY <2>1 DEF On
  <2> QED BY <2>1, <2>2, <1>0
<1>6. CASE End1 \/ Begin2 \/ Gather \/ End2 \/ Begin3 \/ Arrange \/ End3
  BY <1>6 DEF End1, Begin2, Gather, End2, Begin3, Arrange, End3
<1> QED BY <1>1, <1>2, <1>3, <1>4, <1>5, <1>6 DEF SccNext, SccStep

LEMMA LeftLaterStep ==
  SccTypeOK /\ Search /\ Pending1 /\ LeftLater /\ [SccNext]_sccVars => LeftLater'
<1> SUFFICES ASSUME SccTypeOK, Search, Pending1, LeftLater, [SccNext]_sccVars,
                    pass' \in {"finish", "collect"}
             PROVE  LeftLater'
  BY DEF LeftLater
\* A prefix of what was left.
<1>0. ASSUME nexts' = nexts, pass \in {"finish", "collect"},
             \A i \in DOMAIN finished' : i \in DOMAIN finished /\ \A j \in 1 .. i : finished'[j] = finished[j]
      PROVE  LeftLater'
  <2>1. V' = V /\ (\A a, b : Leads(a, b)' <=> Leads(a, b)) /\ (\A a, b : Same(a, b)' <=> Same(a, b))
    BY <1>0, Fixed
  <2> SUFFICES ASSUME NEW i \in DOMAIN finished', NEW u \in V,
                      Leads(u, finished'[i]), ~Leads(finished'[i], u)
               PROVE  \E g \in V : Same(u, g) /\ \A j \in 1 .. i : finished'[j] # g
    BY <2>1 DEF LeftLater
  <2>2. i \in DOMAIN finished /\ i \in 1 .. i
    <3>1. i \in DOMAIN finished
      BY <1>0
    <3>2. finished \in Seq(V)
      BY DEF SccTypeOK
    <3>3. i \in 1 .. Len(finished) /\ Len(finished) \in Nat
      BY <3>1, <3>2, LenProperties
    <3> QED BY <3>1, <3>3
  <2>3. finished'[i] = finished[i]
    BY <1>0, <2>2
  <2>4. PICK g \in V : Same(u, g) /\ \A j \in 1 .. i : finished[j] # g
    BY <1>0, <2>2, <2>3 DEF LeftLater
  <2>5. \A j \in 1 .. i : finished'[j] # g
    BY <1>0, <2>4
  <2> QED BY <2>4, <2>5
<1>1. CASE UNCHANGED sccVars
  BY <1>1, <1>0 DEF sccVars
<1>2. ASSUME NEW g \in FlowGraphs, CallSccs(g) PROVE LeftLater'
  <2>1. finished' = <<>>
    BY <1>2 DEF CallSccs, SccTypeOK
  <2> QED BY <2>1 DEF LeftLater
<1>3. CASE Look \/ Begin1 \/ End1 \/ Gather
  <2>1. nexts' = nexts /\ finished' = finished /\ pass \in {"finish", "collect"}
    BY <1>3 DEF Look, Begin1, End1, Gather
  <2> QED BY <2>1, <1>0
<1>4. CASE Leave
  <2>1. pass = "finish" /\ nexts' = nexts /\ path # <<>>
    BY <1>4, TopFacts DEF Leave
  <2>2. V' = V /\ (\A a, b : Leads(a, b)' <=> Leads(a, b)) /\ (\A a, b : Same(a, b)' <=> Same(a, b))
    BY <2>1, Fixed
  <2> DEFINE y == Top.block
             n == Len(finished)
  <2>3. /\ y \in On /\ y \in V /\ On \cap Off = {} /\ On \subseteq V
        /\ n \in Nat /\ DOMAIN finished = 1 .. n /\ DOMAIN finished' = 1 .. n + 1
        /\ \A i \in 1 .. n : finished'[i] = finished[i]
        /\ finished'[n + 1] = y
    <3>1. On \cap Off = {} /\ visited = On \cup Off
      BY <2>1 DEF Search
    <3>2. On \subseteq V
      BY <3>1 DEF SccTypeOK
    <3> QED BY <1>4, <3>1, <3>2, LeaveFacts
  <2>4. \A i \in 1 .. n : finished[i] \in Off
    BY <2>3 DEF Off
  <2> HIDE DEF y, n
  <2> SUFFICES ASSUME NEW i \in DOMAIN finished', NEW u \in V,
                      Leads(u, finished'[i]), ~Leads(finished'[i], u)
               PROVE  \E g \in V : Same(u, g) /\ \A j \in 1 .. i : finished'[j] # g
    BY <2>2 DEF LeftLater
  <2>5. CASE i \in 1 .. n
    <3>1. finished'[i] = finished[i] /\ i \in DOMAIN finished
      BY <2>3, <2>5
    <3>2. PICK g \in V : Same(u, g) /\ \A j \in 1 .. i : finished[j] # g
      BY <2>1, <3>1 DEF LeftLater
    <3>3. \A j \in 1 .. i : finished'[j] = finished[j]
      BY <2>3, <2>5
    <3> QED BY <3>2, <3>3
  <2>6. CASE i = n + 1
    <3>1. Leads(u, y) /\ ~Leads(y, u)
      BY <2>3, <2>6
    <3>2. ASSUME NEW g \in V, g \notin Off, g # y
          PROVE  \A j \in 1 .. i : finished'[j] # g
      BY <2>3, <2>4, <2>6, <3>2
    <3>3. u # y
      BY <3>1, Paths
    <3>4. CASE u \notin Off
      <4>1. Same(u, u)
        BY Classes
      <4> QED BY <3>2, <3>3, <3>4, <4>1
    <3>5. CASE u \in Off
      <4>1. y \in V \ Off
        BY <2>3
      <4>2. PICK g \in On : Same(u, g)
        BY <2>1, <3>1, <3>5, <4>1 DEF Pending1
      <4>3. g # y /\ g \notin Off /\ g \in V
        BY <2>3, <3>1, <4>2 DEF Same, Alike, Leads
      <4> QED BY <3>2, <4>2, <4>3
    <3> QED BY <3>4, <3>5
  <2> QED BY <2>3, <2>5, <2>6
<1>5. CASE Begin2
  <2>1. nexts' = nexts /\ pass = "collect"
    BY <1>5 DEF Begin2
  <2>2. \A i \in DOMAIN finished' : i \in DOMAIN finished /\ \A j \in 1 .. i : finished'[j] = finished[j]
    BY <1>5, TakeFacts
  <2> QED BY <2>1, <2>2, <1>0
<1>6. CASE End2 \/ Begin3 \/ Arrange \/ End3
  BY <1>6 DEF End2, Begin3, Arrange, End3
<1> QED BY <1>1, <1>2, <1>3, <1>4, <1>5, <1>6 DEF SccNext, SccStep

-----------------------------------------------------------------------------
(* The second pass.                                                        *)

\* What beginning a component does.
LEMMA BeginFacts ==
  ASSUME SccTypeOK, Begin2, Last(finished) \notin visited
  PROVE  /\ Len(comps) \in Nat /\ DOMAIN comps = 1 .. Len(comps)
         /\ Len(comps') = Len(comps) + 1 /\ DOMAIN comps' = 1 .. Len(comps) + 1
         /\ \A i \in 1 .. Len(comps) : comps'[i] = comps[i]
         /\ comps'[Len(comps) + 1].first = Last(finished)
         /\ comps'[Len(comps) + 1].members = {}
         /\ Collected' = Collected /\ Current' = Last(finished)
<1> DEFINE c == [first |-> Last(finished), members |-> {}]
<1>1. comps \in Seq([first : V, members : SUBSET V]) /\ c \in [first : V, members : SUBSET V]
  BY TakeFacts DEF SccTypeOK
<1>2. c.first = Last(finished) /\ c.members = {}
  OBVIOUS
<1>3. comps' = Append(comps, c)
  BY DEF Begin2
<1> HIDE DEF c
<1>4. /\ Append(comps, c) \in Seq([first : V, members : SUBSET V])
      /\ Len(Append(comps, c)) = Len(comps) + 1
      /\ \A i \in 1 .. Len(comps) : Append(comps, c)[i] = comps[i]
      /\ Append(comps, c)[Len(comps) + 1] = c
  BY <1>1, AppendProperties
<1>5. Len(comps) \in Nat /\ DOMAIN comps = 1 .. Len(comps)
  BY <1>1, LenProperties
<1>6. DOMAIN comps' = 1 .. Len(comps) + 1
  BY <1>3, <1>4, LenProperties
<1>7. Current' = Last(finished)
  BY <1>2, <1>3, <1>4 DEF Current
<1>8. Collected' = Collected
  <2>1. Collected' = UNION {comps'[i].members : i \in 1 .. Len(comps) + 1}
    BY <1>6 DEF Collected
  <2>2. Collected = UNION {comps[i].members : i \in 1 .. Len(comps)}
    BY <1>5 DEF Collected
  <2>3. 1 .. Len(comps) + 1 = (1 .. Len(comps)) \cup {Len(comps) + 1}
    BY <1>5
  <2>4. \A x : (\E i \in 1 .. Len(comps) + 1 : x \in comps'[i].members)
                 <=> \E i \in 1 .. Len(comps) : x \in comps[i].members
    BY <1>2, <1>3, <1>4, <2>3
  <2> QED BY <2>1, <2>2, <2>4
<1> QED BY <1>2, <1>3, <1>4, <1>5, <1>6, <1>7, <1>8

\* What gathering a block does.
LEMMA GatherFacts ==
  ASSUME SccTypeOK, comps # <<>>, NEW b \in V,
         comps' = [comps EXCEPT ![Len(comps)].members = @ \cup {b}]
  PROVE  /\ Len(comps) \in Nat \ {0} /\ DOMAIN comps = 1 .. Len(comps)
         /\ Len(comps') = Len(comps) /\ DOMAIN comps' = 1 .. Len(comps)
         /\ \A i \in 1 .. Len(comps) : comps'[i].first = comps[i].first
         /\ \A i \in 1 .. Len(comps) - 1 : comps'[i].members = comps[i].members
         /\ comps'[Len(comps)].members = comps[Len(comps)].members \cup {b}
         /\ Collected' = Collected \cup {b} /\ Current' = Current
<1> DEFINE n == Len(comps)
           c == [comps[n] EXCEPT !.members = comps[n].members \cup {b}]
<1>1. comps \in Seq([first : V, members : SUBSET V])
  BY DEF SccTypeOK
<1>2. n \in Nat \ {0} /\ DOMAIN comps = 1 .. n /\ n \in 1 .. Len(comps)
  <2>1. Len(comps) \in Nat /\ DOMAIN comps = 1 .. Len(comps)
    BY <1>1, LenProperties
  <2>2. Len(comps) # 0
    BY <1>1, EmptySeq
  <2> QED BY <2>1, <2>2
<1>3. comps[n] \in [first : V, members : SUBSET V]
  BY <1>1, <1>2, ElementOfSeq
<1>4. /\ c \in [first : V, members : SUBSET V]
      /\ c.first = comps[n].first /\ c.members = comps[n].members \cup {b}
  BY <1>3
<1>5. comps' = [comps EXCEPT ![n] = c]
  OBVIOUS
<1> HIDE DEF c, n
<1>6. comps' \in Seq([first : V, members : SUBSET V]) /\ Len(comps') = n
  <2>1. /\ [comps EXCEPT ![n] = c] \in Seq([first : V, members : SUBSET V])
        /\ Len([comps EXCEPT ![n] = c]) = Len(comps)
    BY <1>1, <1>2, <1>4, ExceptSeq
  <2> QED BY <1>5, <2>1 DEF n
<1>7. DOMAIN comps' = 1 .. n
  BY <1>6, LenProperties
<1>8. comps'[n] = c /\ \A i \in 1 .. n - 1 : comps'[i] = comps[i]
  BY <1>2, <1>5
<1>9. \A i \in 1 .. n : comps'[i].first = comps[i].first
  BY <1>2, <1>4, <1>8
<1>10. Collected' = Collected \cup {b}
  <2>1. Collected' = UNION {comps'[i].members : i \in 1 .. n}
    BY <1>7 DEF Collected
  <2>2. Collected = UNION {comps[i].members : i \in 1 .. n}
    BY <1>2 DEF Collected
  <2>3. /\ comps'[n].members = comps[n].members \cup {b}
        /\ \A i \in 1 .. n - 1 : comps'[i].members = comps[i].members
    BY <1>4, <1>8
  <2>5. 1 .. n = (1 .. n - 1) \cup {n}
    BY <1>2
  <2>4. \A x : (\E i \in 1 .. n : x \in comps'[i].members)
                 <=> x = b \/ \E i \in 1 .. n : x \in comps[i].members
    BY <2>3, <2>5
  <2> QED BY <2>1, <2>2, <2>4
<1>11. Current' = Current
  BY <1>2, <1>6, <1>9 DEF Current, n
<1> QED BY <1>2, <1>4, <1>6, <1>7, <1>8, <1>9, <1>10, <1>11 DEF n

\* Backwards along the arrows nothing leads out of the components.
LEMMA BackwardsStep ==
  SccTypeOK /\ Search /\ Stack /\ Backwards /\ Gathered /\ [SccNext]_sccVars => Backwards'
<1> SUFFICES ASSUME SccTypeOK, Search, Stack, Backwards, Gathered, [SccNext]_sccVars, pass' = "collect"
             PROVE  Backwards'
  BY DEF Backwards
<1>0. pass \in {"finish", "collect"} /\ nexts' = nexts
  <2>1. \A g \in FlowGraphs : ~CallSccs(g)
    BY DEF CallSccs
  <2>2. CASE UNCHANGED sccVars
    BY <2>2 DEF sccVars
  <2>3. CASE SccStep
    BY <2>3, GraphStays DEF SccStep, Look, Leave, Begin1, End1, Begin2, Gather, End2, Begin3, Arrange, End3
  <2> QED BY <2>1, <2>2, <2>3 DEF SccNext
<1>1. V' = V /\ (\A a, b : Arrow(a, b)' <=> Arrow(a, b))
  BY <1>0, Fixed
<1>2. CASE UNCHANGED sccVars
  <2>1. pass = "collect" /\ visited' = visited /\ pending' = pending /\ Off' = Off /\ Collected' = Collected
    BY <1>2 DEF sccVars, Off, Collected
  <2> QED BY <1>1, <2>1 DEF Backwards
<1>3. CASE End1
  <2>1. /\ pass = "finish" /\ path = <<>> /\ upto \notin V /\ upto \in Nat /\ nexts \in FlowGraphs
        /\ visited' = {} /\ pending' = {} /\ comps' = <<>> /\ finished' = finished
    BY <1>3 DEF End1, SccTypeOK, V
  <2>2. V \subseteq visited
    <3>1. PICK n \in Nat : V = 0 .. n - 1
      BY <2>1, GraphFacts
    <3>2. \A b \in V : b < upto
      BY <2>1, <3>1
    <3> QED BY <2>1, <3>2 DEF Stack
  <2>3. visited = Off
    <3>1. On = {}
      BY <2>1 DEF On
    <3> QED BY <2>1, <3>1 DEF Search
  <2>4. Off' = Off /\ Collected' = {}
    BY <2>1 DEF Off, Collected
  <2> QED BY <1>1, <2>1, <2>2, <2>3, <2>4 DEF Backwards
<1>4. CASE Begin2
  <2>1. pass = "collect" /\ pending = {} /\ Off = Off' \cup {Last(finished)}
    BY <1>4, TakeFacts DEF Begin2
  <2>2. /\ V \ Off \subseteq visited
        /\ visited = Collected
        /\ \A b \in visited, a \in V : Arrow(a, b) => a \in visited
    BY <2>1 DEF Backwards
  <2>3. CASE Last(finished) \in visited
    <3>1. visited' = visited /\ pending' = {} /\ comps' = comps
      BY <1>4, <2>1, <2>3 DEF Begin2
    <3>2. Collected' = Collected
      BY <3>1 DEF Collected
    <3> QED BY <1>1, <2>1, <2>2, <2>3, <3>1, <3>2 DEF Backwards
  <2>4. CASE Last(finished) \notin visited
    <3>1. visited' = visited \cup {Last(finished)} /\ pending' = {Last(finished)}
      BY <1>4, <2>4 DEF Begin2
    <3>2. Collected' = Collected
      BY <1>4, <2>4, BeginFacts
    <3> QED BY <1>1, <2>1, <2>2, <3>1, <3>2 DEF Backwards
  <2> QED BY <2>3, <2>4
<1>5. CASE Gather
  <2>1. PICK b \in pending :
          /\ pending' = (pending \ {b}) \cup (LeadingTo(b) \ visited)
          /\ visited' = visited \cup LeadingTo(b)
          /\ comps' = [comps EXCEPT ![Len(comps)].members = @ \cup {b}]
    BY <1>5 DEF Gather
  <2>2. pass = "collect" /\ finished' = finished
    BY <1>5 DEF Gather
  <2>3. b \in V /\ b \in visited /\ comps # <<>>
    BY <2>1, <2>2 DEF SccTypeOK, Gathered
  <2>4. Collected' = Collected \cup {b}
    BY <2>1, <2>3, GatherFacts
  <2>5. /\ V \ Off \subseteq visited
        /\ visited = pending \cup Collected
        /\ \A x \in visited \ pending, a \in V : Arrow(a, x) => a \in visited
    BY <2>2 DEF Backwards
  <2>6. Off' = Off
    BY <2>2 DEF Off
  <2>7. visited' = pending' \cup Collected'
    BY <2>1, <2>3, <2>4, <2>5
  <2>8. ASSUME NEW x \in visited' \ pending', NEW a \in V, Arrow(a, x)
        PROVE  a \in visited'
    <3>1. CASE x = b
      BY <2>1, <2>8, <3>1 DEF LeadingTo, Arrow, Arc, V
    <3>2. CASE x # b
      BY <2>1, <2>5, <2>8, <3>2
    <3> QED BY <3>1, <3>2
  <2> QED BY <1>1, <2>1, <2>5, <2>6, <2>7, <2>8 DEF Backwards
<1>6. CASE Look \/ Leave \/ Begin1 \/ End2 \/ Begin3 \/ Arrange \/ End3
  <2>1. CASE Look \/ Leave
    BY <2>1, TopFacts DEF Look, Leave
  <2>2. CASE Begin1 \/ End2 \/ Begin3 \/ Arrange \/ End3
    BY <2>2 DEF Begin1, End2, Begin3, Arrange, End3
  <2> QED BY <1>6, <2>1, <2>2
<1>7. \A g \in FlowGraphs : ~CallSccs(g)
  BY DEF CallSccs
<1> QED BY <1>2, <1>3, <1>4, <1>5, <1>6, <1>7 DEF SccNext, SccStep

\* What leads to the block that was taken is in its component, or in an earlier one.
LEMMA GatheredStep ==
  SccTypeOK /\ LeftLater /\ Backwards /\ Gathered /\ Components /\ [SccNext]_sccVars => Gathered'
<1> SUFFICES ASSUME SccTypeOK, LeftLater, Backwards, Gathered, Components, [SccNext]_sccVars,
                    pass' = "collect"
             PROVE  Gathered'
  BY DEF Gathered
<1>1. CASE UNCHANGED sccVars
  <2>1. /\ pass = "collect" /\ nexts' = nexts
        /\ visited' = visited /\ pending' = pending /\ comps' = comps /\ Current' = Current
    BY <1>1 DEF sccVars, Current
  <2>2. V' = V /\ (\A a, b : Leads(a, b)' <=> Leads(a, b)) /\ (\A a, b : Same(a, b)' <=> Same(a, b))
    BY <2>1, Fixed
  <2> QED BY <2>1, <2>2 DEF Gathered
<1>2. CASE End1
  BY <1>2 DEF End1, SccTypeOK, Gathered
<1>3. CASE Begin2
  <2>1. pass = "collect" /\ pending = {} /\ nexts' = nexts
    BY <1>3 DEF Begin2
  <2>2. V' = V /\ (\A a, b : Leads(a, b)' <=> Leads(a, b)) /\ (\A a, b : Same(a, b)' <=> Same(a, b))
    BY <2>1, Fixed
  <2>3. CASE Last(finished) \in visited
    <3>1. visited' = visited /\ pending' = pending /\ comps' = comps
      BY <1>3, <2>3 DEF Begin2
    <3>2. Current' = Current
      BY <3>1 DEF Current
    <3> QED BY <2>1, <2>2, <3>1, <3>2 DEF Gathered
  <2>4. CASE Last(finished) \notin visited
    <3> DEFINE s == Last(finished)
    <3>1. pending' = {s} /\ visited' = visited \cup {s}
      BY <1>3, <2>4 DEF Begin2
    <3>2. Current' = s /\ Len(comps') = Len(comps) + 1 /\ Len(comps) \in Nat
      BY <1>3, <2>4, BeginFacts
    <3>3. comps' # <<>>
      BY <3>2
    <3>4. /\ s \in V /\ s = finished[Len(finished)]
          /\ DOMAIN finished = 1 .. Len(finished) /\ Len(finished) \in DOMAIN finished
      BY <1>3, TakeFacts
    <3> HIDE DEF s
    <3>5. Same(s, s)
      BY Classes
    <3>6. ASSUME NEW u \in V, Leads(u, s), u \notin visited
          PROVE  Leads(s, u)
      <4> SUFFICES ASSUME ~Leads(s, u) PROVE FALSE
        OBVIOUS
      <4>1. PICK g \in V : Same(u, g) /\ \A j \in 1 .. Len(finished) : finished[j] # g
        BY <2>1, <3>4, <3>6 DEF LeftLater
      <4>2. g \notin Off
        BY <3>4, <4>1 DEF Off
      <4>3. g \in Collected
        BY <2>1, <4>2 DEF Backwards
      <4>4. PICK k \in DOMAIN comps : g \in comps[k].members
        BY <4>3 DEF Collected
      <4>5. Same(g, comps[k].first)
        BY <4>4 DEF Components
      <4>6. Same(u, comps[k].first)
        BY <4>1, <4>5, Classes
      <4>7. u \in comps[k].members
        BY <2>1, <4>6 DEF Components
      <4>8. u \in Collected
        BY <4>7 DEF Collected
      <4> QED BY <2>1, <3>6, <4>8 DEF Backwards
    <3>7. \A u \in V : Leads(u, s) => u \in visited' \/ Same(u, s)
      BY <3>1, <3>6 DEF Same, Alike, Leads
    <3> QED BY <2>2, <3>1, <3>2, <3>3, <3>5, <3>7 DEF Gathered
  <2> QED BY <2>3, <2>4
<1>4. CASE Gather
  <2>1. PICK b \in pending :
          /\ pending' = (pending \ {b}) \cup (LeadingTo(b) \ visited)
          /\ visited' = visited \cup LeadingTo(b)
          /\ comps' = [comps EXCEPT ![Len(comps)].members = @ \cup {b}]
    BY <1>4 DEF Gather
  <2>2. pass = "collect" /\ nexts' = nexts
    BY <1>4 DEF Gather
  <2>3. V' = V /\ (\A a, c : Leads(a, c)' <=> Leads(a, c)) /\ (\A a, c : Same(a, c)' <=> Same(a, c))
    BY <2>2, Fixed
  <2>4. b \in V /\ comps # <<>>
    BY <2>1, <2>2 DEF SccTypeOK, Gathered
  <2>5. Current' = Current /\ Len(comps') = Len(comps) /\ Len(comps) \in Nat \ {0}
    BY <2>1, <2>4, GatherFacts
  <2>6. comps' # <<>>
    BY <2>5
  <2>7. /\ \A u \in V : Leads(u, Current) => u \in visited \/ Same(u, Current)
        /\ \A x \in pending : Same(x, Current)
    BY <2>2, <2>4 DEF Gathered
  <2>8. ASSUME NEW a \in LeadingTo(b), a \notin visited
        PROVE  Same(a, Current)
    <3>1. a \in V /\ Arrow(a, b)
      BY DEF LeadingTo, Arrow, Arc, V
    <3>2. Leads(a, b) /\ Leads(b, Current)
      BY <2>4, <2>7, <3>1, Paths DEF Same, Alike, Leads
    <3>3. Leads(a, Current)
      BY <3>2, Paths
    <3> QED BY <2>7, <2>8, <3>1, <3>3
  <2>9. \A x \in pending' : Same(x, Current)
    BY <2>1, <2>7, <2>8
  <2>10. \A u \in V : Leads(u, Current) => u \in visited' \/ Same(u, Current)
    BY <2>1, <2>7
  <2> QED BY <2>3, <2>5, <2>6, <2>9, <2>10 DEF Gathered
<1>5. CASE Look \/ Leave \/ Begin1 \/ End2 \/ Begin3 \/ Arrange \/ End3
  <2>1. CASE Look \/ Leave
    BY <2>1, TopFacts DEF Look, Leave
  <2>2. CASE Begin1 \/ End2 \/ Begin3 \/ Arrange \/ End3
    BY <2>2 DEF Begin1, End2, Begin3, Arrange, End3
  <2> QED BY <1>5, <2>1, <2>2
<1>6. \A g \in FlowGraphs : ~CallSccs(g)
  BY DEF CallSccs
<1> QED BY <1>1, <1>2, <1>3, <1>4, <1>5, <1>6 DEF SccNext, SccStep

\* The components are those of their first blocks, and in order.
LEMMA ComponentsStep ==
  SccTypeOK /\ Backwards /\ Backwards' /\ Gathered /\ Components /\ [SccNext]_sccVars => Components'
<1> SUFFICES ASSUME SccTypeOK, Backwards, Backwards', Gathered, Components, [SccNext]_sccVars
             PROVE  Components'
  OBVIOUS
\* No component is touched.
<1>0. ASSUME nexts' = nexts, comps' = comps, pending' = pending,
             pass' \in {"arrange", "done"} => Collected = V
      PROVE  Components'
  <2>1. V' = V /\ (\A a, b : Leads(a, b)' <=> Leads(a, b)) /\ (\A a, b : Same(a, b)' <=> Same(a, b))
    BY <1>0, Fixed
  <2>2. Collected' = Collected
    BY <1>0 DEF Collected
  <2>3. /\ \A i \in DOMAIN comps' :
             /\ comps'[i].first \in comps'[i].members \/ (i = Len(comps') /\ comps'[i].first \in pending')
             /\ \A b \in comps'[i].members : Same(b, comps'[i].first)
             /\ i < Len(comps') \/ pending' = {} =>
                  \A b \in V : Same(b, comps'[i].first) => b \in comps'[i].members
        /\ \A i, j \in DOMAIN comps' : i < j => ~Leads(comps'[j].first, comps'[i].first)
    BY <1>0 DEF Components
  <2> QED BY <1>0, <2>1, <2>2, <2>3 DEF Components
<1>1. CASE UNCHANGED sccVars
  BY <1>1, <1>0 DEF sccVars, Components
<1>2. ASSUME NEW g \in FlowGraphs, CallSccs(g) PROVE Components'
  <2>1. comps' = <<>> /\ pass' = "finish"
    BY <1>2 DEF CallSccs, SccTypeOK
  <2> QED BY <2>1 DEF Components
<1>3. CASE Look \/ Leave \/ Begin1 \/ End1 \/ Begin3 \/ Arrange \/ End3
  <2>1. nexts' = nexts /\ comps' = comps /\ pending' = pending
    BY <1>3 DEF Look, Leave, Begin1, End1, Begin3, Arrange, End3
  <2>2. pass' \in {"arrange", "done"} => pass \in {"arrange", "done"}
    BY <1>3 DEF Look, Leave, Begin1, End1, Begin3, Arrange, End3
  <2>3. pass' \in {"arrange", "done"} => Collected = V
    BY <2>2 DEF Components
  <2> QED BY <2>1, <2>3, <1>0
<1>4. CASE Begin2
  <2>1. pass = "collect" /\ pass' = "collect" /\ pending = {} /\ nexts' = nexts
    BY <1>4 DEF Begin2
  <2>2. CASE Last(finished) \in visited
    <3>1. comps' = comps /\ pending' = pending
      BY <1>4, <2>2 DEF Begin2
    <3> QED BY <2>1, <3>1, <1>0
  <2>3. CASE Last(finished) \notin visited
    <3> DEFINE s == Last(finished)
               n == Len(comps)
    <3>1. V' = V /\ (\A a, b : Leads(a, b)' <=> Leads(a, b)) /\ (\A a, b : Same(a, b)' <=> Same(a, b))
      BY <2>1, Fixed
    <3>2. pending' = {s}
      BY <1>4, <2>3 DEF Begin2
    <3>3. /\ n \in Nat /\ DOMAIN comps = 1 .. n /\ Len(comps') = n + 1 /\ DOMAIN comps' = 1 .. n + 1
          /\ \A i \in 1 .. n : comps'[i] = comps[i]
          /\ comps'[n + 1].first = s /\ comps'[n + 1].members = {}
      BY <1>4, <2>3, BeginFacts
    <3>4. s \in V /\ s \notin visited
      BY <1>4, <2>3, TakeFacts
    <3> HIDE DEF s, n
    <3>5. \A i \in 1 .. n :
            /\ comps[i].first \in comps[i].members
            /\ \A b \in comps[i].members : Same(b, comps[i].first)
            /\ \A b \in V : Same(b, comps[i].first) => b \in comps[i].members
      BY <2>1, <3>3 DEF Components
    <3>6. ASSUME NEW i \in 1 .. n, Leads(s, comps[i].first)
          PROVE  FALSE
      <4>1. comps[i].first \in visited
        BY <2>1, <3>3, <3>5 DEF Backwards, Collected
      <4>2. visited \subseteq V
        BY DEF SccTypeOK
      <4>3. comps[i].first \in V \ (V \ visited)
        BY <4>1, <4>2
      <4>4. s \in V \ visited
        BY <3>4
      <4>5. PICK c \in V \ visited, d \in V \ (V \ visited) : Arrow(c, d)
        BY <3>6, <4>3, <4>4, WayOut
      <4>6. d \in visited \ pending
        BY <2>1, <4>5
      <4> QED BY <2>1, <4>5, <4>6 DEF Backwards
    <3>7. ASSUME NEW i \in DOMAIN comps'
          PROVE  /\ comps'[i].first \in comps'[i].members \/ (i = Len(comps') /\ comps'[i].first \in pending')
                 /\ \A b \in comps'[i].members : Same(b, comps'[i].first)
                 /\ i < Len(comps') \/ pending' = {} =>
                      \A b \in V : Same(b, comps'[i].first) => b \in comps'[i].members
      <4>1. CASE i \in 1 .. n
        BY <3>3, <3>5, <4>1
      <4>2. CASE i = n + 1
        BY <3>2, <3>3, <4>2
      <4> QED BY <3>3, <4>1, <4>2
    <3>8. \A i, j \in DOMAIN comps' : i < j => ~Leads(comps'[j].first, comps'[i].first)
      <4> SUFFICES ASSUME NEW i \in DOMAIN comps', NEW j \in DOMAIN comps', i < j,
                          Leads(comps'[j].first, comps'[i].first)
                   PROVE  FALSE
        OBVIOUS
      <4>1. i \in 1 .. n /\ comps'[i] = comps[i]
        BY <3>3
      <4>2. CASE j \in 1 .. n
        <5>1. comps'[j] = comps[j]
          BY <3>3, <4>2
        <5> QED BY <3>3, <4>1, <4>2, <5>1 DEF Components
      <4>3. CASE j = n + 1
        <5>1. comps'[j].first = s
          BY <3>3, <4>3
        <5> QED BY <3>6, <4>1, <5>1
      <4> QED BY <3>3, <4>2, <4>3
    <3> QED BY <2>1, <3>1, <3>7, <3>8 DEF Components
  <2> QED BY <2>2, <2>3
<1>5. CASE Gather
  <2>1. PICK b \in pending :
          /\ pending' = (pending \ {b}) \cup (LeadingTo(b) \ visited)
          /\ visited' = visited \cup LeadingTo(b)
          /\ comps' = [comps EXCEPT ![Len(comps)].members = @ \cup {b}]
    BY <1>5 DEF Gather
  <2>2. pass = "collect" /\ pass' = "collect" /\ nexts' = nexts
    BY <1>5 DEF Gather
  <2>3. /\ V' = V
        /\ \A a, c : Arrow(a, c)' <=> Arrow(a, c)
        /\ \A a, c : Leads(a, c)' <=> Leads(a, c)
        /\ \A a, c : Same(a, c)' <=> Same(a, c)
    BY <2>2, Fixed
  <2>4. b \in V /\ comps # <<>> /\ Same(b, Current)
    BY <2>1, <2>2 DEF SccTypeOK, Gathered
  <2> DEFINE n == Len(comps)
  <2>5. /\ n \in Nat \ {0} /\ DOMAIN comps = 1 .. n /\ Len(comps') = n /\ DOMAIN comps' = 1 .. n
        /\ \A i \in 1 .. n : comps'[i].first = comps[i].first
        /\ \A i \in 1 .. n - 1 : comps'[i].members = comps[i].members
        /\ comps'[n].members = comps[n].members \cup {b}
    BY <2>1, <2>4, GatherFacts
  <2>6. Same(b, comps[n].first)
    BY <2>4 DEF Current
  <2>7. /\ \A i \in 1 .. n :
             /\ comps[i].first \in comps[i].members \/ (i = n /\ comps[i].first \in pending)
             /\ \A x \in comps[i].members : Same(x, comps[i].first)
             /\ i < n => \A x \in V : Same(x, comps[i].first) => x \in comps[i].members
        /\ \A i, j \in 1 .. n : i < j => ~Leads(comps[j].first, comps[i].first)
    BY <2>5 DEF Components
  <2> HIDE DEF n
  <2>8. ASSUME NEW i \in 1 .. n
        PROVE  /\ comps'[i].first \in comps'[i].members \/ (i = n /\ comps'[i].first \in pending')
               /\ \A x \in comps'[i].members : Same(x, comps[i].first)
    <3>1. CASE i < n
      <4>1. i \in 1 .. n - 1
        BY <2>5, <3>1
      <4> QED BY <2>5, <2>7, <3>1, <4>1
    <3>2. CASE i = n
      BY <2>1, <2>5, <2>6, <2>7, <3>2
    <3> QED BY <2>5, <3>1, <3>2
  <2>9. \A i, j \in DOMAIN comps' : i < j => ~Leads(comps'[j].first, comps'[i].first)
    BY <2>5, <2>7
  <2>10. ASSUME NEW i \in 1 .. n, i < n \/ pending' = {}, NEW x \in V, Same(x, comps[i].first)
         PROVE  x \in comps'[i].members
    <3>1. CASE i < n
      <4>1. i \in 1 .. n - 1
        BY <2>5, <3>1
      <4> QED BY <2>5, <2>7, <2>10, <3>1, <4>1
    <3>2. CASE i = n
      <4>1. pending' = {}
        BY <2>5, <2>10, <3>2
      <4>2. /\ visited' = Collected'
            /\ \A c \in visited', a \in V : Arrow(a, c) => a \in visited'
        BY <2>2, <2>3, <4>1 DEF Backwards
      <4>3. visited' \subseteq V
        BY <2>1 DEF SccTypeOK, LeadingTo, V
      <4>4. comps[n].first \in visited'
        <5>1. comps[n].first \in comps'[n].members
          BY <2>5, <2>8, <4>1
        <5>2. n \in DOMAIN comps'
          BY <2>5
        <5> QED BY <4>2, <5>1, <5>2 DEF Collected
      <4>5. x \in visited'
        <5> SUFFICES ASSUME x \notin visited' PROVE FALSE
          OBVIOUS
        <5>1. x \in V \ visited' /\ comps[n].first \in V \ (V \ visited')
          BY <4>3, <4>4
        <5>2. Leads(x, comps[n].first)
          BY <2>10, <3>2 DEF Same, Alike, Leads
        <5>3. PICK c \in V \ visited', d \in V \ (V \ visited') : Arrow(c, d)
          BY <5>1, <5>2, WayOut
        <5> QED BY <4>2, <5>3
      <4>6. PICK k \in 1 .. n : x \in comps'[k].members
        BY <2>5, <4>2, <4>5 DEF Collected
      <4>7. CASE k = n
        BY <3>2, <4>6, <4>7
      <4>8. CASE k < n
        <5>1. Same(x, comps[k].first)
          BY <2>8, <4>6
        <5>2. Same(comps[n].first, comps[k].first)
          BY <2>10, <3>2, <5>1, Classes
        <5>3. ~Leads(comps[n].first, comps[k].first)
          BY <2>5, <2>7, <4>8
        <5> QED BY <5>2, <5>3 DEF Same, Alike, Leads
      <4> QED BY <2>5, <4>7, <4>8
    <3> QED BY <2>5, <3>1, <3>2
  <2> QED BY <2>2, <2>3, <2>5, <2>8, <2>9, <2>10 DEF Components
<1>6. CASE End2
  <2>1. /\ pass = "collect" /\ nexts' = nexts /\ comps' = comps /\ pending' = pending
        /\ pending = {} /\ finished = <<>>
    BY <1>6 DEF End2
  <2>2. Off = {}
    BY <2>1 DEF Off
  <2>3. V \subseteq Collected
    BY <2>1, <2>2 DEF Backwards
  <2>4. Collected \subseteq V
    BY <2>1, <2>3 DEF Backwards, SccTypeOK
  <2> QED BY <2>1, <2>3, <2>4, <1>0
<1> QED BY <1>1, <1>2, <1>3, <1>4, <1>5, <1>6 DEF SccNext, SccStep

-----------------------------------------------------------------------------
(* The third pass.                                                         *)

\* A result has the blocks of its component, each once.
LEMMA ArrangedStep == SccTypeOK /\ Search /\ Arranged /\ [SccNext]_sccVars => Arranged'
<1> SUFFICES ASSUME SccTypeOK, Search, Arranged, [SccNext]_sccVars PROVE Arranged'
  OBVIOUS
<1>1. CASE sccs' = sccs /\ comps' = comps
  BY <1>1 DEF Arranged
<1>2. CASE sccs' = <<>>
  BY <1>2 DEF Arranged
<1>3. CASE Arrange
  <2>1. pass = "arrange" /\ path = <<>> /\ finished # <<>> /\ nexts \in FlowGraphs /\ comps' = comps
    BY <1>3 DEF Arrange, SccTypeOK
  <2>2. Len(sccs) < Len(comps)
    BY <2>1 DEF SccTypeOK
  <2>3. Inside \subseteq V /\ Inside = comps[Len(sccs) + 1].members
    BY <2>1, <2>2, InsideFacts
  <2>4. Range(finished) = visited /\ visited \subseteq Inside
    <3>1. On = {}
      BY <2>1 DEF On
    <3>2. Range(finished) = Off
      BY DEF Range, Off
    <3> QED BY <2>1, <3>1, <3>2 DEF Search
  <2>5. IsFiniteSet(Inside \ visited)
    <3>1. PICK n \in Nat : V = 0 .. n - 1
      BY <2>1, GraphFacts
    <3>2. IsFiniteSet(V)
      BY <3>1, FS_Interval
    <3> QED BY <2>3, <3>2, FS_Subset
  <2> DEFINE r == Reverse(finished \o SetToSeq(Inside \ visited))
  <2>6. finished \in Seq(V) /\ IsInjective(finished)
    BY DEF SccTypeOK, Search
  <2>7. r \in Seq(V) /\ IsInjective(r) /\ Range(r) = Range(finished) \cup (Inside \ visited)
    <3>1. Inside \ visited \in SUBSET V /\ (Inside \ visited) \cap Range(finished) = {}
      BY <2>3, <2>4
    <3> DEFINE rest == Inside \ visited
    <3>2. rest \in SUBSET V /\ rest \cap Range(finished) = {} /\ IsFiniteSet(rest)
      BY <2>5, <3>1
    <3> HIDE DEF rest
    <3>3. LET t == Reverse(finished \o SetToSeq(rest))
          IN  t \in Seq(V) /\ IsInjective(t) /\ Range(t) = Range(finished) \cup rest
      BY <2>6, <3>2, ReversedFacts
    <3> QED BY <3>3 DEF rest
  <2>8. sccs' = Append(sccs, r)
    BY <1>3 DEF Arrange
  <2> HIDE DEF r
  <2>9. Range(r) = comps[Len(sccs) + 1].members
    BY <2>3, <2>4, <2>7
  <2>10. sccs \in Seq(Seq(V))
    BY DEF SccTypeOK
  <2>11. /\ Append(sccs, r) \in Seq(Seq(V))
         /\ Len(Append(sccs, r)) = Len(sccs) + 1
         /\ \A i \in 1 .. Len(sccs) : Append(sccs, r)[i] = sccs[i]
         /\ Append(sccs, r)[Len(sccs) + 1] = r
    BY <2>7, <2>10, AppendProperties
  <2>12. /\ Len(sccs) \in Nat /\ DOMAIN sccs = 1 .. Len(sccs)
         /\ DOMAIN sccs' = 1 .. Len(sccs) + 1
    BY <2>8, <2>10, <2>11, LenProperties
  <2> SUFFICES ASSUME NEW i \in DOMAIN sccs'
               PROVE  Range(sccs'[i]) = comps[i].members /\ IsInjective(sccs'[i])
    BY <2>1 DEF Arranged
  <2>13. CASE i \in 1 .. Len(sccs)
    BY <2>8, <2>11, <2>12, <2>13 DEF Arranged
  <2>14. CASE i = Len(sccs) + 1
    BY <2>7, <2>8, <2>9, <2>11, <2>14
  <2> QED BY <2>12, <2>13, <2>14
<1>4. CASE UNCHANGED sccVars
  BY <1>1, <1>4 DEF sccVars
<1>5. ASSUME NEW g \in FlowGraphs, CallSccs(g) PROVE Arranged'
  BY <1>2, <1>5 DEF CallSccs, SccTypeOK
<1>6. CASE Look \/ Leave \/ Begin1 \/ End1 \/ End2 \/ Begin3 \/ End3
  BY <1>1, <1>6 DEF Look, Leave, Begin1, End1, End2, Begin3, End3
<1>7. CASE Begin2 \/ Gather
  BY <1>2, <1>7 DEF Begin2, Gather, SccTypeOK
<1> QED BY <1>3, <1>4, <1>5, <1>6, <1>7 DEF SccNext, SccStep

-----------------------------------------------------------------------------
(* All together.                                                           *)

\* What the passes leave behind.
LEMMA SccInvariance == SccSpec => []SccInv
<1>1. SccInit => SccInv
  <2> SUFFICES ASSUME SccInit PROVE SccInv
    OBVIOUS
  <2>1. pass = "idle" /\ finished = <<>> /\ comps = <<>> /\ sccs = <<>>
    BY DEF SccInit
  <2>2. IsInjective(finished)
    BY <2>1 DEF IsInjective
  <2>3. Search
    BY <2>1, <2>2 DEF Search
  <2>4. Components /\ Arranged
    BY <2>1 DEF Components, Arranged
  <2>5. Stack /\ Pending1 /\ LeftLater /\ Backwards /\ Gathered
    BY <2>1 DEF Stack, Pending1, LeftLater, Backwards, Gathered
  <2> QED BY <2>3, <2>4, <2>5, TypeInit DEF SccInv
<1>2. SccInv /\ [SccNext]_sccVars => SccInv'
  <2> SUFFICES ASSUME SccInv, [SccNext]_sccVars PROVE SccInv'
    OBVIOUS
  <2>1. SccTypeOK'
    BY TypeStep DEF SccInv
  <2>2. Search'
    BY <2>1, SearchStep DEF SccInv
  <2>3. Stack'
    BY StackStep DEF SccInv
  <2>4. Pending1'
    BY <2>3, Pending1Step DEF SccInv
  <2>5. LeftLater'
    BY LeftLaterStep DEF SccInv
  <2>6. Backwards'
    BY BackwardsStep DEF SccInv
  <2>7. Gathered'
    BY GatheredStep DEF SccInv
  <2>8. Components'
    BY <2>6, ComponentsStep DEF SccInv
  <2>9. Arranged'
    BY ArrangedStep DEF SccInv
  <2> QED BY <2>1, <2>2, <2>3, <2>4, <2>5, <2>6, <2>7, <2>8, <2>9 DEF SccInv
<1> QED BY <1>1, <1>2, PTL DEF SccSpec

-----------------------------------------------------------------------------
(* The theorems.                                                           *)

\* The passes keep to their types, and to which stacks are empty in which pass.
THEOREM SccTypeCorrect == SccSpec => []SccTypeOK
<1>1. SccInv => SccTypeOK
  BY DEF SccInv
<1> QED BY <1>1, SccInvariance, PTL

\* For every graph, compute_cfg_sccs finds its strongly connected components, in the order of
\* what leads to what.
THEOREM SccsAreInOrder == SccSpec => []SccsInOrder
<1>1. SccInv => SccsInOrder
  <2> SUFFICES ASSUME SccInv, pass = "done" PROVE SccsInOrder
    BY DEF SccsInOrder
  <2>1. /\ nexts \in FlowGraphs /\ comps \in Seq([first : V, members : SUBSET V])
        /\ sccs \in Seq(Seq(V)) /\ Len(sccs) = Len(comps) /\ pending = {}
    BY DEF SccInv, SccTypeOK
  <2>2. DOMAIN sccs = DOMAIN comps /\ \A i \in DOMAIN sccs : sccs[i] \in Seq(V)
    <3>1. DOMAIN sccs = 1 .. Len(sccs) /\ DOMAIN comps = 1 .. Len(comps)
      BY <2>1, LenProperties
    <3>2. \A i \in 1 .. Len(sccs) : sccs[i] \in Seq(V)
      BY <2>1, ElementOfSeq
    <3> QED BY <2>1, <3>1, <3>2
  <2>3. \A i \in DOMAIN sccs : Range(sccs[i]) = comps[i].members /\ IsInjective(sccs[i])
    BY DEF SccInv, Arranged
  <2>4. /\ \A i \in DOMAIN comps : \A b \in comps[i].members : Same(b, comps[i].first)
        /\ \A i, j \in DOMAIN comps : i < j => ~Leads(comps[j].first, comps[i].first)
        /\ Collected = V
    BY DEF SccInv, Components
  <2>5. UNION {Range(sccs[i]) : i \in DOMAIN sccs} = V
    <3>1. {Range(sccs[i]) : i \in DOMAIN sccs} = {comps[i].members : i \in DOMAIN comps}
      BY <2>2, <2>3
    <3> QED BY <2>4, <3>1 DEF Collected
  <2>6. \A i \in DOMAIN sccs : Range(sccs[i]) \subseteq V
    BY <2>5
  <2> DEFINE led == [a \in DOMAIN nexts |-> LedTo(nexts, a)]
  <2>7. \A a \in V, b \in V : b \in led[a] <=> Leads(a, b)
    BY <2>1, LedToRoutes DEF V, Leads
  <2> HIDE DEF led
  <2>8. ASSUME NEW i \in DOMAIN sccs, NEW j \in DOMAIN sccs, NEW a \in Range(sccs[i]), NEW b \in Range(sccs[j])
        PROVE  (i = j => b \in led[a]) /\ (i < j => a \notin led[b])
    <3>1. a \in V /\ b \in V
      BY <2>6
    <3>2. Same(a, comps[i].first) /\ Same(b, comps[j].first)
      BY <2>2, <2>3, <2>4
    <3>3. i = j => Leads(a, b)
      <4>1. Leads(a, comps[i].first) /\ Leads(comps[j].first, b)
        BY <3>2 DEF Same, Alike, Leads
      <4> QED BY <4>1, Paths
    <3>4. i < j => ~Leads(b, a)
      <4> SUFFICES ASSUME i < j, Leads(b, a) PROVE FALSE
        OBVIOUS
      <4>1. Leads(comps[j].first, b) /\ Leads(a, comps[i].first)
        BY <3>2 DEF Same, Alike, Leads
      <4>2. Leads(comps[j].first, comps[i].first)
        BY <4>1, Paths
      <4> QED BY <2>2, <2>4, <4>2
    <3> QED BY <2>7, <3>1, <3>3, <3>4
  <2>9. \A i \in DOMAIN sccs : Len(sccs[i]) = Cardinality(Range(sccs[i]))
    BY <2>2, <2>3, LenIsCardinality
  <2>10. led \in {[a \in DOMAIN nexts |-> LedTo(nexts, a)]}
    BY DEF led
  <2> QED BY <2>5, <2>8, <2>9, <2>10 DEF SccsInOrder, V
<1> QED BY <1>1, SccInvariance, PTL

-----------------------------------------------------------------------------
(* CfgReachability::compute.  Paths of its graph.                          *)

B == DOMAIN succs

Goes(a, b) == Arc(succs, a, b)
Gets(a, b) == Route(succs, a, b)

-----------------------------------------------------------------------------
(* The inductive invariant.                                                *)

Held == {tarjan[i] : i \in DOMAIN tarjan}
Open == {work[i].block : i \in DOMAIN work}
Closed == UNION {sccMembers[i] : i \in DOMAIN sccMembers}
Looked(b, d) == \E i \in DOMAIN work, k \in DOMAIN succs[b] :
  work[i].block = b /\ k <= work[i].seen /\ succs[b][k] = d

\* The types, and what is empty when.
ReachTypeOK ==
  /\ phase \in {"idle", "search", "union", "done"}
  /\ start \in Nat /\ counter \in Nat
  /\ phase = "idle" => start = 0 /\ work = <<>> /\ counter = 0 /\ tarjan = <<>> /\ sccMembers = <<>>
  /\ phase # "idle" => succs \in FlowGraphs /\ index \in [B -> Int] /\ low \in [B -> Nat]
  /\ work \in Seq([block : B, seen : Nat])
  /\ tarjan \in Seq(B)
  /\ sccMembers \in Seq(SUBSET B)
  /\ sccReach \in Seq(SUBSET B) /\ Len(sccReach) <= Len(sccMembers)
  /\ phase \in {"idle", "search"} => sccReach = <<>>
  /\ phase = "done" => reach \in [B -> SUBSET B]

\* Who has a number: the blocks on the stack, which is ordered by them, and those of the
\* components.
Numbers ==
  phase = "search" =>
    /\ \A b \in B : index[b] < counter /\ (index[b] = Unset \/ index[b] >= 0)
    /\ \A b \in B : index[b] # Unset <=> b \in Held \cup Closed
    /\ \A b \in B : b < start => index[b] # Unset
    /\ Held \cap Closed = {} /\ Open \subseteq Held
    /\ \A i, j \in DOMAIN tarjan : i < j => index[tarjan[i]] < index[tarjan[j]]
    /\ \A i, j \in DOMAIN work : i < j => index[work[i].block] < index[work[j].block]

\* What has been looked at has a number.
LookedAt ==
  phase = "search" =>
    /\ \A b \in Open, d \in B : Looked(b, d) => index[d] # Unset
    /\ \A b \in Held \ Open, d \in B : Goes(b, d) => index[d] # Unset

\* On the stack a block leads to all above it, and to an open one that is not above it.
Ways ==
  phase = "search" =>
    /\ \A a, b \in Held : index[a] <= index[b] => Gets(a, b)
    /\ \A a \in Held : \E g \in Open : index[g] <= index[a] /\ Gets(a, g)

\* lowlink: the number of a block that the open one leads to, and no greater than those of
\* the successors on the stack of the block and of those left that it is the parent of.
Lows ==
  phase = "search" =>
    /\ \A g \in Open : low[g] <= index[g] /\ \E u \in Held : index[u] = low[g] /\ Gets(g, u)
    /\ \A g \in Open, d \in Held : Looked(g, d) => low[g] <= index[d]
    /\ \A g \in Open, b \in Held \ Open, d \in Held :
         /\ Goes(b, d) /\ index[g] <= index[b]
         /\ \A h \in Open : index[h] <= index[b] => index[h] <= index[g]
         => low[g] <= index[d]

\* The components found lead to each other in one order.
Found ==
  /\ \A i \in DOMAIN sccMembers : \A a, b \in sccMembers[i] : Gets(a, b)
  /\ \A i \in DOMAIN sccMembers : \A a \in sccMembers[i], d \in B :
       Goes(a, d) => \E k \in 1 .. i : d \in sccMembers[k]
  /\ \A i, j \in DOMAIN sccMembers : i # j => sccMembers[i] \cap sccMembers[j] = {}
  /\ phase \in {"union", "done"} => Closed = B

\* The result so far.
United ==
  /\ \A i \in DOMAIN sccReach : \A a \in sccMembers[i] : sccReach[i] = {b \in B : Gets(a, b)}
  /\ phase = "done" => reach = [a \in B |-> {b \in B : Gets(a, b)}]

ReachInv == ReachTypeOK /\ Numbers /\ LookedAt /\ Ways /\ Lows /\ Found /\ United

-----------------------------------------------------------------------------
(* Lemmas.                                                                 *)

\* The relations depend on nothing but the graph, which stays.
LEMMA ReachFixed ==
  ASSUME succs' = succs
  PROVE  /\ B' = B
         /\ \A a, b : Goes(a, b)' <=> Goes(a, b)
         /\ \A a, b : Gets(a, b)' <=> Gets(a, b)
BY DEF B, Goes, Gets

\* Paths: the empty one, an arc, and one after another.
LEMMA ReachPaths ==
  /\ \A a : Gets(a, a)
  /\ \A a, b \in B : Goes(a, b) => Gets(a, b)
  /\ \A a, b, c : Gets(a, b) /\ Gets(b, c) => Gets(a, c)
BY Routes DEF B, Goes, Gets

\* The sets of the blocks on the stacks are sets of blocks.
LEMMA StackSets ==
  ASSUME ReachTypeOK
  PROVE  /\ Held \in SUBSET B /\ Open \in SUBSET B /\ Closed \in SUBSET B
         /\ \A i \in DOMAIN tarjan : tarjan[i] \in Held
         /\ \A i \in DOMAIN work : work[i] \in [block : B, seen : Nat] /\ work[i].block \in Open
         /\ Len(work) \in Nat /\ DOMAIN work = 1 .. Len(work)
         /\ Len(tarjan) \in Nat /\ DOMAIN tarjan = 1 .. Len(tarjan)
         /\ Len(sccMembers) \in Nat /\ DOMAIN sccMembers = 1 .. Len(sccMembers)
         /\ \A i \in DOMAIN sccMembers : sccMembers[i] \in SUBSET B
<1>1. /\ work \in Seq([block : B, seen : Nat]) /\ tarjan \in Seq(B) /\ sccMembers \in Seq(SUBSET B)
  BY DEF ReachTypeOK
<1>2. Len(work) \in Nat /\ DOMAIN work = 1 .. Len(work)
  BY <1>1, LenProperties
<1>3. Len(tarjan) \in Nat /\ DOMAIN tarjan = 1 .. Len(tarjan)
  BY <1>1, LenProperties
<1>4. Len(sccMembers) \in Nat /\ DOMAIN sccMembers = 1 .. Len(sccMembers)
  BY <1>1, LenProperties
<1>5. \A i \in DOMAIN work : work[i] \in [block : B, seen : Nat]
  BY <1>1, <1>2, ElementOfSeq
<1>6. \A i \in DOMAIN tarjan : tarjan[i] \in B
  BY <1>1, <1>3, ElementOfSeq
<1>7. \A i \in DOMAIN sccMembers : sccMembers[i] \in SUBSET B
  BY <1>1, <1>4, ElementOfSeq
<1> QED BY <1>2, <1>3, <1>4, <1>5, <1>6, <1>7 DEF Held, Open, Closed

\* The numbers: those of the blocks on the stack differ.
LEMMA NumberFacts ==
  ASSUME ReachTypeOK, Numbers, phase = "search"
  PROVE  /\ succs \in FlowGraphs /\ index \in [B -> Int] /\ low \in [B -> Nat] /\ counter \in Nat
         /\ \A a \in Held : index[a] \in Nat /\ index[a] < counter
         /\ \A a, b \in Held : index[a] = index[b] => a = b
         /\ \A a \in B : index[a] # Unset <=> a \in Held \cup Closed
         /\ Open \subseteq Held /\ Held \subseteq B /\ Held \cap Closed = {} /\ Closed \subseteq B
<1>1. /\ succs \in FlowGraphs /\ index \in [B -> Int] /\ low \in [B -> Nat] /\ counter \in Nat
  BY DEF ReachTypeOK
<1>2. Held \subseteq B /\ Closed \subseteq B
  BY StackSets
<1>3. /\ \A b \in B : index[b] < counter /\ (index[b] = Unset \/ index[b] >= 0)
      /\ \A b \in B : index[b] # Unset <=> b \in Held \cup Closed
      /\ Held \cap Closed = {} /\ Open \subseteq Held
      /\ \A i, j \in DOMAIN tarjan : i < j => index[tarjan[i]] < index[tarjan[j]]
  BY DEF Numbers
<1>4. \A a \in Held : index[a] \in Nat /\ index[a] < counter
  BY <1>1, <1>2, <1>3
<1>5. ASSUME NEW a \in Held, NEW b \in Held, index[a] = index[b] PROVE a = b
  <2>1. PICK i \in DOMAIN tarjan : tarjan[i] = a
    BY DEF Held
  <2>2. PICK j \in DOMAIN tarjan : tarjan[j] = b
    BY DEF Held
  <2>3. i \in Nat /\ j \in Nat
    BY StackSets
  <2>4. ~(i < j) /\ ~(j < i)
    BY <1>3, <1>4, <1>5, <2>1, <2>2
  <2> QED BY <2>1, <2>2, <2>3, <2>4
<1> QED BY <1>1, <1>2, <1>3, <1>4, <1>5

\* The block on top of the stack has the greatest number, its parent the next one.
LEMMA NodeFacts ==
  ASSUME ReachTypeOK, Numbers, phase = "search", work # <<>>
  PROVE  /\ Len(work) \in Nat \ {0} /\ Len(work) \in DOMAIN work
         /\ Node \in Open /\ Node \in Held /\ Node \in B /\ Seen \in Nat
         /\ \A g \in Open : index[g] <= index[Node]
         /\ \A i \in DOMAIN work : i # Len(work) => work[i].block # Node
         /\ succs[Node] \in Seq(B) /\ Len(succs[Node]) \in Nat /\ DOMAIN succs[Node] = 1 .. Len(succs[Node])
         /\ \A k \in 1 .. Len(succs[Node]) : succs[Node][k] \in B /\ Goes(Node, succs[Node][k])
<1>1. Len(work) \in Nat \ {0} /\ DOMAIN work = 1 .. Len(work)
  <2>1. work \in Seq([block : B, seen : Nat])
    BY DEF ReachTypeOK
  <2> QED BY <2>1, EmptySeq, LenProperties
<1>2. Len(work) \in DOMAIN work
  BY <1>1
<1>3. Node \in Open /\ Seen \in Nat
  BY <1>2, StackSets DEF Node, Seen
<1>4. Node \in Held /\ Node \in B
  BY <1>3, NumberFacts
<1>5. \A i \in DOMAIN work : i # Len(work) => index[work[i].block] < index[Node]
  <2>1. \A i, j \in DOMAIN work : i < j => index[work[i].block] < index[work[j].block]
    BY DEF Numbers
  <2> QED BY <1>1, <1>2, <2>1 DEF Node
<1>6. index[Node] \in Nat
  BY <1>4, NumberFacts
<1>7. \A g \in Open : index[g] <= index[Node]
  <2> SUFFICES ASSUME NEW g \in Open PROVE index[g] <= index[Node]
    OBVIOUS
  <2>1. PICK i \in DOMAIN work : work[i].block = g
    BY DEF Open
  <2>2. index[g] \in Nat
    BY NumberFacts
  <2>3. CASE i = Len(work)
    BY <1>6, <2>1, <2>3 DEF Node
  <2>4. CASE i # Len(work)
    BY <1>5, <1>6, <2>1, <2>2, <2>4
  <2> QED BY <2>3, <2>4
<1>8. \A i \in DOMAIN work : i # Len(work) => work[i].block # Node
  BY <1>5, <1>6
<1>9. succs[Node] \in Seq(B) /\ \A k \in 1 .. Len(succs[Node]) : succs[Node][k] \in B /\ Goes(Node, succs[Node][k])
  <2>1. succs \in FlowGraphs
    BY NumberFacts
  <2> QED BY <1>4, <2>1, ArcTypes DEF B, Goes
<1>10. Len(succs[Node]) \in Nat /\ DOMAIN succs[Node] = 1 .. Len(succs[Node])
  BY <1>9, LenProperties
<1> QED BY <1>1, <1>2, <1>3, <1>4, <1>7, <1>8, <1>9, <1>10

\* The stack when a successor of the top block was looked at.
LEMMA AdvancedFacts ==
  ASSUME ReachTypeOK, Numbers, phase = "search", work # <<>>
  PROVE  /\ Advanced \in Seq([block : B, seen : Nat])
         /\ Len(Advanced) = Len(work)
         /\ \A i \in DOMAIN work : Advanced[i].block = work[i].block
         /\ \A i \in DOMAIN work : i # Len(work) => Advanced[i].seen = work[i].seen
         /\ Advanced[Len(work)].seen = Seen + 1
<1>1. Len(work) \in 1 .. Len(work) /\ DOMAIN work = 1 .. Len(work) /\ work \in Seq([block : B, seen : Nat])
  BY NodeFacts, StackSets DEF ReachTypeOK
<1>2. work[Len(work)] \in [block : B, seen : Nat] /\ Seen \in Nat /\ Seen = work[Len(work)].seen
  BY <1>1, StackSets, NodeFacts DEF Seen
<1> DEFINE e == [work[Len(work)] EXCEPT !.seen = Seen + 1]
<1>3. e \in [block : B, seen : Nat] /\ e.block = work[Len(work)].block /\ e.seen = Seen + 1
  BY <1>2
<1>4. Advanced = [work EXCEPT ![Len(work)] = e]
  BY <1>2 DEF Advanced
<1> HIDE DEF e
<1>5. /\ [work EXCEPT ![Len(work)] = e] \in Seq([block : B, seen : Nat])
      /\ Len([work EXCEPT ![Len(work)] = e]) = Len(work)
      /\ \A j \in 1 .. Len(work) : [work EXCEPT ![Len(work)] = e][j] = IF j = Len(work) THEN e ELSE work[j]
  BY <1>1, <1>3, ExceptSeq
<1>6. /\ Advanced \in Seq([block : B, seen : Nat])
      /\ Len(Advanced) = Len(work)
      /\ \A j \in 1 .. Len(work) : Advanced[j] = IF j = Len(work) THEN e ELSE work[j]
  BY <1>4, <1>5
<1>7. \A i \in DOMAIN work : Advanced[i].block = work[i].block
  BY <1>1, <1>3, <1>6
<1>8. \A i \in DOMAIN work : i # Len(work) => Advanced[i].seen = work[i].seen
  BY <1>1, <1>6
<1>9. Advanced[Len(work)].seen = Seen + 1
  BY <1>1, <1>3, <1>6
<1> QED BY <1>6, <1>7, <1>8, <1>9

\* A block that gets its number.
LEMMA DiscoverFacts ==
  ASSUME ReachTypeOK, Numbers, phase = "search", NEW w \in B, index[w] = Unset,
         NEW stack \in Seq([block : B, seen : Nat]), Discover(w, stack)
  PROVE  /\ index' \in [B -> Int] /\ low' \in [B -> Nat] /\ counter' = counter + 1
         /\ index'[w] = counter /\ low'[w] = counter
         /\ \A b \in B : b # w => index'[b] = index[b] /\ low'[b] = low[b]
         /\ tarjan' \in Seq(B) /\ Len(tarjan') = Len(tarjan) + 1 /\ tarjan'[Len(tarjan) + 1] = w
         /\ \A i \in 1 .. Len(tarjan) : tarjan'[i] = tarjan[i]
         /\ work' \in Seq([block : B, seen : Nat]) /\ Len(work') = Len(stack) + 1
         /\ work'[Len(stack) + 1] = [block |-> w, seen |-> 0]
         /\ \A i \in 1 .. Len(stack) : work'[i] = stack[i]
         /\ w \notin Held /\ w \notin Closed /\ w \notin Open
         /\ Held' = Held \cup {w}
         /\ Open' = {stack[i].block : i \in DOMAIN stack} \cup {w}
<1>1. /\ index' = [index EXCEPT ![w] = counter] /\ low' = [low EXCEPT ![w] = counter]
      /\ counter' = counter + 1 /\ tarjan' = Append(tarjan, w)
      /\ work' = Append(stack, [block |-> w, seen |-> 0])
  BY DEF Discover
<1>2. index \in [B -> Int] /\ low \in [B -> Nat] /\ counter \in Nat /\ tarjan \in Seq(B)
  BY NumberFacts DEF ReachTypeOK
<1>3. /\ index' \in [B -> Int] /\ low' \in [B -> Nat] /\ counter' = counter + 1
      /\ index'[w] = counter /\ low'[w] = counter
      /\ \A b \in B : b # w => index'[b] = index[b] /\ low'[b] = low[b]
  BY <1>1, <1>2
<1>4. /\ tarjan' \in Seq(B) /\ Len(tarjan') = Len(tarjan) + 1 /\ tarjan'[Len(tarjan) + 1] = w
      /\ \A i \in 1 .. Len(tarjan) : tarjan'[i] = tarjan[i]
  BY <1>1, <1>2, AppendProperties
<1>5. [block |-> w, seen |-> 0] \in [block : B, seen : Nat]
  OBVIOUS
<1>6. /\ work' \in Seq([block : B, seen : Nat]) /\ Len(work') = Len(stack) + 1
      /\ work'[Len(stack) + 1] = [block |-> w, seen |-> 0]
      /\ \A i \in 1 .. Len(stack) : work'[i] = stack[i]
  BY <1>1, <1>5, AppendProperties
<1>7. w \notin Held /\ w \notin Closed /\ w \notin Open
  BY NumberFacts
<1>8. Held' = Held \cup {w}
  <2>1. DOMAIN tarjan' = 1 .. Len(tarjan) + 1 /\ DOMAIN tarjan = 1 .. Len(tarjan) /\ Len(tarjan) \in Nat
    BY <1>4, StackSets, LenProperties
  <2>2. DOMAIN tarjan' = DOMAIN tarjan \cup {Len(tarjan) + 1}
    BY <2>1
  <2>3. Held' = {tarjan'[i] : i \in DOMAIN tarjan \cup {Len(tarjan) + 1}}
    BY <2>2 DEF Held
  <2> QED BY <2>1, <2>3, <1>4 DEF Held
<1>9. Open' = {stack[i].block : i \in DOMAIN stack} \cup {w}
  <2>1. DOMAIN work' = 1 .. Len(stack) + 1 /\ DOMAIN stack = 1 .. Len(stack) /\ Len(stack) \in Nat
    BY <1>6, LenProperties
  <2>2. DOMAIN work' = DOMAIN stack \cup {Len(stack) + 1}
    BY <2>1
  <2>3. Open' = {work'[i].block : i \in DOMAIN stack \cup {Len(stack) + 1}}
    BY <2>2 DEF Open
  <2> QED BY <2>1, <2>3, <1>6 DEF Open
<1> QED BY <1>3, <1>4, <1>6, <1>7, <1>8, <1>9

\* A search that begins at a block without a number.
LEMMA BeginSearchFacts ==
  ASSUME ReachTypeOK, Numbers, BeginSearch, index[start] = Unset
  PROVE  /\ phase = "search" /\ start \in B /\ <<>> \in Seq([block : B, seen : Nat])
         /\ Discover(start, <<>>) /\ Open = {} /\ Open' = {start} /\ Len(work') = 1
         /\ \A b, d \in B : ~Looked(b, d)'
<1>1. phase = "search" /\ start \in B /\ Discover(start, <<>>) /\ work = <<>> /\ succs' = succs
  BY DEF BeginSearch, B
<1>2. <<>> \in Seq([block : B, seen : Nat]) /\ Len(<<>>) = 0 /\ DOMAIN <<>> = {}
  BY EmptySeq
<1>3. Open = {}
  BY <1>1 DEF Open
<1>4. /\ Open' = {<<>>[i].block : i \in DOMAIN <<>>} \cup {start}
      /\ work' \in Seq([block : B, seen : Nat]) /\ Len(work') = Len(<<>>) + 1
      /\ work'[Len(<<>>) + 1] = [block |-> start, seen |-> 0]
  <2> DEFINE s == <<>>
  <2>1. s \in Seq([block : B, seen : Nat]) /\ Discover(start, s)
    BY <1>1, <1>2
  <2> HIDE DEF s
  <2>2. /\ Open' = {s[i].block : i \in DOMAIN s} \cup {start}
        /\ work' \in Seq([block : B, seen : Nat]) /\ Len(work') = Len(s) + 1
        /\ work'[Len(s) + 1] = [block |-> start, seen |-> 0]
    BY <1>1, <2>1, DiscoverFacts
  <2> QED BY <2>2 DEF s
<1>5. Open' = {start} /\ Len(work') = 1 /\ work'[1] = [block |-> start, seen |-> 0] /\ DOMAIN work' = 1 .. 1
  BY <1>2, <1>4, LenProperties
<1>6. \A b, d \in B : ~Looked(b, d)'
  <2> SUFFICES ASSUME NEW b \in B, NEW d \in B, NEW i \in DOMAIN work', NEW k \in DOMAIN succs'[b],
                      work'[i].block = b, k <= work'[i].seen
               PROVE  FALSE
    BY DEF Looked
  <2>1. k <= 0 /\ b = start
    BY <1>5
  <2>2. succs[b] \in Seq(B)
    BY <1>1, NumberFacts, ArcTypes DEF B
  <2>3. k \in 1 .. Len(succs[b]) /\ Len(succs[b]) \in Nat
    BY <1>1, <2>2, LenProperties
  <2> QED BY <2>1, <2>3
<1> QED BY <1>1, <1>2, <1>3, <1>5, <1>6

\* The top block looks at its next successor w.
LEMMA SeeFacts ==
  ASSUME ReachTypeOK, Numbers, See
  PROVE  \E w \in B :
           /\ phase = "search" /\ work # <<>> /\ w = succs[Node][Seen + 1] /\ Goes(Node, w)
           /\ succs' = succs /\ phase' = phase /\ start' = start
           /\ sccMembers' = sccMembers /\ sccReach' = sccReach
           /\ \A b, d \in B : Looked(b, d)' => Looked(b, d) \/ (b = Node /\ d = w)
           /\ \/ index[w] = Unset /\ Discover(w, Advanced) /\ Open' = Open \cup {w}
              \/ /\ index[w] # Unset /\ work' = Advanced /\ Open' = Open /\ Held' = Held
                 /\ low' = (IF w \in Held THEN [low EXCEPT ![Node] = Least(low[Node], index[w])] ELSE low)
                 /\ UNCHANGED <<index, counter, tarjan>>
<1> DEFINE w == succs[Node][Seen + 1]
<1>1. /\ phase = "search" /\ work # <<>> /\ Seen < Len(succs[Node])
      /\ succs' = succs /\ phase' = phase /\ start' = start
      /\ sccMembers' = sccMembers /\ sccReach' = sccReach
      /\ IF index[w] = Unset THEN Discover(w, Advanced)
         ELSE /\ work' = Advanced
              /\ low' = IF OnStack(w) THEN [low EXCEPT ![Node] = Least(@, index[w])] ELSE low
              /\ UNCHANGED <<index, counter, tarjan>>
  BY DEF See
<1>2. /\ Seen \in Nat /\ Len(succs[Node]) \in Nat /\ DOMAIN succs[Node] = 1 .. Len(succs[Node])
      /\ \A k \in 1 .. Len(succs[Node]) : succs[Node][k] \in B /\ Goes(Node, succs[Node][k])
      /\ Len(work) \in Nat \ {0} /\ Len(work) \in DOMAIN work /\ Node \in B
      /\ \A i \in DOMAIN work : i # Len(work) => work[i].block # Node
  BY <1>1, NodeFacts
<1>3. w \in B /\ Goes(Node, w) /\ w = succs[Node][Seen + 1]
  <2>1. Seen + 1 \in 1 .. Len(succs[Node])
    BY <1>1, <1>2
  <2> QED BY <1>2, <2>1
<1> HIDE DEF w
<1>4. DOMAIN work = 1 .. Len(work) /\ Len(work) \in Nat
  BY StackSets
<1>5. /\ Advanced \in Seq([block : B, seen : Nat]) /\ Len(Advanced) = Len(work)
      /\ \A i \in DOMAIN work : Advanced[i].block = work[i].block
      /\ \A i \in DOMAIN work : i # Len(work) => Advanced[i].seen = work[i].seen
      /\ Advanced[Len(work)].seen = Seen + 1
  BY <1>1, AdvancedFacts
<1>6. DOMAIN Advanced = DOMAIN work
  BY <1>4, <1>5, LenProperties
<1>7. {Advanced[i].block : i \in DOMAIN Advanced} = Open
  BY <1>5, <1>6 DEF Open
<1>8. ASSUME NEW b \in B, NEW d \in B, NEW i \in DOMAIN work, NEW k \in DOMAIN succs[b],
             Advanced[i].block = b, k <= Advanced[i].seen, succs[b][k] = d
      PROVE  Looked(b, d) \/ (b = Node /\ d = w)
  <2>1. CASE i # Len(work)
    <3>1. work[i].block = b /\ k <= work[i].seen
      BY <1>5, <1>8, <2>1
    <3> QED BY <1>8, <3>1 DEF Looked
  <2>2. CASE i = Len(work)
    <3>1. b = Node /\ k <= Seen + 1 /\ k \in 1 .. Len(succs[Node])
      BY <1>2, <1>5, <1>8, <2>2 DEF Node
    <3>2. CASE k = Seen + 1
      BY <1>3, <1>8, <3>1, <3>2
    <3>3. CASE k <= Seen
      <4>1. work[i].block = b /\ k <= work[i].seen
        BY <2>2, <3>1, <3>3 DEF Node, Seen
      <4> QED BY <1>8, <4>1 DEF Looked
    <3> QED BY <1>2, <3>1, <3>2, <3>3
  <2> QED BY <2>1, <2>2
<1>9. CASE index[w] = Unset
  <2>1. Discover(w, Advanced)
    BY <1>1, <1>9
  <2>2. /\ work' \in Seq([block : B, seen : Nat]) /\ Len(work') = Len(Advanced) + 1
        /\ work'[Len(Advanced) + 1] = [block |-> w, seen |-> 0]
        /\ \A i \in 1 .. Len(Advanced) : work'[i] = Advanced[i]
        /\ Open' = {Advanced[i].block : i \in DOMAIN Advanced} \cup {w}
    BY <1>1, <1>3, <1>5, <1>9, <2>1, DiscoverFacts
  <2>3. Open' = Open \cup {w}
    BY <1>7, <2>2
  <2>4. DOMAIN work' = 1 .. Len(work) + 1
    BY <1>5, <2>2, LenProperties
  <2>5. ASSUME NEW b \in B, NEW d \in B, Looked(b, d)'
        PROVE  Looked(b, d) \/ (b = Node /\ d = w)
    <3>1. PICK i \in DOMAIN work', k \in DOMAIN succs[b] :
            work'[i].block = b /\ k <= work'[i].seen /\ succs[b][k] = d
      BY <1>1, <2>5 DEF Looked
    <3>2. k \in Nat \ {0}
      <4>1. succs[b] \in Seq(B)
        BY <1>1, NumberFacts, ArcTypes DEF B
      <4>2. DOMAIN succs[b] = 1 .. Len(succs[b]) /\ Len(succs[b]) \in Nat
        BY <4>1, LenProperties
      <4> QED BY <4>2
    <3>3. i # Len(work) + 1
      BY <1>5, <2>2, <3>1, <3>2
    <3>4. i \in DOMAIN work /\ work'[i] = Advanced[i]
      BY <1>4, <1>5, <2>2, <2>4, <3>3
    <3> QED BY <1>8, <3>1, <3>4
  <2> QED BY <1>1, <1>3, <1>9, <2>1, <2>3, <2>5
<1>10. CASE index[w] # Unset
  <2>1. /\ work' = Advanced /\ UNCHANGED <<index, counter, tarjan>>
        /\ low' = IF OnStack(w) THEN [low EXCEPT ![Node] = Least(low[Node], index[w])] ELSE low
    BY <1>1, <1>10
  <2>2. OnStack(w) <=> w \in Held
    BY DEF OnStack, Held
  <2>3. Open' = Open /\ Held' = Held
    BY <1>7, <2>1 DEF Open, Held
  <2>4. ASSUME NEW b \in B, NEW d \in B, Looked(b, d)'
        PROVE  Looked(b, d) \/ (b = Node /\ d = w)
    <3>1. PICK i \in DOMAIN work, k \in DOMAIN succs[b] :
            Advanced[i].block = b /\ k <= Advanced[i].seen /\ succs[b][k] = d
      BY <1>1, <1>6, <2>1, <2>4 DEF Looked
    <3> QED BY <1>8, <3>1
  <2> QED BY <1>1, <1>3, <1>10, <2>1, <2>2, <2>3, <2>4
<1> QED BY <1>9, <1>10

\* The top block is left.
LEMMA RetreatFacts ==
  ASSUME ReachTypeOK, Numbers, Retreat
  PROVE  /\ phase = "search" /\ work # <<>> /\ index' = index /\ counter' = counter
         /\ succs' = succs /\ phase' = phase /\ start' = start /\ sccReach' = sccReach
         /\ work' \in Seq([block : B, seen : Nat]) /\ Len(work') = Len(work) - 1
         /\ \A i \in 1 .. Len(work) - 1 : work'[i] = work[i]
         /\ Open' = Open \ {Node}
         /\ \A b, d \in B : Looked(b, d)' => Looked(b, d)
         /\ \A d \in B : Goes(Node, d) => Looked(Node, d)
         /\ \/ Open' = {} /\ low' = low
            \/ \E p \in Open \ {Node} :
                 /\ \A g \in Open \ {Node} : index[g] <= index[p]
                 /\ low' = [low EXCEPT ![p] = Least(low[p], low[Node])]
         /\ low' \in [B -> Nat] /\ \A b \in B : low'[b] <= low[b]
<1>1. /\ phase = "search" /\ work # <<>> /\ Seen >= Len(succs[Node]) /\ index' = index /\ counter' = counter
      /\ succs' = succs /\ phase' = phase /\ start' = start /\ sccReach' = sccReach /\ work' = Front(work)
      /\ low' = IF Len(work) = 1 THEN low
                ELSE [low EXCEPT ![work[Len(work) - 1].block] = Least(low[work[Len(work) - 1].block], low[Node])]
  BY DEF Retreat
<1>2. /\ Seen \in Nat /\ Len(succs[Node]) \in Nat /\ DOMAIN succs[Node] = 1 .. Len(succs[Node])
      /\ Len(work) \in Nat \ {0} /\ Len(work) \in DOMAIN work /\ Node \in B
      /\ \A i \in DOMAIN work : i # Len(work) => work[i].block # Node
  BY <1>1, NodeFacts
<1>3. /\ work' \in Seq([block : B, seen : Nat]) /\ Len(work') = Len(work) - 1
      /\ DOMAIN work' = 1 .. Len(work) - 1
      /\ DOMAIN work = 1 .. Len(work)
      /\ \A i \in 1 .. Len(work) - 1 : work'[i] = work[i]
  <2>1. work \in Seq([block : B, seen : Nat])
    BY DEF ReachTypeOK
  <2> QED BY <1>1, <2>1, FrontFacts
<1>4. Open' = Open \ {Node}
  <2>1. Open' = {work'[i].block : i \in 1 .. Len(work) - 1}
    BY <1>3 DEF Open
  <2>2. Open' = {work[i].block : i \in 1 .. Len(work) - 1}
    BY <1>3, <2>1
  <2>3. DOMAIN work = 1 .. Len(work) - 1 \cup {Len(work)} /\ \A i \in 1 .. Len(work) - 1 : i \in DOMAIN work /\ i # Len(work)
    BY <1>2, <1>3
  <2> QED BY <1>2, <2>2, <2>3 DEF Open, Node
<1>5. \A b, d \in B : Looked(b, d)' => Looked(b, d)
  <2> SUFFICES ASSUME NEW b \in B, NEW d \in B, NEW i \in DOMAIN work', NEW k \in DOMAIN succs[b],
                      work'[i].block = b, k <= work'[i].seen, succs[b][k] = d
               PROVE  Looked(b, d)
    BY <1>1 DEF Looked
  <2>1. i \in DOMAIN work /\ work'[i] = work[i]
    BY <1>2, <1>3
  <2> QED BY <2>1 DEF Looked
<1>6. \A d \in B : Goes(Node, d) => Looked(Node, d)
  <2> SUFFICES ASSUME NEW d \in B, NEW k \in DOMAIN succs[Node], succs[Node][k] = d PROVE Looked(Node, d)
    BY DEF Goes, Arc
  <2>1. k <= Seen
    BY <1>1, <1>2
  <2> QED BY <1>2, <2>1 DEF Looked, Node, Seen
<1>7. low \in [B -> Nat]
  BY <1>1, NumberFacts
<1>8. CASE Len(work) = 1
  <2>1. low' = low /\ low' \in [B -> Nat] /\ \A b \in B : low'[b] <= low[b]
    BY <1>1, <1>7, <1>8
  <2>2. Open' = {}
    BY <1>3, <1>8 DEF Open
  <2> QED BY <1>1, <1>3, <1>4, <1>5, <1>6, <2>1, <2>2
<1>9. CASE Len(work) # 1
  <2> DEFINE p == work[Len(work) - 1].block
  <2>1. Len(work) - 1 \in DOMAIN work /\ Len(work) - 1 # Len(work)
    BY <1>2, <1>3, <1>9
  <2>2. p \in Open \ {Node} /\ p \in B
    BY <1>2, <2>1, StackSets
  <2>3. \A g \in Open \ {Node} : index[g] <= index[p]
    <3> SUFFICES ASSUME NEW g \in Open, g # Node PROVE index[g] <= index[p]
      OBVIOUS
    <3>1. PICK i \in DOMAIN work : work[i].block = g
      BY DEF Open
    <3>2. i # Len(work) /\ i <= Len(work) - 1
      BY <1>2, <1>3, <3>1 DEF Node
    <3>3. \A k, j \in DOMAIN work : k < j => index[work[k].block] < index[work[j].block]
      BY <1>1 DEF Numbers
    <3>4. i < Len(work) - 1 => index[g] < index[p]
      BY <2>1, <3>1, <3>3
    <3>5. i = Len(work) - 1 => g = p
      BY <3>1
    <3>6. index[g] \in Nat /\ index[p] \in Nat
      BY <1>1, <2>2, NumberFacts
    <3> QED BY <1>2, <1>3, <3>2, <3>4, <3>5, <3>6
  <2>4. low' = [low EXCEPT ![p] = Least(low[p], low[Node])]
    BY <1>1, <1>9
  <2> HIDE DEF p
  <2>5. low[p] \in Nat /\ low[Node] \in Nat
    BY <1>2, <1>7, <2>2
  <2>6. Least(low[p], low[Node]) \in Nat /\ Least(low[p], low[Node]) <= low[p]
    BY <2>5 DEF Least
  <2>7. low' \in [B -> Nat] /\ \A b \in B : low'[b] <= low[b]
    <3>1. low' \in [B -> Nat]
      BY <1>7, <2>4, <2>6
    <3>2. \A b \in B : low'[b] = IF b = p THEN Least(low[p], low[Node]) ELSE low[b]
      BY <1>7, <2>4
    <3>3. \A b \in B : low[b] \in Nat
      BY <1>7
    <3> QED BY <2>6, <3>1, <3>2, <3>3
  <2> QED BY <1>1, <1>3, <1>4, <1>5, <1>6, <2>2, <2>3, <2>4, <2>7
<1> QED BY <1>8, <1>9

\* The blocks on the stack stay, or those from the top block on become a component.
LEMMA CompleteFacts ==
  ASSUME ReachTypeOK, Numbers, Retreat
  PROVE  \/ low[Node] # index[Node] /\ tarjan' = tarjan /\ sccMembers' = sccMembers /\ Held' = Held
         \/ /\ low[Node] = index[Node]
            /\ tarjan' \in Seq(B) /\ Len(tarjan') \in Nat /\ Len(tarjan') <= Len(tarjan)
            /\ \A i \in 1 .. Len(tarjan') : tarjan'[i] = tarjan[i]
            /\ Held' = {b \in Held : index[b] < index[Node]}
            /\ sccMembers' = Append(sccMembers, {b \in Held : index[Node] <= index[b]})
<1>1. /\ phase = "search" /\ work # <<>>
      /\ IF low[Node] # index[Node] THEN UNCHANGED <<tarjan, sccMembers>>
         ELSE \E from \in DOMAIN tarjan :
                /\ tarjan[from] = Node
                /\ tarjan' = SubSeq(tarjan, 1, from - 1)
                /\ sccMembers' = Append(sccMembers, {tarjan[i] : i \in from .. Len(tarjan)})
  BY DEF Retreat
<1>2. CASE low[Node] # index[Node]
  BY <1>1, <1>2 DEF Held
<1>3. CASE low[Node] = index[Node]
  <2>1. PICK from \in DOMAIN tarjan :
          /\ tarjan[from] = Node
          /\ tarjan' = SubSeq(tarjan, 1, from - 1)
          /\ sccMembers' = Append(sccMembers, {tarjan[i] : i \in from .. Len(tarjan)})
    BY <1>1, <1>3
  <2>2. DOMAIN tarjan = 1 .. Len(tarjan) /\ Len(tarjan) \in Nat /\ \A i \in 1 .. Len(tarjan) : tarjan[i] \in B /\ tarjan[i] \in Held
    BY StackSets
  <2>3. from \in 1 .. Len(tarjan)
    BY <2>1, <2>2
  <2>4. \A i, j \in DOMAIN tarjan : i < j => index[tarjan[i]] < index[tarjan[j]]
    BY <1>1 DEF Numbers
  <2>5. \A i \in DOMAIN tarjan : index[tarjan[i]] \in Nat
    BY <1>1, <2>2, NumberFacts
  <2>6. /\ tarjan' \in Seq(B) /\ Len(tarjan') = from - 1
        /\ \A i \in 1 .. from - 1 : tarjan'[i] = tarjan[i]
    <3>1. 1 \in Int /\ from - 1 \in Int /\ \A i \in 1 .. from - 1 : tarjan[i] \in B
      BY <2>2, <2>3
    <3>2. /\ SubSeq(tarjan, 1, from - 1) \in Seq(B)
          /\ Len(SubSeq(tarjan, 1, from - 1)) = IF 1 <= from - 1 THEN (from - 1) - 1 + 1 ELSE 0
          /\ \A i \in 1 .. (from - 1) - 1 + 1 : SubSeq(tarjan, 1, from - 1)[i] = tarjan[1 + i - 1]
      BY <3>1, SubSeqProperties
    <3>3. SubSeq(tarjan, 1, from - 1) \in Seq(B) /\ Len(SubSeq(tarjan, 1, from - 1)) = from - 1
      BY <2>3, <3>2
    <3>4. \A i \in 1 .. from - 1 : SubSeq(tarjan, 1, from - 1)[i] = tarjan[i]
      BY <2>3, <3>2
    <3> QED BY <2>1, <3>3, <3>4
  <2>7. \A i \in DOMAIN tarjan : i < from <=> index[tarjan[i]] < index[Node]
    <3> SUFFICES ASSUME NEW i \in DOMAIN tarjan PROVE i < from <=> index[tarjan[i]] < index[Node]
      OBVIOUS
    <3>1. i \in Nat /\ from \in Nat /\ index[tarjan[i]] \in Nat /\ index[Node] \in Nat
      BY <2>1, <2>2, <2>3, <2>5
    <3>2. CASE i < from
      BY <2>1, <2>4, <3>2
    <3>3. CASE i = from
      BY <2>1, <3>1, <3>3
    <3>4. CASE from < i
      <4>1. index[Node] < index[tarjan[i]]
        BY <2>1, <2>4, <3>4
      <4> QED BY <3>1, <3>4, <4>1
    <3> QED BY <3>1, <3>2, <3>3, <3>4
  <2>8. Held' = {b \in Held : index[b] < index[Node]}
    <3>1. DOMAIN tarjan' = 1 .. from - 1
      BY <2>6, LenProperties
    <3>2. Held' = {tarjan[i] : i \in 1 .. from - 1}
      BY <2>6, <3>1 DEF Held
    <3>3. \A i : i \in 1 .. from - 1 <=> i \in DOMAIN tarjan /\ i < from
      BY <2>2, <2>3
    <3> QED BY <2>7, <3>2, <3>3 DEF Held
  <2>9. {tarjan[i] : i \in from .. Len(tarjan)} = {b \in Held : index[Node] <= index[b]}
    <3>1. \A i : i \in from .. Len(tarjan) <=> i \in DOMAIN tarjan /\ ~(i < from)
      BY <2>2, <2>3
    <3>2. \A i \in DOMAIN tarjan : ~(i < from) <=> index[Node] <= index[tarjan[i]]
      <4> SUFFICES ASSUME NEW i \in DOMAIN tarjan PROVE ~(i < from) <=> index[Node] <= index[tarjan[i]]
        OBVIOUS
      <4>1. index[tarjan[i]] \in Nat /\ index[Node] \in Nat
        BY <2>1, <2>5
      <4> QED BY <2>7, <4>1
    <3> QED BY <3>1, <3>2 DEF Held
  <2>10. Len(tarjan') \in Nat /\ Len(tarjan') <= Len(tarjan) /\ \A i \in 1 .. Len(tarjan') : tarjan'[i] = tarjan[i]
    BY <2>2, <2>3, <2>6
  <2> QED BY <1>3, <2>1, <2>6, <2>8, <2>9, <2>10
<1> QED BY <1>2, <1>3

\* What a new component adds.
LEMMA ComponentFacts ==
  ASSUME ReachTypeOK, NEW M \in SUBSET B, sccMembers' = Append(sccMembers, M), succs' = succs
  PROVE  /\ sccMembers' \in Seq(SUBSET B) /\ Len(sccMembers') = Len(sccMembers) + 1
         /\ DOMAIN sccMembers' = 1 .. Len(sccMembers) + 1
         /\ \A i \in DOMAIN sccMembers : sccMembers'[i] = sccMembers[i]
         /\ sccMembers'[Len(sccMembers) + 1] = M
         /\ Closed' = Closed \cup M
<1>1. sccMembers \in Seq(SUBSET B) /\ DOMAIN sccMembers = 1 .. Len(sccMembers) /\ Len(sccMembers) \in Nat
  BY StackSets DEF ReachTypeOK
<1>2. /\ sccMembers' \in Seq(SUBSET B) /\ Len(sccMembers') = Len(sccMembers) + 1
      /\ \A i \in 1 .. Len(sccMembers) : sccMembers'[i] = sccMembers[i]
      /\ sccMembers'[Len(sccMembers) + 1] = M
  BY <1>1, AppendProperties
<1>3. DOMAIN sccMembers' = 1 .. Len(sccMembers) + 1
  BY <1>2, LenProperties
<1>4. DOMAIN sccMembers' = DOMAIN sccMembers \cup {Len(sccMembers) + 1}
  BY <1>1, <1>3
<1>5. Closed' = UNION {sccMembers'[i] : i \in DOMAIN sccMembers \cup {Len(sccMembers) + 1}}
  BY <1>4 DEF Closed
<1>6. Closed' = Closed \cup M
  BY <1>1, <1>2, <1>5 DEF Closed
<1> QED BY <1>1, <1>2, <1>3, <1>6

\* The component of a block.
LEMMA SccIdFacts ==
  ASSUME Found, NEW b \in Closed
  PROVE  /\ SccId(b) \in DOMAIN sccMembers /\ b \in sccMembers[SccId(b)]
         /\ \A i \in DOMAIN sccMembers : b \in sccMembers[i] => i = SccId(b)
<1>1. \E i \in DOMAIN sccMembers : b \in sccMembers[i]
  BY DEF Closed
<1>2. SccId(b) \in DOMAIN sccMembers /\ b \in sccMembers[SccId(b)]
  BY <1>1 DEF SccId
<1> QED BY <1>2 DEF Found

\* A route leads to a component found no later.
LEMMA ComponentsBelow ==
  ASSUME ReachTypeOK, Found, Closed = B, NEW a \in B, NEW b \in B, Gets(a, b)
  PROVE  SccId(a) \in Nat /\ SccId(b) \in Nat /\ SccId(b) <= SccId(a)
<1>1. \A c \in B : SccId(c) \in DOMAIN sccMembers /\ SccId(c) \in Nat /\ c \in sccMembers[SccId(c)]
  BY SccIdFacts, StackSets
<1> DEFINE S == {c \in B : SccId(c) <= SccId(a)}
<1>2. ArcClosed(succs, S)
  <2> SUFFICES ASSUME NEW c \in S, NEW d \in B, Goes(c, d) PROVE d \in S
    BY DEF ArcClosed, B, Goes
  <2>1. c \in B /\ SccId(c) <= SccId(a) /\ SccId(c) \in DOMAIN sccMembers /\ c \in sccMembers[SccId(c)]
    BY <1>1
  <2>2. PICK k \in 1 .. SccId(c) : d \in sccMembers[k]
    BY <2>1 DEF Found
  <2>3. k \in DOMAIN sccMembers
    BY <1>1, <2>1, <2>2, StackSets
  <2>4. SccId(d) = k
    BY <2>2, <2>3, SccIdFacts
  <2> QED BY <1>1, <2>1, <2>2, <2>4
<1>3. S \in SUBSET B /\ a \in S
  BY <1>1
<1> HIDE DEF S
<1>4. b \in S
  BY <1>2, <1>3 DEF Gets, Route, B
<1> QED BY <1>1, <1>4 DEF S

\* A component leads to its blocks and to what the components lead to that have an arc from it.
LEMMA UnionFacts ==
  ASSUME ReachTypeOK, Found, United, Union
  PROVE  \E R \in SUBSET B :
           /\ sccReach' = Append(sccReach, R) /\ Len(sccReach) + 1 \in DOMAIN sccMembers
           /\ \A a \in sccMembers[Len(sccReach) + 1] : R = {b \in B : Gets(a, b)}
<1>1. sccReach \in Seq(SUBSET B) /\ phase = "union" /\ Len(sccReach) < Len(sccMembers) /\ succs \in FlowGraphs
  BY DEF ReachTypeOK, Union
<1> DEFINE i == Len(sccReach) + 1
           M == sccMembers[i]
           R == M \cup UNION {sccReach[k] : k \in SuccSccs(i)}
<1>2. sccReach' = Append(sccReach, R)
  BY DEF Union
<1>3. DOMAIN sccReach = 1 .. Len(sccReach) /\ Len(sccReach) \in Nat
  BY <1>1, LenProperties
<1>4. i \in DOMAIN sccMembers /\ M \in SUBSET B /\ i \in Nat
  BY <1>1, <1>3, StackSets
<1>5. Closed = B
  BY <1>1 DEF Found
<1>6. \A m \in M : \A w : w \in Range(succs[m]) <=> w \in B /\ Goes(m, w)
  <2> SUFFICES ASSUME NEW m \in M, NEW w PROVE w \in Range(succs[m]) <=> w \in B /\ Goes(m, w)
    OBVIOUS
  <2>1. m \in DOMAIN succs
    BY <1>4 DEF B
  <2>2. succs[m] \in Seq(DOMAIN succs)
    BY <1>1, <2>1, ArcTypes
  <2>3. \A k \in DOMAIN succs[m] : succs[m][k] \in B
    BY <2>2, LenProperties, ElementOfSeq DEF B
  <2> QED BY <2>3 DEF Range, Goes, Arc
<1>7. \A m \in M, w \in B : Goes(m, w) => w \in M \/ SccId(w) \in SuccSccs(i)
  <2> SUFFICES ASSUME NEW m \in M, NEW w \in B, Goes(m, w), w \notin M PROVE SccId(w) \in SuccSccs(i)
    OBVIOUS
  <2>1. w \in UNION {Range(succs[x]) : x \in M}
    BY <1>6
  <2>2. SccId(w) # i
    BY <1>5, SccIdFacts
  <2> QED BY <2>1, <2>2 DEF SuccSccs
<1>8. ASSUME NEW k \in SuccSccs(i)
      PROVE  /\ k \in DOMAIN sccReach
             /\ \E m \in M, w \in sccMembers[k] : w \in B /\ Goes(m, w) /\ sccReach[k] = {b \in B : Gets(w, b)}
  <2>1. PICK w \in UNION {Range(succs[m]) : m \in M} : k = SccId(w) /\ k # i
    BY <1>8 DEF SuccSccs
  <2>2. PICK m \in M : w \in Range(succs[m])
    BY <2>1
  <2>3. w \in B /\ Goes(m, w)
    BY <1>6, <2>2
  <2>4. PICK j \in 1 .. i : w \in sccMembers[j]
    BY <1>4, <2>3 DEF Found
  <2>5. j \in DOMAIN sccMembers
    BY <1>4, <2>4, StackSets
  <2>6. j = k /\ w \in sccMembers[k]
    BY <1>5, <2>1, <2>3, <2>4, <2>5, SccIdFacts
  <2>7. k \in DOMAIN sccReach
    BY <1>3, <2>1, <2>4, <2>6
  <2>8. sccReach[k] = {b \in B : Gets(w, b)}
    BY <2>6, <2>7 DEF United
  <2> QED BY <2>3, <2>6, <2>7, <2>8
<1>9. R \in SUBSET B
  <2>1. \A k \in SuccSccs(i) : sccReach[k] \subseteq B
    BY <1>8
  <2> HIDE DEF M, i
  <2> QED BY <1>4, <2>1
<1>10. ASSUME NEW a \in M PROVE R = {b \in B : Gets(a, b)}
  <2>1. \A m \in M : Gets(a, m)
    BY <1>4, <1>10 DEF Found
  <2>2. \A b \in R : Gets(a, b)
    <3> SUFFICES ASSUME NEW k \in SuccSccs(i), NEW b \in sccReach[k] PROVE Gets(a, b)
      BY <2>1
    <3>1. PICK m \in M, w \in sccMembers[k] : w \in B /\ Goes(m, w) /\ sccReach[k] = {x \in B : Gets(w, x)}
      BY <1>8
    <3>2. Gets(m, w)
      BY <1>4, <3>1, ReachPaths
    <3>3. Gets(w, b)
      BY <3>1
    <3> QED BY <2>1, <3>2, <3>3, ReachPaths
  <2>3. ArcClosed(succs, R)
    <3> SUFFICES ASSUME NEW c \in R, NEW d \in B, Goes(c, d) PROVE d \in R
      BY DEF ArcClosed, B, Goes
    <3>1. CASE c \in M
      <4>1. CASE d \in M
        BY <4>1
      <4>2. CASE d \notin M
        <5>1. SccId(d) \in SuccSccs(i)
          BY <1>7, <3>1, <4>2
        <5>2. d \in sccMembers[SccId(d)] /\ SccId(d) \in DOMAIN sccReach
          BY <1>5, <1>8, <5>1, SccIdFacts
        <5>3. d \in sccReach[SccId(d)]
          BY <5>2, ReachPaths DEF United
        <5> QED BY <5>1, <5>3
      <4> QED BY <4>1, <4>2
    <3>2. CASE \E k \in SuccSccs(i) : c \in sccReach[k]
      <4>1. PICK k \in SuccSccs(i) : c \in sccReach[k]
        BY <3>2
      <4>2. PICK w \in sccMembers[k] : sccReach[k] = {x \in B : Gets(w, x)}
        BY <1>8, <4>1
      <4>3. Gets(w, c) /\ Gets(c, d)
        BY <1>9, <4>1, <4>2, ReachPaths
      <4>4. d \in sccReach[k]
        BY <4>2, <4>3, ReachPaths
      <4> QED BY <4>1, <4>4
    <3> QED BY <3>1, <3>2
  <2>4. a \in R
    BY <1>10
  <2> HIDE DEF R
  <2>5. \A b : Gets(a, b) => b \in R
    BY <1>9, <2>3, <2>4 DEF Gets, Route, B
  <2> QED BY <1>9, <2>2, <2>5
<1> QED BY <1>2, <1>4, <1>9, <1>10

\* The result is what the blocks lead to.
LEMMA EndUnionFacts ==
  ASSUME ReachTypeOK, Found, United, EndUnion
  PROVE  reach' = [a \in B |-> {b \in B : Gets(a, b)}]
<1>1. /\ phase = "union" /\ Len(sccReach) = Len(sccMembers) /\ Closed = B
      /\ reach' = [a \in B |-> sccReach[SccId(a)]]
  BY DEF EndUnion, Found, B
<1>2. DOMAIN sccReach = DOMAIN sccMembers
  <2>1. sccReach \in Seq(SUBSET B) /\ sccMembers \in Seq(SUBSET B)
    BY DEF ReachTypeOK
  <2> QED BY <1>1, <2>1, LenProperties
<1>3. \A a \in B : sccReach[SccId(a)] = {b \in B : Gets(a, b)}
  BY <1>1, <1>2, SccIdFacts DEF United
<1> QED BY <1>1, <1>3

-----------------------------------------------------------------------------
(* The types.                                                              *)

LEMMA ReachTypeInit == ReachInit => ReachTypeOK
<1> SUFFICES ASSUME ReachInit PROVE ReachTypeOK
  OBVIOUS
<1>1. \A S : <<>> \in Seq(S)
  BY EmptySeq
<1>2. Len(sccReach) <= Len(sccMembers)
  BY EmptySeq DEF ReachInit
<1> QED BY <1>1, <1>2 DEF ReachInit, ReachTypeOK

LEMMA ReachTypeStep == ReachTypeOK /\ Numbers /\ Found /\ United /\ [ReachNext]_reachVars => ReachTypeOK'
<1> SUFFICES ASSUME ReachTypeOK, Numbers, Found, United, [ReachNext]_reachVars PROVE ReachTypeOK'
  OBVIOUS
<1>1. ASSUME NEW g \in FlowGraphs, CallReach(g) PROVE ReachTypeOK'
  <2>1. /\ phase' = "search" /\ start' = 0 /\ work' = <<>> /\ counter' = 0 /\ tarjan' = <<>>
        /\ sccMembers' = <<>> /\ sccReach' = <<>> /\ succs' = g
        /\ index' = [b \in DOMAIN g |-> Unset] /\ low' = [b \in DOMAIN g |-> 0]
    BY <1>1 DEF CallReach, ReachTypeOK
  <2>2. \A S : <<>> \in Seq(S)
    BY EmptySeq
  <2>3. index' \in [B' -> Int] /\ low' \in [B' -> Nat]
    BY <2>1 DEF B, Unset
  <2>4. Len(<<>>) <= Len(<<>>)
    BY EmptySeq
  <2> QED BY <2>1, <2>2, <2>3, <2>4 DEF ReachTypeOK
<1>2. CASE BeginSearch
  <2>1. /\ phase = "search" /\ phase' = "search" /\ succs' = succs /\ start \in B /\ start' = start + 1
        /\ sccMembers' = sccMembers /\ sccReach' = sccReach /\ B' = B
    BY <1>2 DEF BeginSearch, B
  <2>2. CASE index[start] = Unset
    <3>1. Discover(start, <<>>) /\ <<>> \in Seq([block : B, seen : Nat])
      BY <1>2, <2>2, BeginSearchFacts
    <3>2. /\ index' \in [B -> Int] /\ low' \in [B -> Nat] /\ counter' = counter + 1
          /\ tarjan' \in Seq(B) /\ work' \in Seq([block : B, seen : Nat])
      BY <2>1, <2>2, <3>1, DiscoverFacts
    <3> QED BY <2>1, <3>2 DEF ReachTypeOK
  <2>3. CASE index[start] # Unset
    <3>1. UNCHANGED <<index, low, counter, tarjan, work>>
      BY <1>2, <2>3 DEF BeginSearch
    <3> QED BY <2>1, <3>1 DEF ReachTypeOK
  <2> QED BY <2>2, <2>3
<1>3. CASE See
  <2>1. PICK w \in B :
          /\ phase = "search" /\ work # <<>> /\ succs' = succs /\ phase' = phase /\ start' = start
          /\ sccMembers' = sccMembers /\ sccReach' = sccReach
          /\ \/ index[w] = Unset /\ Discover(w, Advanced)
             \/ /\ index[w] # Unset /\ work' = Advanced
                /\ low' = (IF w \in Held THEN [low EXCEPT ![Node] = Least(low[Node], index[w])] ELSE low)
                /\ UNCHANGED <<index, counter, tarjan>>
    BY <1>3, SeeFacts
  <2>2. B' = B /\ Advanced \in Seq([block : B, seen : Nat])
    BY <2>1, AdvancedFacts DEF B
  <2>3. CASE index[w] = Unset /\ Discover(w, Advanced)
    <3>1. /\ index' \in [B -> Int] /\ low' \in [B -> Nat] /\ counter' = counter + 1
          /\ tarjan' \in Seq(B) /\ work' \in Seq([block : B, seen : Nat])
      BY <2>1, <2>2, <2>3, DiscoverFacts
    <3>2. /\ phase = "search" /\ phase' = phase /\ succs' = succs /\ start' = start
          /\ sccMembers' = sccMembers /\ sccReach' = sccReach
      BY <2>1
    <3> QED BY <2>2, <3>1, <3>2 DEF ReachTypeOK
  <2>4. CASE /\ work' = Advanced
             /\ low' = (IF w \in Held THEN [low EXCEPT ![Node] = Least(low[Node], index[w])] ELSE low)
             /\ UNCHANGED <<index, counter, tarjan>>
    <3>1. low' \in [B -> Nat]
      <4>1. low \in [B -> Nat] /\ Node \in B /\ low[Node] \in Nat
        BY <2>1, NumberFacts, NodeFacts
      <4>2. w \in Held => index[w] \in Nat
        BY <2>1, NumberFacts
      <4>3. w \in Held => Least(low[Node], index[w]) \in Nat
        BY <4>1, <4>2 DEF Least
      <4> QED BY <2>4, <4>1, <4>3
    <3> QED BY <2>1, <2>2, <2>4, <3>1 DEF ReachTypeOK
  <2> QED BY <2>1, <2>3, <2>4
<1>4. CASE Retreat
  <2>1. /\ phase = "search" /\ index' = index /\ counter' = counter
        /\ succs' = succs /\ phase' = phase /\ start' = start /\ sccReach' = sccReach
        /\ work' \in Seq([block : B, seen : Nat]) /\ low' \in [B -> Nat] /\ B' = B
    BY <1>4, RetreatFacts DEF B
  <2>2. /\ tarjan' \in Seq(B) /\ sccMembers' \in Seq(SUBSET B)
        /\ Len(sccMembers') \in Nat /\ Len(sccMembers') >= Len(sccMembers)
    <3>1. CASE tarjan' = tarjan /\ sccMembers' = sccMembers
      BY <3>1, StackSets DEF ReachTypeOK
    <3>2. CASE /\ tarjan' \in Seq(B)
               /\ sccMembers' = Append(sccMembers, {b \in Held : index[Node] <= index[b]})
      <4>1. {b \in Held : index[Node] <= index[b]} \in SUBSET B
        BY StackSets
      <4>2. sccMembers' \in Seq(SUBSET B) /\ Len(sccMembers') = Len(sccMembers) + 1
        BY <2>1, <3>2, <4>1, ComponentFacts
      <4> QED BY <3>2, <4>2, StackSets
    <3> QED BY <1>4, <3>1, <3>2, CompleteFacts
  <2>3. sccReach' = <<>> /\ Len(<<>>) = 0 /\ <<>> \in Seq(SUBSET B)
    BY <2>1, EmptySeq DEF ReachTypeOK
  <2>4. Len(sccReach') <= Len(sccMembers')
    BY <2>2, <2>3
  <2> QED BY <2>1, <2>2, <2>3, <2>4 DEF ReachTypeOK
<1>5. CASE EndSearch
  BY <1>5 DEF EndSearch, ReachTypeOK, B
<1>6. CASE Union
  <2>1. PICK R \in SUBSET B : sccReach' = Append(sccReach, R) /\ Len(sccReach) + 1 \in DOMAIN sccMembers
    BY <1>6, UnionFacts
  <2>2. /\ phase = "union" /\ Len(sccReach) < Len(sccMembers)
        /\ UNCHANGED <<succs, phase, start, work, counter, index, low, tarjan, sccMembers, reach>>
    BY <1>6 DEF Union
  <2>3. sccReach' \in Seq(SUBSET B) /\ Len(sccReach') = Len(sccReach) + 1
    <3>1. sccReach \in Seq(SUBSET B)
      BY DEF ReachTypeOK
    <3> QED BY <2>1, <3>1, AppendProperties
  <2>4. Len(sccReach) \in Nat /\ Len(sccMembers) \in Nat
    <3>1. sccReach \in Seq(SUBSET B)
      BY DEF ReachTypeOK
    <3> QED BY <3>1, LenProperties, StackSets
  <2>5. Len(sccReach') <= Len(sccMembers')
    BY <2>2, <2>3, <2>4
  <2> QED BY <2>2, <2>3, <2>5 DEF ReachTypeOK, B
<1>7. CASE EndUnion
  <2>1. reach' = [a \in B |-> {b \in B : Gets(a, b)}]
    BY <1>7, EndUnionFacts
  <2>2. reach' \in [B -> SUBSET B]
    BY <2>1
  <2> QED BY <1>7, <2>2 DEF EndUnion, ReachTypeOK, B
<1>8. CASE UNCHANGED reachVars
  BY <1>8 DEF reachVars, ReachTypeOK, B
<1> QED BY <1>1, <1>2, <1>3, <1>4, <1>5, <1>6, <1>7, <1>8 DEF ReachNext, ReachStep

-----------------------------------------------------------------------------
(* The numbers.                                                            *)

\* A stack of the open blocks, in the order of their numbers.
InOrder(stack) ==
  /\ {stack[i].block : i \in DOMAIN stack} = Open
  /\ \A i, j \in DOMAIN stack : i < j => index[stack[i].block] < index[stack[j].block]

\* A new number is the greatest one, and comes last.
LEMMA DiscoverNumbers ==
  ASSUME ReachTypeOK, Numbers, phase = "search", NEW w \in B, index[w] = Unset,
         NEW stack \in Seq([block : B, seen : Nat]), Discover(w, stack),
         sccMembers' = sccMembers, succs' = succs, InOrder(stack)
  PROVE  /\ \A b \in B : index'[b] < counter' /\ (index'[b] = Unset \/ index'[b] >= 0)
         /\ \A b \in B : index'[b] # Unset <=> b \in Held' \cup Closed'
         /\ \A b \in B : index[b] # Unset => index'[b] # Unset
         /\ Held' \cap Closed' = {} /\ Open' \subseteq Held'
         /\ \A i, j \in DOMAIN tarjan' : i < j => index'[tarjan'[i]] < index'[tarjan'[j]]
         /\ \A i, j \in DOMAIN work' : i < j => index'[work'[i].block] < index'[work'[j].block]
<1>1. /\ index' \in [B -> Int] /\ counter' = counter + 1 /\ index'[w] = counter
      /\ \A b \in B : b # w => index'[b] = index[b]
      /\ Len(tarjan') = Len(tarjan) + 1 /\ tarjan'[Len(tarjan) + 1] = w /\ tarjan' \in Seq(B)
      /\ \A i \in 1 .. Len(tarjan) : tarjan'[i] = tarjan[i]
      /\ work' \in Seq([block : B, seen : Nat]) /\ Len(work') = Len(stack) + 1
      /\ work'[Len(stack) + 1] = [block |-> w, seen |-> 0]
      /\ \A i \in 1 .. Len(stack) : work'[i] = stack[i]
      /\ w \notin Held /\ w \notin Closed /\ w \notin Open
      /\ Held' = Held \cup {w}
  <2>1. /\ index' \in [B -> Int] /\ counter' = counter + 1 /\ index'[w] = counter
        /\ \A b \in B : b # w => index'[b] = index[b]
    <3>1. index' = [index EXCEPT ![w] = counter] /\ counter' = counter + 1
      BY DEF Discover
    <3>2. index \in [B -> Int] /\ counter \in Nat
      BY NumberFacts
    <3> QED BY <3>1, <3>2
  <2>2. /\ Len(tarjan') = Len(tarjan) + 1 /\ tarjan'[Len(tarjan) + 1] = w /\ tarjan' \in Seq(B)
        /\ \A i \in 1 .. Len(tarjan) : tarjan'[i] = tarjan[i]
    BY DiscoverFacts
  <2>3. /\ work' \in Seq([block : B, seen : Nat]) /\ Len(work') = Len(stack) + 1
        /\ work'[Len(stack) + 1] = [block |-> w, seen |-> 0]
        /\ \A i \in 1 .. Len(stack) : work'[i] = stack[i]
    BY DiscoverFacts
  <2>4. /\ w \notin Held /\ w \notin Closed /\ w \notin Open
        /\ Held' = Held \cup {w}
    BY DiscoverFacts
  <2> QED BY <2>1, <2>2, <2>3, <2>4
<1>2. Open' = Open \cup {w} /\ Closed' = Closed
  <2>1. {stack[i].block : i \in DOMAIN stack} = Open
    BY DEF InOrder
  <2>2. Open' = Open \cup {w}
    <3>1. Open' = {stack[i].block : i \in DOMAIN stack} \cup {w}
      BY DiscoverFacts
    <3> QED BY <2>1, <3>1
  <2>3. Closed' = Closed
    BY DEF Closed
  <2> QED BY <2>2, <2>3
<1>3. /\ counter \in Nat /\ index \in [B -> Int]
      /\ \A a \in Held : index[a] \in Nat /\ index[a] < counter
      /\ \A a \in B : index[a] # Unset <=> a \in Held \cup Closed
      /\ Open \subseteq Held /\ Held \subseteq B /\ Held \cap Closed = {}
  BY NumberFacts
<1>4. \A b \in B : index[b] < counter /\ (index[b] = Unset \/ index[b] >= 0)
  BY DEF Numbers
<1>5. \A b \in B : index'[b] < counter' /\ (index'[b] = Unset \/ index'[b] >= 0)
  <2> SUFFICES ASSUME NEW b \in B PROVE index'[b] < counter' /\ (index'[b] = Unset \/ index'[b] >= 0)
    OBVIOUS
  <2>1. CASE b = w
    BY <1>1, <1>3, <2>1
  <2>2. CASE b # w
    BY <1>1, <1>3, <1>4, <2>2
  <2> QED BY <2>1, <2>2
<1>6. counter # Unset
  BY <1>3 DEF Unset
<1>7. \A b \in B : index'[b] # Unset <=> b = w \/ index[b] # Unset
  <2>1. index'[w] = counter /\ \A b \in B : b # w => index'[b] = index[b]
    BY <1>1
  <2> QED BY <1>6, <2>1
<1>8. \A b \in B : index'[b] # Unset <=> b \in Held' \cup Closed'
  <2>1. Held' = Held \cup {w} /\ Closed' = Closed
    BY <1>1, <1>2
  <2> QED BY <1>3, <1>7, <2>1
<1>9. Held' \cap Closed' = {} /\ Open' \subseteq Held'
  <2>1. Held' = Held \cup {w} /\ w \notin Closed
    BY <1>1
  <2>2. Held' \cap Closed' = {}
    BY <1>2, <1>3, <2>1
  <2>3. Open' \subseteq Held'
    BY <1>2, <1>3, <2>1
  <2> QED BY <2>2, <2>3
<1>10. \A b \in Held : index'[b] = index[b] /\ index'[b] < counter
  BY <1>1, <1>3
<1>11. \A i, j \in DOMAIN tarjan' : i < j => index'[tarjan'[i]] < index'[tarjan'[j]]
  <2> SUFFICES ASSUME NEW i \in DOMAIN tarjan', NEW j \in DOMAIN tarjan', i < j
               PROVE  index'[tarjan'[i]] < index'[tarjan'[j]]
    OBVIOUS
  <2>1. /\ DOMAIN tarjan = 1 .. Len(tarjan) /\ Len(tarjan) \in Nat /\ DOMAIN tarjan' = 1 .. Len(tarjan) + 1
        /\ \A k \in DOMAIN tarjan : tarjan[k] \in Held
    BY <1>1, StackSets, LenProperties
  <2>2. i \in DOMAIN tarjan /\ tarjan'[i] = tarjan[i] /\ tarjan[i] \in Held
    BY <1>1, <2>1
  <2>3. CASE j = Len(tarjan) + 1
    BY <1>1, <1>10, <2>2, <2>3
  <2>4. CASE j # Len(tarjan) + 1
    <3>0. j \in 1 .. Len(tarjan)
      BY <2>1, <2>4
    <3>1. j \in DOMAIN tarjan /\ tarjan'[j] = tarjan[j] /\ tarjan[j] \in Held
      BY <1>1, <2>1, <3>0
    <3>2. index[tarjan[i]] < index[tarjan[j]]
      BY <2>2, <3>1 DEF Numbers
    <3> QED BY <1>10, <2>2, <3>1, <3>2
  <2> QED BY <2>3, <2>4
<1>12. \A i, j \in DOMAIN work' : i < j => index'[work'[i].block] < index'[work'[j].block]
  <2> SUFFICES ASSUME NEW i \in DOMAIN work', NEW j \in DOMAIN work', i < j
               PROVE  index'[work'[i].block] < index'[work'[j].block]
    OBVIOUS
  <2>1. DOMAIN stack = 1 .. Len(stack) /\ Len(stack) \in Nat /\ DOMAIN work' = 1 .. Len(stack) + 1
    BY <1>1, LenProperties
  <2>2. \A k \in DOMAIN stack : stack[k].block \in Held
    <3>1. \A k \in DOMAIN stack : stack[k].block \in Open
      BY DEF InOrder
    <3> QED BY <1>3, <3>1
  <2>5. i \in 1 .. Len(stack)
    BY <2>1
  <2>6. i \in DOMAIN stack /\ work'[i] = stack[i] /\ stack[i].block \in Held
    BY <1>1, <2>1, <2>2, <2>5
  <2>3. CASE j = Len(stack) + 1
    <3>1. work'[j].block = w
      BY <1>1, <2>3
    <3> QED BY <1>1, <1>10, <2>6, <3>1
  <2>4. CASE j # Len(stack) + 1
    <3>0. j \in 1 .. Len(stack)
      BY <2>1, <2>4
    <3>1. j \in DOMAIN stack /\ work'[j] = stack[j] /\ stack[j].block \in Held
      BY <1>1, <2>1, <2>2, <3>0
    <3>2. index[stack[i].block] < index[stack[j].block]
      BY <2>6, <3>1 DEF InOrder
    <3> QED BY <1>10, <2>6, <3>1, <3>2
  <2> QED BY <2>3, <2>4
<1>13. \A b \in B : index[b] # Unset => index'[b] # Unset
  BY <1>7
<1> QED BY <1>5, <1>8, <1>9, <1>11, <1>12, <1>13

LEMMA NumbersInit == ReachInit => Numbers
BY DEF ReachInit, Numbers

LEMMA NumbersStep == ReachTypeOK /\ Numbers /\ [ReachNext]_reachVars => Numbers'
<1> SUFFICES ASSUME ReachTypeOK, Numbers, [ReachNext]_reachVars PROVE Numbers'
  OBVIOUS
<1>1. ASSUME NEW g \in FlowGraphs, CallReach(g) PROVE Numbers'
  <2>1. /\ start' = 0 /\ work' = <<>> /\ counter' = 0 /\ tarjan' = <<>> /\ sccMembers' = <<>>
        /\ succs' = g /\ index' = [b \in DOMAIN g |-> Unset]
    BY <1>1 DEF CallReach, ReachTypeOK
  <2>2. Held' = {} /\ Open' = {} /\ Closed' = {}
    BY <2>1 DEF Held, Open, Closed
  <2>3. \A b \in B' : index'[b] = Unset /\ index'[b] < counter'
    BY <2>1 DEF B, Unset
  <2>4. \A b \in B' : ~(b < start')
    <3>1. DOMAIN g \subseteq Nat
      BY DEF FlowGraphs
    <3> QED BY <2>1, <3>1 DEF B
  <2>5. DOMAIN tarjan' = {} /\ DOMAIN work' = {}
    BY <2>1
  <2> QED BY <2>2, <2>3, <2>4, <2>5 DEF Numbers
<1>2. CASE BeginSearch
  <2>1. /\ phase = "search" /\ succs' = succs /\ start \in B /\ start' = start + 1
        /\ sccMembers' = sccMembers /\ B' = B
    BY <1>2 DEF BeginSearch, B
  <2>2. \A b \in B : b < start' => b < start \/ b = start
    <3>1. B \subseteq Nat
      BY <2>1, NumberFacts DEF FlowGraphs, B
    <3> QED BY <2>1, <3>1
  <2>3. \A b \in B : b < start => index[b] # Unset
    BY <2>1 DEF Numbers
  <2>4. CASE index[start] = Unset
    <3> DEFINE s == <<>>
    <3>1. Discover(start, s) /\ s \in Seq([block : B, seen : Nat]) /\ Open = {}
      BY <1>2, <2>4, BeginSearchFacts
    <3>2. InOrder(s)
      BY <3>1 DEF InOrder
    <3> HIDE DEF s
    <3>3. /\ \A b \in B : index'[b] < counter' /\ (index'[b] = Unset \/ index'[b] >= 0)
          /\ \A b \in B : index'[b] # Unset <=> b \in Held' \cup Closed'
          /\ \A b \in B : index[b] # Unset => index'[b] # Unset
          /\ Held' \cap Closed' = {} /\ Open' \subseteq Held'
          /\ \A i, j \in DOMAIN tarjan' : i < j => index'[tarjan'[i]] < index'[tarjan'[j]]
          /\ \A i, j \in DOMAIN work' : i < j => index'[work'[i].block] < index'[work'[j].block]
      BY <2>1, <2>4, <3>1, <3>2, DiscoverNumbers
    <3>4. index'[start] # Unset
      <4>1. index'[start] = counter /\ counter \in Nat
        BY <2>1, <2>4, <3>1, DiscoverFacts, NumberFacts
      <4> QED BY <4>1 DEF Unset
    <3>5. \A b \in B : b < start' => index'[b] # Unset
      BY <2>2, <2>3, <3>3, <3>4
    <3> QED BY <2>1, <3>3, <3>5 DEF Numbers
  <2>5. CASE index[start] # Unset
    <3>1. UNCHANGED <<index, low, counter, tarjan, work>>
      BY <1>2, <2>5 DEF BeginSearch
    <3>2. \A b \in B : b < start' => index[b] # Unset
      BY <2>2, <2>3, <2>5
    <3>3. Held' = Held /\ Open' = Open /\ Closed' = Closed
      BY <2>1, <3>1 DEF Held, Open, Closed
    <3> QED BY <2>1, <3>1, <3>2, <3>3 DEF Numbers
  <2> QED BY <2>4, <2>5
<1>3. CASE See
  <2>1. PICK w \in B :
          /\ phase = "search" /\ work # <<>> /\ succs' = succs /\ start' = start /\ sccMembers' = sccMembers
          /\ \/ index[w] = Unset /\ Discover(w, Advanced)
             \/ work' = Advanced /\ Open' = Open /\ Held' = Held /\ UNCHANGED <<index, counter, tarjan>>
    BY <1>3, SeeFacts
  <2>2. B' = B /\ Closed' = Closed
    BY <2>1 DEF B, Closed
  <2>3. /\ Advanced \in Seq([block : B, seen : Nat]) /\ Len(Advanced) = Len(work)
        /\ \A i \in DOMAIN work : Advanced[i].block = work[i].block
    BY <2>1, AdvancedFacts
  <2>4. DOMAIN Advanced = DOMAIN work
    BY <2>3, StackSets, LenProperties
  <2>5. \A i, j \in DOMAIN Advanced : i < j => index[Advanced[i].block] < index[Advanced[j].block]
    BY <2>1, <2>3, <2>4 DEF Numbers
  <2>6. {Advanced[i].block : i \in DOMAIN Advanced} = Open
    BY <2>3, <2>4 DEF Open
  <2>7. CASE index[w] = Unset /\ Discover(w, Advanced)
    <3>0. InOrder(Advanced)
      BY <2>5, <2>6 DEF InOrder
    <3>1. /\ \A b \in B : index'[b] < counter' /\ (index'[b] = Unset \/ index'[b] >= 0)
          /\ \A b \in B : index'[b] # Unset <=> b \in Held' \cup Closed'
          /\ \A b \in B : index[b] # Unset => index'[b] # Unset
          /\ Held' \cap Closed' = {} /\ Open' \subseteq Held'
          /\ \A i, j \in DOMAIN tarjan' : i < j => index'[tarjan'[i]] < index'[tarjan'[j]]
          /\ \A i, j \in DOMAIN work' : i < j => index'[work'[i].block] < index'[work'[j].block]
      BY <2>1, <2>3, <2>7, <3>0, DiscoverNumbers
    <3>2. \A b \in B : b < start => index[b] # Unset
      BY <2>1 DEF Numbers
    <3> QED BY <2>1, <2>2, <3>1, <3>2 DEF Numbers
  <2>8. CASE work' = Advanced /\ Open' = Open /\ Held' = Held /\ UNCHANGED <<index, counter, tarjan>>
    <3>1. \A i, j \in DOMAIN work' : i < j => index'[work'[i].block] < index'[work'[j].block]
      BY <2>5, <2>8
    <3> QED BY <2>1, <2>2, <2>8, <3>1 DEF Numbers
  <2> QED BY <2>1, <2>7, <2>8
<1>4. CASE Retreat
  <2>1. /\ phase = "search" /\ work # <<>> /\ index' = index /\ counter' = counter
        /\ succs' = succs /\ start' = start
        /\ work' \in Seq([block : B, seen : Nat]) /\ Len(work') = Len(work) - 1
        /\ \A i \in 1 .. Len(work) - 1 : work'[i] = work[i]
        /\ Open' = Open \ {Node} /\ B' = B
    BY <1>4, RetreatFacts DEF B
  <2>2. /\ \A b \in B : index'[b] < counter' /\ (index'[b] = Unset \/ index'[b] >= 0)
        /\ \A b \in B : b < start' => index'[b] # Unset
    BY <2>1 DEF Numbers
  <2>3. \A i, j \in DOMAIN work' : i < j => index'[work'[i].block] < index'[work'[j].block]
    <3>1. DOMAIN work' = 1 .. Len(work) - 1 /\ DOMAIN work = 1 .. Len(work) /\ Len(work) \in Nat
      BY <2>1, StackSets, LenProperties
    <3>2. \A i \in DOMAIN work' : i \in DOMAIN work /\ work'[i] = work[i]
      BY <2>1, <3>1
    <3> QED BY <2>1, <3>2 DEF Numbers
  <2>4. /\ \A a \in B : index[a] # Unset <=> a \in Held \cup Closed
        /\ Open \subseteq Held /\ Held \subseteq B /\ Held \cap Closed = {}
        /\ \A a \in Held : index[a] \in Nat
        /\ Node \in Held /\ \A g \in Open : index[g] <= index[Node]
    BY <2>1, NumberFacts, NodeFacts
  <2>5. CASE tarjan' = tarjan /\ sccMembers' = sccMembers /\ Held' = Held
    <3>1. Closed' = Closed
      BY <2>5 DEF Closed
    <3>2. \A i, j \in DOMAIN tarjan' : i < j => index'[tarjan'[i]] < index'[tarjan'[j]]
      BY <2>1, <2>5 DEF Numbers
    <3> QED BY <2>1, <2>2, <2>3, <2>4, <2>5, <3>1, <3>2 DEF Numbers
  <2>6. CASE /\ tarjan' \in Seq(B) /\ Len(tarjan') \in Nat /\ Len(tarjan') <= Len(tarjan)
             /\ \A i \in 1 .. Len(tarjan') : tarjan'[i] = tarjan[i]
             /\ Held' = {b \in Held : index[b] < index[Node]}
             /\ sccMembers' = Append(sccMembers, {b \in Held : index[Node] <= index[b]})
    <3> DEFINE M == {b \in Held : index[Node] <= index[b]}
    <3>1. Closed' = Closed \cup M
      BY <2>1, <2>4, <2>6, ComponentFacts
    <3>2. \A b : b \in Held' \/ b \in M <=> b \in Held
      BY <2>4, <2>6
    <3>3. \A b : ~(b \in Held' /\ b \in M)
      BY <2>4, <2>6
    <3>4. \A g \in Open' : g \in Held'
      <4> SUFFICES ASSUME NEW g \in Open, g # Node PROVE index[g] < index[Node]
        BY <2>1, <2>4, <2>6
      <4>1. index[g] <= index[Node] /\ index[g] # index[Node]
        BY <2>1, <2>4, NumberFacts
      <4>2. index[g] \in Nat /\ index[Node] \in Nat
        BY <2>4
      <4> QED BY <4>1, <4>2
    <3> HIDE DEF M
    <3>5. \A b \in B : index'[b] # Unset <=> b \in Held' \cup Closed'
      BY <2>1, <2>4, <3>1, <3>2
    <3>6. Held' \cap Closed' = {} /\ Open' \subseteq Held'
      BY <2>4, <3>1, <3>2, <3>3, <3>4
    <3>7. \A i, j \in DOMAIN tarjan' : i < j => index'[tarjan'[i]] < index'[tarjan'[j]]
      <4>1. DOMAIN tarjan' = 1 .. Len(tarjan') /\ DOMAIN tarjan = 1 .. Len(tarjan) /\ Len(tarjan) \in Nat
        BY <2>6, StackSets, LenProperties
      <4>2. \A i \in DOMAIN tarjan' : i \in DOMAIN tarjan /\ tarjan'[i] = tarjan[i]
        BY <2>6, <4>1
      <4> QED BY <2>1, <4>2 DEF Numbers
    <3> QED BY <2>1, <2>2, <2>3, <3>5, <3>6, <3>7 DEF Numbers
  <2> QED BY <1>4, <2>5, <2>6, CompleteFacts
<1>5. CASE EndSearch
  BY <1>5 DEF EndSearch, Numbers
<1>6. CASE Union \/ EndUnion
  BY <1>6 DEF Union, EndUnion, Numbers
<1>7. CASE UNCHANGED reachVars
  BY <1>7 DEF reachVars, Numbers, Held, Open, Closed, B
<1> QED BY <1>1, <1>2, <1>3, <1>4, <1>5, <1>6, <1>7 DEF ReachNext, ReachStep

-----------------------------------------------------------------------------
(* What a step of the search does to the sets.                             *)

\* Block w comes on the stacks, alone or as a successor of the top block.
Grows(w) ==
  /\ phase = "search" /\ succs' = succs /\ index[w] = Unset
  /\ index'[w] = counter /\ low'[w] = counter
  /\ \A b \in B : b # w => index'[b] = index[b] /\ low'[b] = low[b]
  /\ Held' = Held \cup {w} /\ Open' = Open \cup {w}
  /\ \/ Open = {} /\ \A b, d \in B : ~Looked(b, d)'
     \/ \E v \in Open : /\ Goes(v, w) /\ \A g \in Open : index[g] <= index[v]
                        /\ \A b, d \in B : Looked(b, d)' => Looked(b, d) \/ (b = v /\ d = w)

\* The top block looks at w, which has a number.
Looks(w) ==
  /\ phase = "search" /\ work # <<>> /\ succs' = succs /\ index[w] # Unset /\ Goes(Node, w)
  /\ index' = index /\ Held' = Held /\ Open' = Open
  /\ low' = (IF w \in Held THEN [low EXCEPT ![Node] = Least(low[Node], index[w])] ELSE low)
  /\ \A b, d \in B : Looked(b, d)' => Looked(b, d) \/ (b = Node /\ d = w)

\* Nothing of it changes.
Stays ==
  /\ phase = "search" /\ succs' = succs /\ index' = index /\ low' = low
  /\ Held' = Held /\ Open' = Open /\ \A b, d \in B : Looked(b, d)' => Looked(b, d)

LEMMA SearchCases ==
  ASSUME ReachTypeOK, Numbers, [ReachNext]_reachVars, phase' = "search"
  PROVE  \/ Held' = {} /\ Open' = {}
         \/ Stays
         \/ \E w \in B : Grows(w) \/ Looks(w)
         \/ Retreat
<1>1. ASSUME NEW g \in FlowGraphs, CallReach(g) PROVE Held' = {} /\ Open' = {}
  BY <1>1 DEF CallReach, ReachTypeOK, Held, Open
<1>2. ASSUME UNCHANGED <<succs, index, low, tarjan, work>>, phase = "search" PROVE Stays
  <2>1. Held' = Held /\ Open' = Open
    BY <1>2 DEF Held, Open
  <2>2. \A b, d \in B : Looked(b, d)' => Looked(b, d)
    BY <1>2 DEF Looked
  <2> QED BY <1>2, <2>1, <2>2 DEF Stays
<1>3. CASE BeginSearch
  <2>1. phase = "search" /\ succs' = succs /\ start \in B
    BY <1>3 DEF BeginSearch, B
  <2>2. CASE index[start] = Unset
    <3> DEFINE s == <<>>
    <3>1. /\ Discover(start, s) /\ s \in Seq([block : B, seen : Nat]) /\ Open = {} /\ Open' = {start}
          /\ \A b, d \in B : ~Looked(b, d)'
      BY <1>3, <2>2, BeginSearchFacts
    <3> HIDE DEF s
    <3>2. /\ index'[start] = counter /\ low'[start] = counter
          /\ \A b \in B : b # start => index'[b] = index[b] /\ low'[b] = low[b]
          /\ Held' = Held \cup {start}
      BY <2>1, <2>2, <3>1, DiscoverFacts
    <3>3. Grows(start)
      BY <2>1, <2>2, <3>1, <3>2 DEF Grows
    <3> QED BY <2>1, <3>3
  <2>3. CASE index[start] # Unset
    BY <1>2, <1>3, <2>3 DEF BeginSearch
  <2> QED BY <2>2, <2>3
<1>4. CASE See
  <2>1. PICK w \in B :
          /\ phase = "search" /\ work # <<>> /\ Goes(Node, w) /\ succs' = succs
          /\ \A b, d \in B : Looked(b, d)' => Looked(b, d) \/ (b = Node /\ d = w)
          /\ \/ index[w] = Unset /\ Discover(w, Advanced) /\ Open' = Open \cup {w}
             \/ /\ index[w] # Unset /\ work' = Advanced /\ Open' = Open /\ Held' = Held
                /\ low' = (IF w \in Held THEN [low EXCEPT ![Node] = Least(low[Node], index[w])] ELSE low)
                /\ UNCHANGED <<index, counter, tarjan>>
    BY <1>4, SeeFacts
  <2>2. CASE index[w] = Unset /\ Discover(w, Advanced) /\ Open' = Open \cup {w}
    <3>1. Advanced \in Seq([block : B, seen : Nat]) /\ Node \in Open /\ \A g \in Open : index[g] <= index[Node]
      BY <2>1, AdvancedFacts, NodeFacts
    <3>2. /\ index'[w] = counter /\ low'[w] = counter
          /\ \A b \in B : b # w => index'[b] = index[b] /\ low'[b] = low[b]
          /\ Held' = Held \cup {w}
      BY <2>1, <2>2, <3>1, DiscoverFacts
    <3>3. Grows(w)
      BY <2>1, <2>2, <3>1, <3>2 DEF Grows
    <3> QED BY <3>3
  <2>3. CASE /\ index[w] # Unset /\ work' = Advanced /\ Open' = Open /\ Held' = Held
             /\ low' = (IF w \in Held THEN [low EXCEPT ![Node] = Least(low[Node], index[w])] ELSE low)
             /\ UNCHANGED <<index, counter, tarjan>>
    <3>1. Looks(w)
      BY <2>1, <2>3 DEF Looks
    <3> QED BY <3>1
  <2> QED BY <2>1, <2>2, <2>3
<1>5. CASE EndSearch \/ Union \/ EndUnion
  BY <1>5 DEF EndSearch, Union, EndUnion
<1>6. CASE UNCHANGED reachVars
  BY <1>2, <1>6 DEF reachVars
<1> QED BY <1>1, <1>3, <1>4, <1>5, <1>6 DEF ReachNext, ReachStep

\* What Grows, Looks and Retreat have in common with the state before.
LEMMA GrowsFacts ==
  ASSUME ReachTypeOK, Numbers, NEW w \in B, Grows(w)
  PROVE  /\ w \notin Held /\ w \notin Closed /\ w \notin Open /\ index'[w] \in Nat
         /\ \A a \in Held : index'[a] = index[a] /\ index[a] \in Nat /\ index[a] < index'[w]
         /\ \A a \in B : index[a] # Unset => index'[a] # Unset
<1>1. phase = "search" /\ index[w] = Unset /\ index'[w] = counter /\ \A b \in B : b # w => index'[b] = index[b]
  BY DEF Grows
<1>2. /\ counter \in Nat
      /\ \A a \in Held : index[a] \in Nat /\ index[a] < counter
      /\ \A a \in B : index[a] # Unset <=> a \in Held \cup Closed
      /\ Open \subseteq Held /\ Held \subseteq B
  BY <1>1, NumberFacts
<1>3. w \notin Held /\ w \notin Closed /\ w \notin Open
  BY <1>1, <1>2
<1>4. index'[w] \in Nat /\ index'[w] # Unset
  BY <1>1, <1>2 DEF Unset
<1> QED BY <1>1, <1>2, <1>3, <1>4

LEMMA RetreatSets ==
  ASSUME ReachTypeOK, Numbers, Retreat
  PROVE  /\ phase = "search" /\ index' = index /\ succs' = succs
         /\ Open' = Open \ {Node} /\ Node \in Open /\ Open \subseteq Held /\ Held \subseteq B /\ Held' \subseteq Held
         /\ \A a \in Held : index[a] \in Nat /\ low[a] \in Nat /\ low'[a] \in Nat /\ low'[a] <= low[a]
         /\ \A a, b \in Held : index[a] = index[b] => a = b
         /\ \A g \in Open : g # Node => index[g] < index[Node]
         /\ \A b, d \in B : Looked(b, d)' => Looked(b, d)
         /\ \A d \in B : Goes(Node, d) => Looked(Node, d)
         /\ \/ low[Node] # index[Node] /\ Held' = Held
            \/ low[Node] = index[Node] /\ \A b : b \in Held' <=> b \in Held /\ index[b] < index[Node]
         /\ \A g \in Open' :
              \/ low'[g] = low[g] /\ ~\A h \in Open' : index[h] <= index[g]
              \/ low'[g] = Least(low[g], low[Node]) /\ \A h \in Open' : index[h] <= index[g]
<1>1. /\ phase = "search" /\ work # <<>> /\ index' = index /\ succs' = succs
      /\ Open' = Open \ {Node}
      /\ \A b, d \in B : Looked(b, d)' => Looked(b, d)
      /\ \A d \in B : Goes(Node, d) => Looked(Node, d)
      /\ \/ Open' = {} /\ low' = low
         \/ \E p \in Open \ {Node} :
              /\ \A g \in Open \ {Node} : index[g] <= index[p]
              /\ low' = [low EXCEPT ![p] = Least(low[p], low[Node])]
      /\ low' \in [B -> Nat] /\ \A b \in B : low'[b] <= low[b]
  BY RetreatFacts
<1>2. /\ low \in [B -> Nat]
      /\ \A a \in Held : index[a] \in Nat
      /\ \A a, b \in Held : index[a] = index[b] => a = b
      /\ Open \subseteq Held /\ Held \subseteq B
  BY <1>1, NumberFacts
<1>3. Node \in Open /\ \A g \in Open : index[g] <= index[Node]
  BY <1>1, NodeFacts
<1>4. \A g \in Open : g # Node => index[g] < index[Node]
  <2> SUFFICES ASSUME NEW g \in Open, g # Node PROVE index[g] < index[Node]
    OBVIOUS
  <2>1. index[g] # index[Node] /\ index[g] \in Nat /\ index[Node] \in Nat /\ index[g] <= index[Node]
    BY <1>2, <1>3
  <2> QED BY <2>1
<1>5. \A a \in Held : index[a] \in Nat /\ low[a] \in Nat /\ low'[a] \in Nat /\ low'[a] <= low[a]
  BY <1>1, <1>2
<1>6. /\ Held' \subseteq Held
      /\ \/ low[Node] # index[Node] /\ Held' = Held
         \/ low[Node] = index[Node] /\ \A b : b \in Held' <=> b \in Held /\ index[b] < index[Node]
  BY CompleteFacts
<1>7. ASSUME NEW g \in Open'
      PROVE  \/ low'[g] = low[g] /\ ~\A h \in Open' : index[h] <= index[g]
             \/ low'[g] = Least(low[g], low[Node]) /\ \A h \in Open' : index[h] <= index[g]
  <2>1. PICK p \in Open' :
          /\ \A h \in Open' : index[h] <= index[p]
          /\ low' = [low EXCEPT ![p] = Least(low[p], low[Node])]
    BY <1>1, <1>7
  <2>2. g \in B /\ p \in B /\ g \in Held /\ p \in Held
    BY <1>1, <1>2
  <2>3. CASE g = p
    BY <1>2, <2>1, <2>2, <2>3
  <2>4. CASE g # p
    <3>1. low'[g] = low[g]
      BY <1>2, <2>1, <2>2, <2>4
    <3>2. index[g] <= index[p] /\ index[g] # index[p] /\ index[g] \in Nat /\ index[p] \in Nat
      BY <1>2, <2>1, <2>2, <2>4
    <3>3. ~(index[p] <= index[g])
      BY <3>2
    <3> QED BY <3>1, <3>3
  <2> QED BY <2>3, <2>4
<1> QED BY <1>1, <1>2, <1>3, <1>4, <1>5, <1>6, <1>7

-----------------------------------------------------------------------------
(* The rest of the invariant.                                              *)

LEMMA LookedAtStep == ReachTypeOK /\ Numbers /\ LookedAt /\ [ReachNext]_reachVars => LookedAt'
<1> SUFFICES ASSUME ReachTypeOK, Numbers, LookedAt, [ReachNext]_reachVars, phase' = "search" PROVE LookedAt'
  BY DEF LookedAt
<1>1. CASE Held' = {} /\ Open' = {}
  BY <1>1 DEF LookedAt
<1>2. ASSUME phase = "search", succs' = succs
      PROVE  /\ B' = B /\ \A b, d : Goes(b, d)' <=> Goes(b, d)
             /\ \A b, d \in B : Looked(b, d) => b \in Open /\ index[d] # Unset
             /\ \A b \in Held \ Open, d \in B : Goes(b, d) => index[d] # Unset
             /\ Open \subseteq Held /\ Held \subseteq B
  <2>1. \A b, d : Looked(b, d) => b \in Open
    BY DEF Looked, Open
  <2>2. Open \subseteq Held /\ Held \subseteq B
    BY <1>2, NumberFacts
  <2> QED BY <1>2, <2>1, <2>2, ReachFixed DEF LookedAt
<1>3. CASE Stays
  BY <1>2, <1>3 DEF Stays, LookedAt
<1>4. ASSUME NEW w \in B, Grows(w) PROVE LookedAt'
  <2>1. /\ phase = "search" /\ succs' = succs
        /\ Held' = Held \cup {w} /\ Open' = Open \cup {w}
        /\ \A b, d \in B : Looked(b, d)' => Looked(b, d) \/ d = w
    BY <1>4 DEF Grows
  <2>2. /\ index'[w] \in Nat /\ \A a \in B : index[a] # Unset => index'[a] # Unset
    BY <1>4, GrowsFacts
  <2>3. index'[w] # Unset
    BY <2>2 DEF Unset
  <2>4. \A b, d \in B : Looked(b, d)' => index'[d] # Unset
    BY <1>2, <2>1, <2>2, <2>3
  <2>5. \A b \in Held' \ Open', d \in B : Goes(b, d) => index'[d] # Unset
    BY <1>2, <2>1, <2>2
  <2>6. Open' \subseteq B
    BY <1>2, <2>1
  <2> QED BY <1>2, <2>1, <2>4, <2>5, <2>6 DEF LookedAt
<1>5. ASSUME NEW w \in B, Looks(w) PROVE LookedAt'
  <2>1. /\ phase = "search" /\ succs' = succs /\ index' = index /\ Held' = Held /\ Open' = Open
        /\ index[w] # Unset /\ \A b, d \in B : Looked(b, d)' => Looked(b, d) \/ d = w
    BY <1>5 DEF Looks
  <2> QED BY <1>2, <2>1 DEF LookedAt
<1>6. CASE Retreat
  <2>1. /\ phase = "search" /\ index' = index /\ succs' = succs /\ Open' = Open \ {Node} /\ Held' \subseteq Held
        /\ \A b, d \in B : Looked(b, d)' => Looked(b, d)
        /\ \A d \in B : Goes(Node, d) => Looked(Node, d)
        /\ Node \in Open
    BY <1>6, RetreatSets
  <2>2. \A b, d \in B : Looked(b, d)' => index'[d] # Unset
    BY <1>2, <2>1
  <2>3. \A b \in Held' \ Open', d \in B : Goes(b, d) => index'[d] # Unset
    BY <1>2, <2>1
  <2>4. Open' \subseteq B
    BY <1>2, <2>1
  <2> QED BY <1>2, <2>1, <2>2, <2>3, <2>4 DEF LookedAt
<1> QED BY <1>1, <1>3, <1>4, <1>5, <1>6, SearchCases

LEMMA WaysStep == ReachTypeOK /\ Numbers /\ Ways /\ Lows /\ [ReachNext]_reachVars => Ways'
<1> SUFFICES ASSUME ReachTypeOK, Numbers, Ways, Lows, [ReachNext]_reachVars, phase' = "search" PROVE Ways'
  BY DEF Ways
<1>1. CASE Held' = {} /\ Open' = {}
  BY <1>1 DEF Ways
<1>2. ASSUME phase = "search", succs' = succs
      PROVE  /\ \A a, b : Gets(a, b)' <=> Gets(a, b)
             /\ \A a, b \in Held : index[a] <= index[b] => Gets(a, b)
             /\ \A a \in Held : \E g \in Open : index[g] <= index[a] /\ Gets(a, g)
             /\ Open \subseteq Held /\ Held \subseteq B /\ \A a \in Held : index[a] \in Nat
  BY <1>2, NumberFacts, ReachFixed DEF Ways
<1>3. CASE Stays
  BY <1>2, <1>3 DEF Stays, Ways
<1>4. ASSUME NEW w \in B, Grows(w) PROVE Ways'
  <2>1. /\ phase = "search" /\ succs' = succs
        /\ Held' = Held \cup {w} /\ Open' = Open \cup {w}
        /\ \/ Open = {}
           \/ \E v \in Open : Goes(v, w) /\ \A g \in Open : index[g] <= index[v]
    BY <1>4 DEF Grows
  <2>2. /\ w \notin Held /\ index'[w] \in Nat
        /\ \A a \in Held : index'[a] = index[a] /\ index[a] \in Nat /\ index[a] < index'[w]
    BY <1>4, GrowsFacts
  <2>3. \A a \in Held : Gets(a, w)
    <3> SUFFICES ASSUME NEW a \in Held PROVE Gets(a, w)
      OBVIOUS
    <3>1. PICK g \in Open : Gets(a, g)
      BY <1>2, <2>1
    <3>2. PICK v \in Open : Goes(v, w) /\ index[g] <= index[v]
      BY <2>1, <3>1
    <3>3. Gets(g, v) /\ Gets(v, w)
      BY <1>2, <2>1, <3>2, ReachPaths
    <3> QED BY <3>1, <3>3, ReachPaths
  <2>4. \A a, b \in Held' : index'[a] <= index'[b] => Gets(a, b)
    <3> SUFFICES ASSUME NEW a \in Held', NEW b \in Held', index'[a] <= index'[b] PROVE Gets(a, b)
      OBVIOUS
    <3>1. CASE b = w
      BY <2>1, <2>3, <3>1, ReachPaths
    <3>2. CASE b # w /\ a = w
      BY <2>1, <2>2, <3>2
    <3>3. CASE b # w /\ a # w
      BY <1>2, <2>1, <2>2, <3>3
    <3> QED BY <3>1, <3>2, <3>3
  <2>5. \A a \in Held' : \E g \in Open' : index'[g] <= index'[a] /\ Gets(a, g)
    <3> SUFFICES ASSUME NEW a \in Held' PROVE \E g \in Open' : index'[g] <= index'[a] /\ Gets(a, g)
      OBVIOUS
    <3>1. CASE a = w
      <4>1. w \in Open' /\ index'[w] <= index'[w] /\ Gets(w, w)
        BY <2>1, <2>2, ReachPaths
      <4> QED BY <3>1, <4>1
    <3>2. CASE a \in Held
      <4>1. PICK g \in Open : index[g] <= index[a] /\ Gets(a, g)
        BY <1>2, <2>1, <3>2
      <4>2. g \in Open' /\ index'[g] = index[g] /\ index'[a] = index[a]
        BY <1>2, <2>1, <2>2, <3>2
      <4> QED BY <4>1, <4>2
    <3> QED BY <2>1, <3>1, <3>2
  <2> QED BY <1>2, <2>1, <2>4, <2>5 DEF Ways
<1>5. ASSUME NEW w \in B, Looks(w) PROVE Ways'
  <2>1. phase = "search" /\ succs' = succs /\ index' = index /\ Held' = Held /\ Open' = Open
    BY <1>5 DEF Looks
  <2> QED BY <1>2, <2>1 DEF Ways
<1>6. CASE Retreat
  <2>1. /\ phase = "search" /\ index' = index /\ succs' = succs
        /\ Open' = Open \ {Node} /\ Node \in Open /\ Open \subseteq Held /\ Held' \subseteq Held
        /\ \A a \in Held : index[a] \in Nat /\ low[a] \in Nat
        /\ \/ low[Node] # index[Node] /\ Held' = Held
           \/ low[Node] = index[Node] /\ \A b : b \in Held' <=> b \in Held /\ index[b] < index[Node]
    BY <1>6, RetreatSets
  <2>2. \A a, b \in Held' : index'[a] <= index'[b] => Gets(a, b)
    BY <1>2, <2>1
  <2>3. \A a \in Held' : \E g \in Open' : index'[g] <= index'[a] /\ Gets(a, g)
    <3> SUFFICES ASSUME NEW a \in Held' PROVE \E g \in Open' : index[g] <= index[a] /\ Gets(a, g)
      BY <2>1
    <3>1. PICK g \in Open : index[g] <= index[a] /\ Gets(a, g)
      BY <1>2, <2>1
    <3>2. index[g] \in Nat /\ index[a] \in Nat /\ index[Node] \in Nat /\ low[Node] \in Nat
      BY <2>1
    <3>3. CASE g # Node
      BY <2>1, <3>1, <3>3
    <3>4. CASE g = Node
      <4>1. low[Node] # index[Node] /\ Held' = Held
        BY <2>1, <3>1, <3>2, <3>4
      <4>2. PICK u \in Held : index[u] = low[Node] /\ low[Node] <= index[Node] /\ Gets(Node, u)
        BY <2>1 DEF Lows
      <4>3. PICK h \in Open : index[h] <= index[u] /\ Gets(u, h)
        BY <1>2, <2>1
      <4>4. index[h] < index[Node] /\ index[h] <= index[a]
        <5>1. index[h] \in Nat
          BY <2>1
        <5> QED BY <3>1, <3>2, <3>4, <4>1, <4>2, <4>3, <5>1
      <4>5. h # Node
        BY <3>2, <4>4
      <4>6. Gets(a, h)
        BY <3>1, <3>4, <4>2, <4>3, ReachPaths
      <4> QED BY <2>1, <4>4, <4>5, <4>6
    <3> QED BY <3>3, <3>4
  <2> QED BY <1>2, <2>1, <2>2, <2>3 DEF Ways
<1> QED BY <1>1, <1>3, <1>4, <1>5, <1>6, SearchCases

LEMMA LowsStep == ReachTypeOK /\ Numbers /\ LookedAt /\ Ways /\ Lows /\ [ReachNext]_reachVars => Lows'
<1> SUFFICES ASSUME ReachTypeOK, Numbers, LookedAt, Ways, Lows, [ReachNext]_reachVars, phase' = "search"
             PROVE  Lows'
  BY DEF Lows
<1>1. CASE Held' = {} /\ Open' = {}
  BY <1>1 DEF Lows
<1>2. ASSUME phase = "search", succs' = succs
      PROVE  /\ \A a, b : Gets(a, b)' <=> Gets(a, b)
             /\ \A a, b : Goes(a, b)' <=> Goes(a, b)
             /\ B' = B /\ index \in [B -> Int] /\ low \in [B -> Nat]
             /\ Open \subseteq Held /\ Held \subseteq B /\ \A a \in Held : index[a] \in Nat
             /\ \A a \in B : index[a] # Unset <=> a \in Held \cup Closed
  BY <1>2, NumberFacts, ReachFixed
<1>3. ASSUME phase = "search"
      PROVE  /\ \A g \in Open : low[g] <= index[g] /\ \E u \in Held : index[u] = low[g] /\ Gets(g, u)
             /\ \A g \in Open, d \in Held : Looked(g, d) => low[g] <= index[d]
             /\ \A g \in Open, b \in Held \ Open, d \in Held :
                  /\ Goes(b, d) /\ index[g] <= index[b]
                  /\ \A h \in Open : index[h] <= index[b] => index[h] <= index[g]
                  => low[g] <= index[d]
             /\ \A b \in Open, d \in B : Looked(b, d) => index[d] # Unset
             /\ \A b \in Held \ Open, d \in B : Goes(b, d) => index[d] # Unset
             /\ \A b, d : Looked(b, d) => b \in Open
             /\ \A a, b \in Held : index[a] <= index[b] => Gets(a, b)
  BY <1>3 DEF Lows, LookedAt, Looked, Open, Ways
<1>4. CASE Stays
  <2>1. /\ phase = "search" /\ succs' = succs /\ index' = index /\ low' = low
        /\ Held' = Held /\ Open' = Open /\ \A b, d \in B : Looked(b, d)' => Looked(b, d)
    BY <1>4 DEF Stays
  <2>2. \A g \in Open, d \in Held : Looked(g, d)' => Looked(g, d)
    BY <1>2, <2>1
  <2> QED BY <1>2, <1>3, <2>1, <2>2 DEF Lows
<1>5. ASSUME NEW w \in B, Grows(w) PROVE Lows'
  <2>1. /\ phase = "search" /\ succs' = succs /\ index[w] = Unset
        /\ index'[w] = counter /\ low'[w] = counter
        /\ \A b \in B : b # w => index'[b] = index[b] /\ low'[b] = low[b]
        /\ Held' = Held \cup {w} /\ Open' = Open \cup {w}
        /\ \/ \A b, d \in B : ~Looked(b, d)'
           \/ \E v \in Open : \A b, d \in B : Looked(b, d)' => Looked(b, d) \/ (b = v /\ d = w)
    BY <1>5 DEF Grows
  <2>2. /\ w \notin Held /\ w \notin Closed /\ w \notin Open /\ index'[w] \in Nat
        /\ \A a \in Held : index'[a] = index[a] /\ index[a] \in Nat /\ index[a] < index'[w]
    BY <1>5, GrowsFacts
  <2>3. \A g \in Open : low'[g] = low[g] /\ low[g] \in Nat /\ low[g] <= index[g] /\ g \in Held /\ g \in B
    BY <1>2, <1>3, <2>1, <2>2
  <2>4. ASSUME NEW g \in Open'
        PROVE  low'[g] <= index'[g] /\ \E u \in Held' : index'[u] = low'[g] /\ Gets(g, u)
    <3>1. CASE g = w
      <4>1. low'[g] = index'[g] /\ low'[g] <= index'[g] /\ w \in Held' /\ Gets(w, w)
        BY <2>1, <2>2, <3>1, ReachPaths
      <4> QED BY <3>1, <4>1
    <3>2. CASE g \in Open
      <4>1. PICK u \in Held : index[u] = low[g] /\ Gets(g, u)
        BY <1>3, <2>1, <3>2
      <4>2. index'[u] = low'[g] /\ u \in Held'
        BY <2>1, <2>2, <2>3, <3>2, <4>1
      <4> QED BY <2>2, <2>3, <3>2, <4>1, <4>2
    <3> QED BY <2>1, <3>1, <3>2
  <2>5. ASSUME NEW g \in Open', NEW d \in Held', Looked(g, d)' PROVE low'[g] <= index'[d]
    <3>1. g \in B /\ d \in B
      BY <1>2, <2>1
    <3>2. CASE Looked(g, d)
      <4>1. g \in Open /\ index[d] # Unset
        BY <1>3, <2>1, <3>1, <3>2
      <4>2. d \in Held
        BY <2>1, <4>1
      <4> QED BY <1>3, <2>1, <2>2, <2>3, <3>2, <4>1, <4>2
    <3>3. CASE ~Looked(g, d)
      <4>1. g \in Open /\ d = w
        BY <2>1, <2>5, <3>1, <3>3
      <4>2. low[g] <= index[g] /\ index[g] < index'[w] /\ low'[g] = low[g] /\ low[g] \in Nat /\ index[g] \in Nat
        BY <2>2, <2>3, <4>1
      <4> QED BY <2>2, <4>1, <4>2
    <3> QED BY <3>2, <3>3
  <2>6. ASSUME NEW g \in Open', NEW b \in Held' \ Open', NEW d \in Held', Goes(b, d), index'[g] <= index'[b],
               \A h \in Open' : index'[h] <= index'[b] => index'[h] <= index'[g]
        PROVE  low'[g] <= index'[d]
    <3>1. b \in Held \ Open /\ d \in B
      BY <1>2, <2>1, <2>6
    <3>2. d \in Held
      <4>1. index[d] # Unset
        BY <1>3, <2>1, <2>6, <3>1
      <4> QED BY <2>1, <4>1
    <3>3. g \in Open
      <4>1. index'[b] = index[b] /\ index[b] \in Nat /\ index[b] < index'[w] /\ index'[w] \in Nat
        BY <2>2, <3>1
      <4>2. g # w
        BY <2>6, <4>1
      <4> QED BY <2>1, <4>2
    <3>4. \A h \in Open : index[h] <= index[b] => index[h] <= index[g]
      BY <2>1, <2>2, <2>3, <2>6, <3>1, <3>3
    <3>5. index[g] <= index[b]
      BY <2>2, <2>3, <2>6, <3>1, <3>3
    <3>6. low[g] <= index[d]
      BY <1>3, <2>1, <2>6, <3>1, <3>2, <3>3, <3>4, <3>5
    <3> QED BY <2>2, <2>3, <3>2, <3>3, <3>6
  <2> QED BY <1>2, <2>1, <2>4, <2>5, <2>6 DEF Lows
<1>6. ASSUME NEW w \in B, Looks(w) PROVE Lows'
  <2>1. /\ phase = "search" /\ work # <<>> /\ succs' = succs /\ index[w] # Unset /\ Goes(Node, w)
        /\ index' = index /\ Held' = Held /\ Open' = Open
        /\ low' = (IF w \in Held THEN [low EXCEPT ![Node] = Least(low[Node], index[w])] ELSE low)
        /\ \A b, d \in B : Looked(b, d)' => Looked(b, d) \/ (b = Node /\ d = w)
    BY <1>6 DEF Looks
  <2>2. Node \in Open /\ Node \in B /\ Node \in Held
    BY <2>1, NodeFacts
  <2>3. \A g \in B : low'[g] = IF g = Node /\ w \in Held THEN Least(low[Node], index[w]) ELSE low[g]
    BY <1>2, <2>1
  <2>4. \A g \in Open : low[g] \in Nat /\ g \in Held /\ g \in B /\ index[g] \in Nat /\ low[g] <= index[g]
    BY <1>2, <1>3, <2>1
  <2>5. w \in Held => index[w] \in Nat
    BY <1>2, <2>1
  <2>6. ASSUME w \in Held
        PROVE  /\ Least(low[Node], index[w]) <= low[Node] /\ Least(low[Node], index[w]) <= index[w]
               /\ Least(low[Node], index[w]) \in Nat
               /\ Least(low[Node], index[w]) = low[Node] \/ Least(low[Node], index[w]) = index[w]
    <3>1. low[Node] \in Nat /\ index[w] \in Nat
      BY <2>2, <2>4, <2>5, <2>6
    <3> QED BY <3>1 DEF Least
  <2>7. \A g \in Open : low'[g] <= low[g] /\ low'[g] \in Nat
    <3> SUFFICES ASSUME NEW g \in Open PROVE low'[g] <= low[g] /\ low'[g] \in Nat
      OBVIOUS
    <3>1. CASE g = Node /\ w \in Held
      BY <2>3, <2>4, <2>6, <3>1
    <3>2. CASE ~(g = Node /\ w \in Held)
      BY <2>3, <2>4, <3>2
    <3> QED BY <3>1, <3>2
  <2>8. ASSUME NEW g \in Open PROVE low'[g] <= index[g] /\ \E u \in Held : index[u] = low'[g] /\ Gets(g, u)
    <3>1. low'[g] <= index[g]
      BY <2>4, <2>7
    <3>2. CASE low'[g] = low[g]
      BY <1>3, <2>1, <3>1, <3>2
    <3>3. CASE low'[g] # low[g]
      <4>1. g = Node /\ w \in Held /\ low'[g] = index[w]
        BY <2>3, <2>4, <2>6, <3>3
      <4>2. Gets(g, w)
        BY <2>1, <2>4, <4>1, ReachPaths
      <4> QED BY <3>1, <4>1, <4>2
    <3> QED BY <3>2, <3>3
  <2>9. ASSUME NEW g \in Open, NEW d \in Held, Looked(g, d)' PROVE low'[g] <= index[d]
    <3>1. g \in B /\ d \in B /\ index[d] \in Nat
      BY <1>2, <2>1
    <3>2. CASE Looked(g, d)
      BY <1>3, <2>1, <2>4, <2>7, <3>1, <3>2
    <3>3. CASE g = Node /\ d = w
      BY <2>3, <2>4, <2>6, <3>3
    <3> QED BY <2>1, <2>9, <3>1, <3>2, <3>3
  <2>10. ASSUME NEW g \in Open, NEW b \in Held \ Open, NEW d \in Held, Goes(b, d), index[g] <= index[b],
                \A h \in Open : index[h] <= index[b] => index[h] <= index[g]
         PROVE  low'[g] <= index[d]
    <3>1. low[g] <= index[d]
      BY <1>3, <2>1, <2>10
    <3>2. index[d] \in Nat
      BY <1>2, <2>1
    <3> QED BY <2>4, <2>7, <3>1, <3>2
  <2> QED BY <1>2, <2>1, <2>8, <2>9, <2>10 DEF Lows
<1>7. CASE Retreat
  <2>1. /\ phase = "search" /\ index' = index /\ succs' = succs
        /\ Open' = Open \ {Node} /\ Node \in Open /\ Open \subseteq Held /\ Held \subseteq B /\ Held' \subseteq Held
        /\ \A a \in Held : index[a] \in Nat /\ low[a] \in Nat /\ low'[a] \in Nat /\ low'[a] <= low[a]
        /\ \A a, b \in Held : index[a] = index[b] => a = b
        /\ \A g \in Open : g # Node => index[g] < index[Node]
        /\ \A b, d \in B : Looked(b, d)' => Looked(b, d)
        /\ \A d \in B : Goes(Node, d) => Looked(Node, d)
        /\ \/ low[Node] # index[Node] /\ Held' = Held
           \/ low[Node] = index[Node] /\ \A b : b \in Held' <=> b \in Held /\ index[b] < index[Node]
        /\ \A g \in Open' :
             \/ low'[g] = low[g] /\ ~\A h \in Open' : index[h] <= index[g]
             \/ low'[g] = Least(low[g], low[Node]) /\ \A h \in Open' : index[h] <= index[g]
    BY <1>7, RetreatSets
  <2>2. \A g \in Open' :
          /\ g \in Open /\ g \in Held /\ g # Node /\ index[g] < index[Node] /\ index[g] \in Nat
          /\ low[g] \in Nat /\ low'[g] \in Nat /\ low'[g] <= low[g] /\ low[g] <= index[g]
    BY <1>3, <2>1
  <2>3. index[Node] \in Nat /\ low[Node] \in Nat /\ low[Node] <= index[Node]
    BY <1>3, <2>1
  <2>4. \A g \in Open' : low'[g] # low[g] => low'[g] = low[Node] /\ low[Node] < low[g]
    BY <2>1, <2>2, <2>3 DEF Least
  <2>5. ASSUME NEW g \in Open', \A h \in Open' : index[h] <= index[g] PROVE low'[g] <= low[Node]
    BY <2>1, <2>2, <2>3, <2>5 DEF Least
  <2>6. ASSUME NEW g \in Open' PROVE low'[g] <= index[g] /\ \E u \in Held' : index[u] = low'[g] /\ Gets(g, u)
    <3>1. low'[g] <= index[g]
      BY <2>2
    <3>2. CASE low'[g] = low[g]
      <4>1. PICK u \in Held : index[u] = low[g] /\ Gets(g, u)
        BY <1>3, <2>1, <2>2
      <4>2. index[u] < index[Node]
        BY <2>2, <2>3, <4>1
      <4>3. u \in Held'
        BY <2>1, <4>2
      <4> QED BY <3>1, <3>2, <4>1, <4>3
    <3>3. CASE low'[g] # low[g]
      <4>1. low'[g] = low[Node] /\ low[Node] < low[g]
        BY <2>4, <3>3
      <4>2. low[Node] # index[Node] /\ Held' = Held
        BY <2>1, <2>2, <2>3, <4>1
      <4>3. PICK u \in Held : index[u] = low[Node] /\ Gets(Node, u)
        BY <1>3, <2>1
      <4>4. Gets(g, Node)
        BY <1>3, <2>1, <2>2, <2>3
      <4>5. Gets(g, u)
        BY <4>3, <4>4, ReachPaths
      <4> QED BY <3>1, <4>1, <4>2, <4>3, <4>5
    <3> QED BY <3>2, <3>3
  <2>7. ASSUME NEW g \in Open', NEW d \in Held', Looked(g, d)' PROVE low'[g] <= index[d]
    <3>1. Looked(g, d) /\ d \in Held /\ index[d] \in Nat
      BY <2>1, <2>2, <2>7
    <3>2. low[g] <= index[d]
      BY <1>3, <2>1, <2>2, <3>1
    <3> QED BY <2>2, <3>1, <3>2
  <2>8. ASSUME NEW g \in Open', NEW b \in Held' \ Open', NEW d \in Held', Goes(b, d), index[g] <= index[b],
               \A h \in Open' : index[h] <= index[b] => index[h] <= index[g]
        PROVE  low'[g] <= index[d]
    <3>1. b \in Held /\ d \in Held /\ d \in B /\ index[b] \in Nat /\ index[d] \in Nat
      BY <2>1, <2>8
    <3>2. ASSUME index[Node] <= index[b], low[Node] <= index[d] PROVE low'[g] <= index[d]
      <4>1. \A h \in Open' : index[h] <= index[b]
        BY <2>2, <2>3, <3>1, <3>2
      <4>2. \A h \in Open' : index[h] <= index[g]
        BY <2>8, <4>1
      <4>3. low'[g] <= low[Node]
        BY <2>5, <4>2
      <4> QED BY <2>2, <2>3, <3>1, <3>2, <4>3
    <3>3. CASE b = Node
      <4>1. Looked(Node, d)
        BY <2>1, <2>8, <3>1, <3>3
      <4>2. low[Node] <= index[d]
        BY <1>3, <2>1, <3>1, <4>1
      <4>3. index[Node] <= index[b]
        BY <2>3, <3>3
      <4> QED BY <3>2, <4>2, <4>3
    <3>4. CASE b # Node /\ index[Node] <= index[b]
      <4>1. b \in Held \ Open
        BY <2>1, <2>8, <3>1, <3>4
      <4>2. \A h \in Open : index[h] <= index[b] => index[h] <= index[Node]
        BY <2>1, <2>3
      <4>3. low[Node] <= index[d]
        BY <1>3, <2>1, <2>8, <3>1, <3>4, <4>1, <4>2
      <4> QED BY <3>2, <3>4, <4>3
    <3>5. CASE b # Node /\ ~(index[Node] <= index[b])
      <4>1. b \in Held \ Open /\ g \in Open
        BY <2>1, <2>2, <2>8, <3>1, <3>5
      <4>2. \A h \in Open : index[h] <= index[b] => index[h] <= index[g]
        BY <2>1, <2>8, <3>5
      <4>3. low[g] <= index[d]
        BY <1>3, <2>1, <2>8, <3>1, <4>1, <4>2
      <4> QED BY <2>2, <3>1, <4>3
    <3> QED BY <3>3, <3>4, <3>5
  <2> QED BY <1>2, <2>1, <2>6, <2>7, <2>8 DEF Lows
<1> QED BY <1>1, <1>4, <1>5, <1>6, <1>7, SearchCases

\* With no open block there is no block on the stack.
LEMMA NoneOpen ==
  ASSUME phase = "search", Ways, work = <<>>
  PROVE  Held = {}
BY DEF Ways, Open

LEMMA FoundStep ==
  ReachTypeOK /\ Numbers /\ LookedAt /\ Ways /\ Lows /\ Found /\ [ReachNext]_reachVars => Found'
<1> SUFFICES ASSUME ReachTypeOK, Numbers, LookedAt, Ways, Lows, Found, [ReachNext]_reachVars PROVE Found'
  OBVIOUS
<1>1. ASSUME NEW g \in FlowGraphs, CallReach(g) PROVE Found'
  <2>1. sccMembers' = <<>> /\ phase' = "search"
    BY <1>1 DEF CallReach, ReachTypeOK
  <2>2. DOMAIN sccMembers' = {}
    BY <2>1
  <2> QED BY <2>1, <2>2 DEF Found
<1>2. ASSUME succs' = succs, sccMembers' = sccMembers, phase' \in {"union", "done"} => Closed = B PROVE Found'
  <2>1. /\ B' = B /\ Closed' = Closed
        /\ \A a, b : Goes(a, b)' <=> Goes(a, b)
        /\ \A a, b : Gets(a, b)' <=> Gets(a, b)
    BY <1>2, ReachFixed DEF Closed
  <2> QED BY <1>2, <2>1 DEF Found
<1>3. CASE BeginSearch \/ See
  BY <1>2, <1>3 DEF BeginSearch, See
<1>4. CASE EndSearch
  <2>1. phase = "search" /\ work = <<>> /\ start \notin DOMAIN succs /\ succs' = succs /\ sccMembers' = sccMembers
    BY <1>4 DEF EndSearch
  <2>2. Held = {}
    BY <2>1, NoneOpen
  <2>3. PICK n \in Nat : DOMAIN succs = 0 .. n - 1
    BY <2>1, NumberFacts DEF FlowGraphs
  <2>4. start \in Nat
    BY DEF ReachTypeOK
  <2>5. \A b \in B : b < start
    BY <2>1, <2>3, <2>4 DEF B
  <2>6. \A b \in B : index[b] # Unset
    BY <2>1, <2>5 DEF Numbers
  <2>7. Closed = B
    BY <2>1, <2>2, <2>6, NumberFacts
  <2> QED BY <1>2, <2>1, <2>7
<1>5. CASE Retreat
  <2>1. /\ phase = "search" /\ index' = index /\ succs' = succs /\ phase' = phase
        /\ Node \in Open /\ Open \subseteq Held /\ Held \subseteq B
        /\ \A a \in Held : index[a] \in Nat
        /\ \A g \in Open : g # Node => index[g] < index[Node]
        /\ \A d \in B : Goes(Node, d) => Looked(Node, d)
    BY <1>5, RetreatSets DEF Retreat
  <2>2. CASE sccMembers' = sccMembers
    BY <1>2, <2>1, <2>2
  <2>3. CASE low[Node] = index[Node] /\ sccMembers' = Append(sccMembers, {b \in Held : index[Node] <= index[b]})
    <3> DEFINE M == {b \in Held : index[Node] <= index[b]}
               m == Len(sccMembers) + 1
    <3>1. M \in SUBSET B
      BY <2>1
    <3>2. \A b : b \in M <=> b \in Held /\ index[Node] <= index[b]
      OBVIOUS
    <3>3. sccMembers' = Append(sccMembers, M)
      BY <2>3
    <3> HIDE DEF M
    <3>4. /\ Len(sccMembers) \in Nat /\ DOMAIN sccMembers = 1 .. Len(sccMembers)
          /\ DOMAIN sccMembers' = 1 .. Len(sccMembers) + 1
          /\ \A i \in DOMAIN sccMembers : sccMembers'[i] = sccMembers[i]
          /\ sccMembers'[Len(sccMembers) + 1] = M
      BY <2>1, <3>1, <3>3, ComponentFacts, StackSets
    <3>5. m \in Nat /\ DOMAIN sccMembers' = DOMAIN sccMembers \cup {m} /\ m \notin DOMAIN sccMembers
          /\ sccMembers'[m] = M
      BY <3>4
    <3>6. \A a, b \in M : Gets(a, b)
      <4> SUFFICES ASSUME NEW a \in M, NEW b \in M PROVE Gets(a, b)
        OBVIOUS
      <4>1. PICK g \in Open : Gets(a, g)
        BY <2>1, <3>2 DEF Ways
      <4>2. index[g] <= index[Node]
        BY <2>1
      <4>3. Gets(g, Node) /\ Gets(Node, b)
        BY <2>1, <3>2, <4>2 DEF Ways
      <4> QED BY <4>1, <4>3, ReachPaths
    <3>7. ASSUME NEW a \in M, NEW d \in B, Goes(a, d) PROVE d \in Closed \/ d \in M
      <4>1. a \in Held /\ index[Node] <= index[a]
        BY <3>2
      <4>2. CASE a = Node
        <5>1. Looked(Node, d) /\ index[d] # Unset
          BY <2>1, <3>7, <4>2 DEF LookedAt
        <5>2. d \in Held => low[Node] <= index[d]
          BY <2>1, <5>1 DEF Lows
        <5> QED BY <2>1, <2>3, <3>2, <5>1, <5>2, NumberFacts
      <4>3. CASE a # Node
        <5>1. a \notin Open
          BY <2>1, <4>1, <4>3
        <5>2. index[d] # Unset
          BY <2>1, <3>7, <4>1, <5>1 DEF LookedAt
        <5>3. \A h \in Open : index[h] <= index[a] => index[h] <= index[Node]
          BY <2>1
        <5>4. d \in Held => low[Node] <= index[d]
          BY <2>1, <3>7, <4>1, <5>1, <5>3 DEF Lows
        <5> QED BY <2>1, <2>3, <3>2, <5>2, <5>4, NumberFacts
      <4> QED BY <4>2, <4>3
    <3> HIDE DEF m
    <3>8. \A i \in DOMAIN sccMembers' : \A a, b \in sccMembers'[i] : Gets(a, b)
      BY <3>4, <3>5, <3>6 DEF Found
    <3>9. \A i \in DOMAIN sccMembers' : \A a \in sccMembers'[i], d \in B :
            Goes(a, d) => \E k \in 1 .. i : d \in sccMembers'[k]
      <4> SUFFICES ASSUME NEW i \in DOMAIN sccMembers', NEW a \in sccMembers'[i], NEW d \in B, Goes(a, d)
                   PROVE  \E k \in 1 .. i : d \in sccMembers'[k]
        OBVIOUS
      <4>1. CASE i \in DOMAIN sccMembers
        <5>1. PICK k \in 1 .. i : d \in sccMembers[k]
          BY <3>4, <4>1 DEF Found
        <5>2. k \in DOMAIN sccMembers
          BY <3>4, <4>1
        <5> QED BY <3>4, <5>1, <5>2
      <4>2. CASE i = m /\ d \in M
        <5>1. i \in 1 .. i
          BY <3>4, <4>2 DEF m
        <5> QED BY <3>5, <4>2, <5>1
      <4>3. CASE i = m /\ d \in Closed
        <5>1. PICK k \in DOMAIN sccMembers : d \in sccMembers[k]
          BY <4>3 DEF Closed
        <5>2. k \in 1 .. i
          BY <3>4, <4>3 DEF m
        <5> QED BY <3>4, <5>1, <5>2
      <4> QED BY <3>5, <3>7, <4>1, <4>2, <4>3
    <3>10. \A i, j \in DOMAIN sccMembers' : i # j => sccMembers'[i] \cap sccMembers'[j] = {}
      <4>1. M \cap Closed = {}
        BY <2>1, <3>2, NumberFacts
      <4>2. \A i \in DOMAIN sccMembers : sccMembers[i] \subseteq Closed
        BY DEF Closed
      <4> QED BY <3>4, <3>5, <4>1, <4>2 DEF Found
    <3>11. /\ B' = B /\ \A a, b : Goes(a, b)' <=> Goes(a, b)
           /\ \A a, b : Gets(a, b)' <=> Gets(a, b)
      BY <2>1, ReachFixed
    <3> QED BY <2>1, <3>8, <3>9, <3>10, <3>11 DEF Found
  <2> QED BY <1>5, <2>2, <2>3, CompleteFacts
<1>6. CASE Union \/ EndUnion
  <2>1. phase = "union" /\ succs' = succs /\ sccMembers' = sccMembers
    BY <1>6 DEF Union, EndUnion
  <2> QED BY <1>2, <2>1 DEF Found
<1>7. CASE UNCHANGED reachVars
  BY <1>2, <1>7 DEF reachVars, Found
<1> QED BY <1>1, <1>3, <1>4, <1>5, <1>6, <1>7 DEF ReachNext, ReachStep

LEMMA UnitedStep == ReachTypeOK /\ Found /\ United /\ [ReachNext]_reachVars => United'
<1> SUFFICES ASSUME ReachTypeOK, Found, United, [ReachNext]_reachVars PROVE United'
  OBVIOUS
<1>1. CASE sccReach' = <<>> /\ phase' # "done"
  <2>1. DOMAIN sccReach' = {}
    BY <1>1
  <2> QED BY <1>1, <2>1 DEF United
<1>2. CASE (\E g \in FlowGraphs : CallReach(g)) \/ BeginSearch \/ See \/ Retreat \/ EndSearch
  <2>1. sccReach = <<>> /\ sccReach' = sccReach /\ phase' # "done"
    BY <1>2 DEF CallReach, BeginSearch, See, Retreat, EndSearch, ReachTypeOK
  <2> QED BY <1>1, <2>1
<1>3. CASE Union
  <2>1. phase' = "union" /\ succs' = succs /\ sccMembers' = sccMembers
    BY <1>3 DEF Union
  <2>2. PICK R \in SUBSET B :
          /\ sccReach' = Append(sccReach, R)
          /\ \A a \in sccMembers[Len(sccReach) + 1] : R = {b \in B : Gets(a, b)}
    BY <1>3, UnionFacts
  <2>3. sccReach \in Seq(SUBSET B) /\ DOMAIN sccReach = 1 .. Len(sccReach) /\ Len(sccReach) \in Nat
    <3>1. sccReach \in Seq(SUBSET B)
      BY DEF ReachTypeOK
    <3> QED BY <3>1, LenProperties
  <2>4. /\ sccReach' \in Seq(SUBSET B) /\ Len(sccReach') = Len(sccReach) + 1
        /\ \A i \in 1 .. Len(sccReach) : sccReach'[i] = sccReach[i]
        /\ sccReach'[Len(sccReach) + 1] = R
    BY <2>2, <2>3, AppendProperties
  <2>5. DOMAIN sccReach' = 1 .. Len(sccReach) + 1
    BY <2>4, LenProperties
  <2>6. \A i \in DOMAIN sccReach' : \A a \in sccMembers[i] : sccReach'[i] = {b \in B : Gets(a, b)}
    <3> SUFFICES ASSUME NEW i \in DOMAIN sccReach', NEW a \in sccMembers[i] PROVE sccReach'[i] = {b \in B : Gets(a, b)}
      OBVIOUS
    <3>1. CASE i = Len(sccReach) + 1
      BY <2>2, <2>4, <3>1
    <3>2. CASE i \in 1 .. Len(sccReach)
      <4>1. sccReach[i] = {b \in B : Gets(a, b)}
        BY <2>3, <3>2 DEF United
      <4> QED BY <2>4, <3>2, <4>1
    <3> QED BY <2>3, <2>5, <3>1, <3>2
  <2>7. B' = B /\ \A a, b : Gets(a, b)' <=> Gets(a, b)
    BY <2>1, ReachFixed
  <2> QED BY <2>1, <2>6, <2>7 DEF United
<1>4. CASE EndUnion
  <2>1. succs' = succs /\ sccMembers' = sccMembers /\ sccReach' = sccReach
    BY <1>4 DEF EndUnion
  <2>2. B' = B /\ \A a, b : Gets(a, b)' <=> Gets(a, b)
    BY <2>1, ReachFixed
  <2>3. reach' = [a \in B |-> {b \in B : Gets(a, b)}]
    BY <1>4, EndUnionFacts
  <2> QED BY <2>1, <2>2, <2>3 DEF United
<1>5. CASE UNCHANGED reachVars
  <2>1. succs' = succs /\ sccMembers' = sccMembers /\ sccReach' = sccReach /\ phase' = phase /\ reach' = reach
    BY <1>5 DEF reachVars
  <2>2. B' = B /\ \A a, b : Gets(a, b)' <=> Gets(a, b)
    BY <2>1, ReachFixed
  <2> QED BY <2>1, <2>2 DEF United
<1> QED BY <1>2, <1>3, <1>4, <1>5 DEF ReachNext, ReachStep

-----------------------------------------------------------------------------
(* Theorems.                                                               *)

LEMMA ReachInvariance == ReachSpec => []ReachInv
<1>1. ReachInit => ReachInv
  <2> SUFFICES ASSUME ReachInit PROVE ReachInv
    OBVIOUS
  <2>1. phase = "idle" /\ sccMembers = <<>> /\ sccReach = <<>>
    BY DEF ReachInit
  <2>2. DOMAIN sccMembers = {} /\ DOMAIN sccReach = {}
    BY <2>1
  <2>3. Numbers /\ LookedAt /\ Ways /\ Lows /\ Found /\ United
    BY <2>1, <2>2 DEF Numbers, LookedAt, Ways, Lows, Found, United
  <2> QED BY <2>3, ReachTypeInit DEF ReachInv
<1>2. ReachInv /\ [ReachNext]_reachVars => ReachInv'
  BY ReachTypeStep, NumbersStep, LookedAtStep, WaysStep, LowsStep, FoundStep, UnitedStep DEF ReachInv
<1> QED BY <1>1, <1>2, PTL DEF ReachSpec

\* The search and the pass over the components stay in their types.
THEOREM ReachTypeCorrect == ReachSpec => []ReachTypeOK
<1>1. ReachInv => ReachTypeOK
  BY DEF ReachInv
<1> QED BY <1>1, ReachInvariance, PTL

\* For every graph compute gives every block the blocks it leads to and no others.
THEOREM ReachIsCorrect == ReachSpec => []ReachIsExact
<1>1. ReachInv => ReachIsExact
  <2> SUFFICES ASSUME ReachInv, phase = "done" PROVE reach = [a \in DOMAIN succs |-> LedTo(succs, a)]
    BY DEF ReachIsExact
  <2>1. succs \in FlowGraphs /\ reach = [a \in B |-> {b \in B : Gets(a, b)}]
    BY DEF ReachInv, ReachTypeOK, United
  <2>2. \A a \in DOMAIN succs : LedTo(succs, a) = {b \in B : Gets(a, b)}
    BY <2>1, LedToRoutes DEF B, Gets
  <2> QED BY <2>1, <2>2 DEF B
<1> QED BY <1>1, ReachInvariance, PTL

\* For every graph tarjan_sccs finds the strongly connected components, in the order that
\* compute relies on.
THEOREM ComponentsAreRight == ReachSpec => []ComponentsAreExact
<1>1. ReachInv => ComponentsAreExact
  <2> SUFFICES ASSUME ReachInv, phase \in {"union", "done"}, NEW a \in DOMAIN succs, NEW b \in DOMAIN succs
               PROVE  /\ SccId(a) = SccId(b) <=> b \in LedTo(succs, a) /\ a \in LedTo(succs, b)
                      /\ b \in LedTo(succs, a) => SccId(b) <= SccId(a)
    BY DEF ComponentsAreExact
  <2>1. succs \in FlowGraphs /\ Closed = B /\ ReachTypeOK /\ Found /\ a \in B /\ b \in B
    BY DEF ReachInv, ReachTypeOK, Found, B
  <2>2. b \in LedTo(succs, a) <=> Gets(a, b)
    BY <2>1, LedToRoutes DEF B, Gets
  <2>3. a \in LedTo(succs, b) <=> Gets(b, a)
    BY <2>1, LedToRoutes DEF B, Gets
  <2>4. Gets(a, b) => SccId(a) \in Nat /\ SccId(b) \in Nat /\ SccId(b) <= SccId(a)
    BY <2>1, ComponentsBelow
  <2>5. Gets(b, a) => SccId(a) \in Nat /\ SccId(b) \in Nat /\ SccId(a) <= SccId(b)
    BY <2>1, ComponentsBelow
  <2>6. SccId(a) = SccId(b) => Gets(a, b) /\ Gets(b, a)
    <3>1. a \in sccMembers[SccId(a)] /\ SccId(a) \in DOMAIN sccMembers /\ b \in sccMembers[SccId(b)]
      BY <2>1, SccIdFacts
    <3> QED BY <2>1, <3>1 DEF Found
  <2> QED BY <2>2, <2>3, <2>4, <2>5, <2>6
<1> QED BY <1>1, ReachInvariance, PTL

\* Neither the search nor the pass over the components panics, whatever the graph.
THEOREM ReachNeverPanics == ReachSpec => []NothingPanics
<1>1. ReachInv => NothingPanics
  <2> SUFFICES ASSUME ReachInv PROVE NothingPanics
    OBVIOUS
  <2>1. ReachTypeOK /\ Numbers /\ Found
    BY DEF ReachInv
  <2>2. ASSUME phase = "search", work # <<>> PROVE OnStack(Node)
    <3>1. Node \in Held
      BY <2>1, <2>2, NodeFacts
    <3> QED BY <3>1 DEF Held, OnStack
  <2>3. ASSUME phase = "union", NEW b \in B PROVE SccId(b) \in DOMAIN sccMembers /\ b \in sccMembers[SccId(b)]
    <3>1. b \in Closed
      BY <2>1, <2>3 DEF Found
    <3> QED BY <2>1, <3>1, SccIdFacts
  <2>4. DOMAIN sccReach = 1 .. Len(sccReach) /\ Len(sccReach) \in Nat /\ DOMAIN sccMembers = 1 .. Len(sccMembers)
    <3>1. sccReach \in Seq(SUBSET B)
      BY <2>1 DEF ReachTypeOK
    <3> QED BY <2>1, <3>1, LenProperties, StackSets
  <2>5. ASSUME phase = "union", Len(sccReach) < Len(sccMembers), NEW k \in SuccSccs(Len(sccReach) + 1)
        PROVE  k \in DOMAIN sccReach
    <3> DEFINE i == Len(sccReach) + 1
    <3>1. PICK w \in UNION {Range(succs[m]) : m \in sccMembers[i]} : k = SccId(w) /\ k # i
      BY <2>5 DEF SuccSccs
    <3>2. PICK m \in sccMembers[i] : w \in Range(succs[m])
      BY <3>1
    <3>3. i \in DOMAIN sccMembers /\ i \in Nat /\ m \in B
      BY <2>1, <2>4, <2>5, <3>2, StackSets
    <3>4. w \in B /\ Goes(m, w)
      <4>1. succs \in FlowGraphs /\ m \in DOMAIN succs
        BY <2>1, <2>5, <3>3 DEF ReachTypeOK, B
      <4>2. succs[m] \in Seq(DOMAIN succs)
        BY <4>1, ArcTypes
      <4>3. \A j \in DOMAIN succs[m] : succs[m][j] \in B
        BY <4>2, LenProperties, ElementOfSeq DEF B
      <4> QED BY <3>2, <4>3 DEF Range, Goes, Arc
    <3>5. Closed = B
      BY <2>1, <2>5 DEF Found
    <3>6. SccId(m) = i
      BY <2>1, <3>2, <3>3, <3>5, SccIdFacts
    <3>7. Gets(m, w)
      BY <3>3, <3>4, ReachPaths
    <3>8. k \in Nat /\ k <= i
      BY <2>1, <3>1, <3>3, <3>4, <3>5, <3>6, <3>7, ComponentsBelow
    <3>9. k \in DOMAIN sccMembers
      BY <2>3, <2>5, <3>1, <3>4
    <3> QED BY <2>4, <3>1, <3>3, <3>8, <3>9
  <2>6. ASSUME phase = "union", Len(sccReach) = Len(sccMembers), NEW b \in B PROVE SccId(b) \in DOMAIN sccReach
    BY <2>3, <2>4, <2>6
  <2> QED BY <2>2, <2>3, <2>5, <2>6 DEF NothingPanics, B
<1> QED BY <1>1, ReachInvariance, PTL

-----------------------------------------------------------------------------
(* DomTree::compute.  Paths of its graph, those that avoid a block, and the *)
(* way up its tree.                                                        *)

Nodes == DOMAIN arcs

Links(a, b) == Arc(arcs, a, b)
Comes(a, b) == Route(arcs, a, b)
Free(a, b) == Route(Without(arcs, a), root, b)
Forced(a, b) == a = b \/ ~Free(a, b)
UpArcs == [b \in Nodes |-> <<Above(b)>>]
Over(a, b) == Route(UpArcs, b, a)

-----------------------------------------------------------------------------
(* The inductive invariant.                                                *)

Calling == {calls[i].block : i \in DOMAIN calls}
Returned == {postorder[i] : i \in DOMAIN postorder}
Ordered == {rpo[i] : i \in DOMAIN rpo}
Passing == {"pass", "meet", "done"}

DomTypeOK ==
  /\ stage \in {"idle", "order", "pass", "meet", "done"}
  /\ stage # "idle" => arcs \in FlowGraphs /\ root \in Nodes
  /\ stage = "order" => /\ calls \in Seq([block : Nodes, seen : Nat])
                        /\ entered \in SUBSET Nodes /\ postorder \in Seq(Nodes)
  /\ stage \in Passing => /\ rpo \in Seq(Nodes) /\ num \in [Nodes -> Nat]
                          /\ idom \in [Nodes -> Nodes \cup {NoBlock}]
                          /\ at \in Nat \ {0, 1} /\ changed \in BOOLEAN
  /\ stage = "meet" => one \in Nodes /\ other \in Nodes /\ others \in SUBSET Nodes /\ at <= Len(rpo)
  /\ stage = "done" => tree \in [Nodes -> Nodes]

\* The search: a block is entered once, and what a call has looked at is entered.
Descent ==
  stage = "order" =>
    /\ \A i, j \in DOMAIN calls : calls[i].block = calls[j].block => i = j
    /\ \A i, j \in DOMAIN postorder : postorder[i] = postorder[j] => i = j
    /\ entered = Calling \cup Returned /\ Calling \cap Returned = {} /\ root \in entered
    /\ \A b \in entered : Comes(root, b)
    /\ \A b \in Returned, c \in Nodes : Links(b, c) => c \in entered
    /\ \A i \in DOMAIN calls : \A k \in DOMAIN arcs[calls[i].block] :
         k <= calls[i].seen => arcs[calls[i].block][k] \in entered

\* A call is for a successor of its caller, and returns before it; the first is for the entry.
Callers ==
  stage = "order" =>
    /\ \A i \in DOMAIN calls : IF i = 1 THEN calls[i].block = root
                               ELSE Links(calls[i - 1].block, calls[i].block)
    /\ \A i \in DOMAIN postorder :
         \/ postorder[i] = root /\ i = Len(postorder) /\ calls = <<>>
         \/ \E p \in entered : Links(p, postorder[i]) /\ \A j \in 1 .. i : postorder[j] # p
    /\ calls = <<>> => postorder # <<>> /\ postorder[Len(postorder)] = root

\* The order: all that the entry leads to, each block but the entry after a predecessor.
Orders ==
  stage \in Passing =>
    /\ rpo # <<>> /\ rpo[1] = root
    /\ \A i \in DOMAIN rpo : num[rpo[i]] = i
    /\ \A b \in Nodes : b \in Ordered <=> Comes(root, b)
    /\ \A b \in Ordered \ {root} : \E p \in Ordered : Links(p, b) /\ num[p] < num[b]

\* The tree so far: up is earlier, and what every path to a block goes through, every path to
\* the one above it goes through.
Climbs ==
  stage \in Passing =>
    /\ idom[root] = root
    /\ \A b \in Nodes \ {root} : idom[b] # NoBlock =>
         /\ b \in Ordered /\ idom[b] \in Ordered /\ idom[idom[b]] # NoBlock /\ num[idom[b]] < num[b]
         /\ \A a \in Nodes : a # b /\ Forced(a, b) => Forced(a, idom[b])

\* The passes: the blocks this one has been at are processed, and if it has changed nothing, the
\* block above each is above its processed predecessors.
Passed ==
  stage \in Passing =>
    /\ \A i \in DOMAIN rpo : stage = "done" \/ i < at => idom[rpo[i]] # NoBlock
    /\ \A i \in DOMAIN rpo, p \in Nodes :
         /\ stage = "done" \/ (~changed /\ i < at)
         /\ i # 1 /\ Links(p, rpo[i]) /\ idom[p] # NoBlock
         => Over(idom[rpo[i]], p)
    /\ stage = "done" => tree = [b \in Nodes |-> Above(b)]

\* A block's predecessors meet: both are above those looked at, and what every path to the block
\* goes through, every path to them goes through.
Meets ==
  stage = "meet" =>
    /\ \A x \in {one, other} : x \in Ordered /\ idom[x] # NoBlock
    /\ others \subseteq Processed(rpo[at])
    /\ \A a \in Nodes : a # rpo[at] /\ Forced(a, rpo[at]) => Forced(a, one) /\ Forced(a, other)
    /\ \E c \in Processed(rpo[at]) \ others :
         /\ Over(other, c)
         /\ \A q \in Processed(rpo[at]) \ others : q # c => Over(one, q)

DomInv == DomTypeOK /\ Descent /\ Callers /\ Orders /\ Climbs /\ Passed /\ Meets

-----------------------------------------------------------------------------
(* Lemmas.                                                                 *)

\* The relations of the graph stay with the graph.
LEMMA DomFixed ==
  ASSUME arcs' = arcs
  PROVE  /\ Nodes' = Nodes
         /\ \A a, b : Links(a, b)' <=> Links(a, b)
         /\ \A a, b : Comes(a, b)' <=> Comes(a, b)
BY DEF Nodes, Links, Comes

\* Paths: the empty one, an arc, and one after another.
LEMMA DomPaths ==
  /\ \A a : Comes(a, a)
  /\ \A a, b \in Nodes : Links(a, b) => Comes(a, b)
  /\ \A a, b, c : Comes(a, b) /\ Comes(b, c) => Comes(a, c)
BY Routes DEF Nodes, Links, Comes

\* The successors of a block.
LEMMA NodeArcs ==
  ASSUME DomTypeOK, stage # "idle", NEW b \in Nodes
  PROVE  /\ Len(arcs[b]) \in Nat /\ DOMAIN arcs[b] = 1 .. Len(arcs[b])
         /\ \A i \in DOMAIN arcs[b] : arcs[b][i] \in Nodes /\ Links(b, arcs[b][i])
<1>1. arcs \in FlowGraphs /\ b \in DOMAIN arcs
  BY DEF DomTypeOK, Nodes
<1>2. arcs[b] \in Seq(DOMAIN arcs) /\ \A i \in 1 .. Len(arcs[b]) : arcs[b][i] \in DOMAIN arcs /\ Arc(arcs, b, arcs[b][i])
  BY <1>1, ArcTypes
<1>3. Len(arcs[b]) \in Nat /\ DOMAIN arcs[b] = 1 .. Len(arcs[b])
  BY <1>2, LenProperties
<1> QED BY <1>2, <1>3 DEF Nodes, Links

\* The call that runs.
LEMMA CallFacts ==
  ASSUME DomTypeOK, stage = "order", calls # <<>>
  PROVE  /\ Len(calls) \in Nat \ {0} /\ DOMAIN calls = 1 .. Len(calls) /\ Len(calls) \in DOMAIN calls
         /\ \A i \in DOMAIN calls : calls[i] \in [block : Nodes, seen : Nat]
         /\ Caller \in Nodes /\ Caller \in Calling /\ Asked \in Nat
         /\ Calling \in SUBSET Nodes
<1>1. calls \in Seq([block : Nodes, seen : Nat])
  BY DEF DomTypeOK
<1>2. Len(calls) \in Nat \ {0} /\ DOMAIN calls = 1 .. Len(calls)
  BY <1>1, EmptySeq, LenProperties
<1>3. Len(calls) \in DOMAIN calls
  BY <1>2
<1>4. \A i \in DOMAIN calls : calls[i] \in [block : Nodes, seen : Nat]
  BY <1>1, <1>2, ElementOfSeq
<1>5. Caller \in Nodes /\ Caller \in Calling /\ Asked \in Nat
  BY <1>3, <1>4 DEF Caller, Asked, Calling
<1>6. Calling \in SUBSET Nodes
  BY <1>4 DEF Calling
<1> QED BY <1>2, <1>3, <1>4, <1>5, <1>6

\* A call looks at its next successor.
LEMMA DescendFacts ==
  ASSUME DomTypeOK, Descend
  PROVE  \E w \in Nodes, rest \in Seq([block : Nodes, seen : Nat]) :
           /\ stage = "order" /\ calls # <<>> /\ stage' = stage /\ arcs' = arcs /\ root' = root
           /\ postorder' = postorder /\ entered' = entered \cup {w}
           /\ Links(Caller, w) /\ w = arcs[Caller][Asked + 1]
           /\ Len(rest) = Len(calls) /\ DOMAIN rest = DOMAIN calls
           /\ \A i \in DOMAIN calls : rest[i].block = calls[i].block
           /\ \A i \in DOMAIN calls : i # Len(calls) => rest[i].seen = calls[i].seen
           /\ rest[Len(calls)].seen = Asked + 1
           /\ w \in entered => calls' = rest
           /\ w \notin entered => calls' = Append(rest, [block |-> w, seen |-> 0])
<1>1. /\ stage = "order" /\ calls # <<>> /\ stage' = stage /\ arcs' = arcs /\ root' = root
      /\ postorder' = postorder /\ Asked < Len(arcs[Caller])
  BY DEF Descend
<1> DEFINE w == arcs[Caller][Asked + 1]
           rest == [calls EXCEPT ![Len(calls)].seen = @ + 1]
           e == [calls[Len(calls)] EXCEPT !.seen = Asked + 1]
<1>2. /\ entered' = entered \cup {w}
      /\ w \in entered => calls' = rest
      /\ w \notin entered => calls' = Append(rest, [block |-> w, seen |-> 0])
  BY DEF Descend
<1>3. /\ Len(calls) \in DOMAIN calls /\ DOMAIN calls = 1 .. Len(calls) /\ Asked \in Nat /\ Caller \in Nodes
      /\ calls[Len(calls)] \in [block : Nodes, seen : Nat] /\ Asked = calls[Len(calls)].seen
  BY <1>1, CallFacts DEF Asked
<1>4. w \in Nodes /\ Links(Caller, w)
  <2>1. /\ Len(arcs[Caller]) \in Nat /\ DOMAIN arcs[Caller] = 1 .. Len(arcs[Caller])
        /\ \A i \in DOMAIN arcs[Caller] : arcs[Caller][i] \in Nodes /\ Links(Caller, arcs[Caller][i])
    BY <1>1, <1>3, NodeArcs
  <2>2. Asked + 1 \in DOMAIN arcs[Caller]
    BY <1>1, <1>3, <2>1
  <2> QED BY <2>1, <2>2
<1>5. e \in [block : Nodes, seen : Nat] /\ e.block = calls[Len(calls)].block /\ e.seen = Asked + 1
  BY <1>3
<1>6. rest = [calls EXCEPT ![Len(calls)] = e]
  BY <1>3
<1>7. calls \in Seq([block : Nodes, seen : Nat])
  BY <1>1 DEF DomTypeOK
<1> HIDE DEF e
<1>8. /\ [calls EXCEPT ![Len(calls)] = e] \in Seq([block : Nodes, seen : Nat])
      /\ Len([calls EXCEPT ![Len(calls)] = e]) = Len(calls)
      /\ \A j \in 1 .. Len(calls) : [calls EXCEPT ![Len(calls)] = e][j] = IF j = Len(calls) THEN e ELSE calls[j]
  BY <1>3, <1>5, <1>7, ExceptSeq
<1> HIDE DEF rest, w
<1>9. /\ rest \in Seq([block : Nodes, seen : Nat])
      /\ Len(rest) = Len(calls)
      /\ \A j \in 1 .. Len(calls) : rest[j] = IF j = Len(calls) THEN e ELSE calls[j]
  BY <1>6, <1>8
<1>10. DOMAIN rest = DOMAIN calls
  BY <1>3, <1>9, LenProperties
<1>11. \A i \in DOMAIN calls : rest[i].block = calls[i].block
  BY <1>3, <1>5, <1>9
<1>12. \A i \in DOMAIN calls : i # Len(calls) => rest[i].seen = calls[i].seen
  BY <1>3, <1>9
<1>13. rest[Len(calls)].seen = Asked + 1
  BY <1>3, <1>5, <1>9
<1>14. w = arcs[Caller][Asked + 1]
  BY DEF w
<1> QED BY <1>1, <1>2, <1>4, <1>9, <1>10, <1>11, <1>12, <1>13, <1>14

\* A call that begins.
LEMMA PushFacts ==
  ASSUME NEW T, NEW s \in Seq(T), NEW e \in T
  PROVE  /\ Append(s, e) \in Seq(T) /\ Len(Append(s, e)) = Len(s) + 1 /\ Len(s) \in Nat
         /\ DOMAIN Append(s, e) = 1 .. Len(s) + 1 /\ DOMAIN s = 1 .. Len(s)
         /\ DOMAIN Append(s, e) = DOMAIN s \cup {Len(s) + 1}
         /\ \A i \in DOMAIN s : Append(s, e)[i] = s[i]
         /\ Append(s, e)[Len(s) + 1] = e
<1>1. /\ Append(s, e) \in Seq(T) /\ Len(Append(s, e)) = Len(s) + 1
      /\ \A i \in 1 .. Len(s) : Append(s, e)[i] = s[i]
      /\ Append(s, e)[Len(s) + 1] = e
  BY AppendProperties
<1>2. DOMAIN Append(s, e) = 1 .. Len(s) + 1 /\ DOMAIN s = 1 .. Len(s) /\ Len(s) \in Nat
  BY <1>1, LenProperties
<1>3. DOMAIN Append(s, e) = DOMAIN s \cup {Len(s) + 1}
  BY <1>2
<1> QED BY <1>1, <1>2, <1>3

\* A call returns.
LEMMA AscendFacts ==
  ASSUME DomTypeOK, Descent, Ascend
  PROVE  /\ stage = "order" /\ calls # <<>> /\ stage' = stage /\ arcs' = arcs /\ root' = root
         /\ entered' = entered /\ Asked >= Len(arcs[Caller])
         /\ calls' \in Seq([block : Nodes, seen : Nat]) /\ DOMAIN calls' = 1 .. Len(calls) - 1
         /\ \A i \in DOMAIN calls' : i \in DOMAIN calls /\ i # Len(calls) /\ calls'[i] = calls[i]
         /\ Calling' = Calling \ {Caller}
         /\ postorder' \in Seq(Nodes) /\ Len(postorder') = Len(postorder) + 1 /\ Len(postorder) \in Nat
         /\ DOMAIN postorder = 1 .. Len(postorder)
         /\ DOMAIN postorder' = DOMAIN postorder \cup {Len(postorder) + 1}
         /\ \A i \in DOMAIN postorder : postorder'[i] = postorder[i]
         /\ postorder'[Len(postorder) + 1] = Caller
         /\ Returned' = Returned \cup {Caller}
<1>1. /\ stage = "order" /\ calls # <<>> /\ stage' = stage /\ arcs' = arcs /\ root' = root
      /\ entered' = entered /\ Asked >= Len(arcs[Caller])
      /\ calls' = Front(calls) /\ postorder' = Append(postorder, Caller)
  BY DEF Ascend
<1>2. /\ Len(calls) \in Nat \ {0} /\ DOMAIN calls = 1 .. Len(calls) /\ Len(calls) \in DOMAIN calls
      /\ Caller \in Nodes /\ calls \in Seq([block : Nodes, seen : Nat]) /\ postorder \in Seq(Nodes)
  BY <1>1, CallFacts DEF DomTypeOK
<1>3. /\ calls' \in Seq([block : Nodes, seen : Nat]) /\ DOMAIN calls' = 1 .. Len(calls) - 1
      /\ \A i \in 1 .. Len(calls) - 1 : calls'[i] = calls[i]
  BY <1>1, <1>2, FrontFacts
<1>4. \A i \in DOMAIN calls' : i \in DOMAIN calls /\ i # Len(calls) /\ calls'[i] = calls[i]
  BY <1>2, <1>3
<1>5. /\ postorder' \in Seq(Nodes) /\ Len(postorder') = Len(postorder) + 1 /\ Len(postorder) \in Nat
      /\ DOMAIN postorder = 1 .. Len(postorder)
      /\ DOMAIN postorder' = DOMAIN postorder \cup {Len(postorder) + 1}
      /\ \A i \in DOMAIN postorder : postorder'[i] = postorder[i]
      /\ postorder'[Len(postorder) + 1] = Caller
  BY <1>1, <1>2, PushFacts
<1>6. Returned' = Returned \cup {Caller}
  BY <1>5 DEF Returned
<1>7. Calling' = Calling \ {Caller}
  <2>1. DOMAIN calls = DOMAIN calls' \cup {Len(calls)}
    BY <1>2, <1>3
  <2>2. \A i \in DOMAIN calls' : calls[i].block # Caller
    BY <1>1, <1>2, <1>4 DEF Descent, Caller
  <2>3. Calling' = {calls[i].block : i \in DOMAIN calls'}
    BY <1>4 DEF Calling
  <2>4. Calling = Calling' \cup {Caller}
    BY <2>1, <2>3 DEF Calling, Caller
  <2>5. Caller \notin Calling'
    BY <2>2, <2>3
  <2> QED BY <2>4, <2>5
<1> QED BY <1>1, <1>3, <1>4, <1>5, <1>6, <1>7

-----------------------------------------------------------------------------
(* The search.                                                             *)

LEMMA CallsBegin ==
  ASSUME NEW g \in FlowGraphs, NEW e \in DOMAIN g, CallDominators(g, e)
  PROVE  /\ stage' = "order" /\ arcs' = g /\ root' = e /\ e \in Nodes'
         /\ calls' = <<[block |-> e, seen |-> 0]>> /\ DOMAIN calls' = {1}
         /\ entered' = {e} /\ postorder' = <<>> /\ DOMAIN postorder' = {}
         /\ Calling' = {e} /\ Returned' = {}
<1>1. /\ stage' = "order" /\ arcs' = g /\ root' = e /\ e \in Nodes'
      /\ calls' = <<[block |-> e, seen |-> 0]>> /\ entered' = {e} /\ postorder' = <<>>
  BY DEF CallDominators, Nodes
<1>2. DOMAIN calls' = {1} /\ DOMAIN postorder' = {} /\ calls'[1].block = e
  BY <1>1
<1> QED BY <1>1, <1>2 DEF Calling, Returned

LEMMA DescentStep == DomTypeOK /\ Descent /\ [DomNext]_domVars => Descent'
<1> SUFFICES ASSUME DomTypeOK, Descent, [DomNext]_domVars, stage' = "order" PROVE Descent'
  BY DEF Descent
<1>1. ASSUME NEW g \in FlowGraphs, NEW e \in DOMAIN g, CallDominators(g, e) PROVE Descent'
  <2>1. /\ stage' = "order" /\ arcs' = g /\ root' = e /\ e \in Nodes'
        /\ calls' = <<[block |-> e, seen |-> 0]>> /\ DOMAIN calls' = {1}
        /\ entered' = {e} /\ postorder' = <<>> /\ DOMAIN postorder' = {}
        /\ Calling' = {e} /\ Returned' = {}
    BY <1>1, CallsBegin
  <2>2. Comes(root, e)'
    BY <2>1, Routes DEF Comes
  <2>3. \A k \in (DOMAIN arcs[calls[1].block])' : ~(k <= calls'[1].seen)
    <3>1. calls'[1].block = e /\ calls'[1].seen = 0 /\ g[e] \in Seq(DOMAIN g)
      BY <2>1, ArcTypes
    <3>2. DOMAIN g[e] = 1 .. Len(g[e])
      BY <3>1, LenProperties
    <3> QED BY <2>1, <3>1, <3>2
  <2> QED BY <2>1, <2>2, <2>3 DEF Descent
<1>2. CASE Descend
  <2>1. PICK w \in Nodes, rest \in Seq([block : Nodes, seen : Nat]) :
           /\ stage = "order" /\ calls # <<>> /\ stage' = stage /\ arcs' = arcs /\ root' = root
           /\ postorder' = postorder /\ entered' = entered \cup {w}
           /\ Links(Caller, w) /\ w = arcs[Caller][Asked + 1]
           /\ Len(rest) = Len(calls) /\ DOMAIN rest = DOMAIN calls
           /\ \A i \in DOMAIN calls : rest[i].block = calls[i].block
           /\ \A i \in DOMAIN calls : i # Len(calls) => rest[i].seen = calls[i].seen
           /\ rest[Len(calls)].seen = Asked + 1
           /\ w \in entered => calls' = rest
           /\ w \notin entered => calls' = Append(rest, [block |-> w, seen |-> 0])
    BY <1>2, DescendFacts
  <2>2. /\ Len(calls) \in DOMAIN calls /\ Caller \in Calling /\ Caller \in Nodes /\ Asked \in Nat
        /\ \A i \in DOMAIN calls : calls[i] \in [block : Nodes, seen : Nat]
        /\ DOMAIN calls = 1 .. Len(calls) /\ Len(calls) \in Nat
    BY <2>1, CallFacts
  <2>3. /\ \A i, j \in DOMAIN calls : calls[i].block = calls[j].block => i = j
        /\ \A i, j \in DOMAIN postorder : postorder[i] = postorder[j] => i = j
        /\ entered = Calling \cup Returned /\ Calling \cap Returned = {} /\ root \in entered
        /\ \A b \in entered : Comes(root, b)
        /\ \A b \in Returned, c \in Nodes : Links(b, c) => c \in entered
        /\ \A i \in DOMAIN calls : \A k \in DOMAIN arcs[calls[i].block] :
             k <= calls[i].seen => arcs[calls[i].block][k] \in entered
    BY <2>1 DEF Descent
  <2>4. /\ Nodes' = Nodes /\ Returned' = Returned
        /\ \A a, b : Links(a, b)' <=> Links(a, b)
        /\ \A a, b : Comes(a, b)' <=> Comes(a, b)
    BY <2>1, DomFixed DEF Returned
  <2>5. Comes(root, w)
    <3>1. Comes(root, Caller) /\ Comes(Caller, w)
      BY <2>1, <2>2, <2>3, DomPaths
    <3> QED BY <3>1, DomPaths
  <2>6. \A i \in DOMAIN calls : \A k \in DOMAIN arcs[rest[i].block] :
          k <= rest[i].seen => arcs[rest[i].block][k] \in entered'
    <3> SUFFICES ASSUME NEW i \in DOMAIN calls, NEW k \in DOMAIN arcs[calls[i].block], k <= rest[i].seen
                 PROVE  arcs[calls[i].block][k] \in entered'
      BY <2>1
    <3>1. CASE i # Len(calls)
      BY <2>1, <2>3, <3>1
    <3>2. CASE i = Len(calls) /\ k = Asked + 1
      BY <2>1, <3>2 DEF Caller
    <3>3. CASE i = Len(calls) /\ k # Asked + 1
      <4>1. DOMAIN arcs[Caller] = 1 .. Len(arcs[Caller]) /\ Len(arcs[Caller]) \in Nat
        BY <2>1, <2>2, NodeArcs
      <4>2. k \in Nat /\ k <= Asked
        BY <2>1, <2>2, <3>3, <4>1 DEF Caller
      <4> QED BY <2>1, <2>3, <3>3, <4>2 DEF Asked
    <3> QED BY <3>1, <3>2, <3>3
  <2>7. {rest[i].block : i \in DOMAIN calls} = Calling
    BY <2>1 DEF Calling
  <2>8. CASE w \in entered
    <3>1. calls' = rest /\ entered' = entered /\ Calling' = Calling
      BY <2>1, <2>7, <2>8 DEF Calling
    <3>2. \A i, j \in DOMAIN calls' : calls'[i].block = calls'[j].block => i = j
      BY <2>1, <2>3, <3>1
    <3>3. \A i \in DOMAIN calls' : \A k \in DOMAIN arcs'[calls'[i].block] :
            k <= calls'[i].seen => arcs'[calls'[i].block][k] \in entered'
      BY <2>1, <2>6, <3>1
    <3> QED BY <2>1, <2>3, <2>4, <3>1, <3>2, <3>3 DEF Descent
  <2>9. CASE w \notin entered
    <3>1. calls' = Append(rest, [block |-> w, seen |-> 0]) /\ [block |-> w, seen |-> 0] \in [block : Nodes, seen : Nat]
      BY <2>1, <2>9
    <3> DEFINE e == [block |-> w, seen |-> 0]
    <3>2. /\ DOMAIN calls' = DOMAIN calls \cup {Len(calls) + 1}
          /\ \A i \in DOMAIN calls : calls'[i] = rest[i]
          /\ calls'[Len(calls) + 1] = [block |-> w, seen |-> 0]
      <4>1. e \in [block : Nodes, seen : Nat]
        BY <3>1
      <4> HIDE DEF e
      <4>2. /\ DOMAIN Append(rest, e) = DOMAIN rest \cup {Len(rest) + 1}
            /\ \A i \in DOMAIN rest : Append(rest, e)[i] = rest[i]
            /\ Append(rest, e)[Len(rest) + 1] = e
        BY <4>1, PushFacts
      <4>3. calls' = Append(rest, e)
        BY <3>1 DEF e
      <4>4. DOMAIN rest = DOMAIN calls /\ Len(rest) = Len(calls)
        BY <2>1
      <4> QED BY <4>2, <4>3, <4>4 DEF e
    <3>3. Calling' = Calling \cup {w}
      <4>1. Calling' = {calls'[i].block : i \in DOMAIN calls \cup {Len(calls) + 1}}
        BY <3>2 DEF Calling
      <4>2. \A i \in DOMAIN calls : calls'[i].block = rest[i].block
        BY <3>2
      <4>3. calls'[Len(calls) + 1].block = w
        BY <3>2
      <4>4. Calling' = {rest[i].block : i \in DOMAIN calls} \cup {w}
        BY <4>1, <4>2, <4>3
      <4> QED BY <2>7, <4>4
    <3>4. \A i \in DOMAIN calls : calls'[i].block = calls[i].block /\ calls'[i].block # w
      BY <2>1, <2>3, <2>9, <3>2 DEF Calling
    <3>5. \A i, j \in DOMAIN calls' : calls'[i].block = calls'[j].block => i = j
      BY <2>3, <3>2, <3>4
    <3>6. \A i \in DOMAIN calls' : \A k \in DOMAIN arcs'[calls'[i].block] :
            k <= calls'[i].seen => arcs'[calls'[i].block][k] \in entered'
      <4> SUFFICES ASSUME NEW i \in DOMAIN calls', NEW k \in DOMAIN arcs'[calls'[i].block], k <= calls'[i].seen
                   PROVE  arcs'[calls'[i].block][k] \in entered'
        OBVIOUS
      <4>1. CASE i \in DOMAIN calls
        BY <2>1, <2>6, <3>2, <4>1
      <4>2. CASE i = Len(calls) + 1
        <5>1. DOMAIN arcs[w] = 1 .. Len(arcs[w]) /\ calls'[i].block = w /\ calls'[i].seen = 0
          BY <2>1, <3>2, <4>2, NodeArcs
        <5> QED BY <2>1, <5>1
      <4> QED BY <3>2, <4>1, <4>2
    <3>7. entered' = Calling' \cup Returned' /\ Calling' \cap Returned' = {}
      BY <2>1, <2>3, <2>4, <2>9, <3>3
    <3> QED BY <2>1, <2>3, <2>4, <2>5, <3>5, <3>6, <3>7 DEF Descent
  <2> QED BY <2>8, <2>9
<1>3. CASE Ascend
  <2>1. /\ stage = "order" /\ calls # <<>> /\ stage' = stage /\ arcs' = arcs /\ root' = root
        /\ entered' = entered /\ Asked >= Len(arcs[Caller])
        /\ \A i \in DOMAIN calls' : i \in DOMAIN calls /\ i # Len(calls) /\ calls'[i] = calls[i]
        /\ Calling' = Calling \ {Caller}
        /\ DOMAIN postorder' = DOMAIN postorder \cup {Len(postorder) + 1}
        /\ \A i \in DOMAIN postorder : postorder'[i] = postorder[i]
        /\ postorder'[Len(postorder) + 1] = Caller
        /\ Returned' = Returned \cup {Caller}
    BY <1>3, AscendFacts
  <2>2. /\ Len(calls) \in DOMAIN calls /\ Caller \in Calling /\ Caller \in Nodes /\ Asked \in Nat
    BY <2>1, CallFacts
  <2>3. /\ \A i, j \in DOMAIN calls : calls[i].block = calls[j].block => i = j
        /\ \A i, j \in DOMAIN postorder : postorder[i] = postorder[j] => i = j
        /\ entered = Calling \cup Returned /\ Calling \cap Returned = {} /\ root \in entered
        /\ \A b \in entered : Comes(root, b)
        /\ \A b \in Returned, c \in Nodes : Links(b, c) => c \in entered
        /\ \A i \in DOMAIN calls : \A k \in DOMAIN arcs[calls[i].block] :
             k <= calls[i].seen => arcs[calls[i].block][k] \in entered
    BY <2>1 DEF Descent
  <2>4. /\ Nodes' = Nodes
        /\ \A a, b : Links(a, b)' <=> Links(a, b)
        /\ \A a, b : Comes(a, b)' <=> Comes(a, b)
    BY <2>1, DomFixed
  <2>5. \A c \in Nodes : Links(Caller, c) => c \in entered
    <3> SUFFICES ASSUME NEW c \in Nodes, NEW k \in DOMAIN arcs[Caller], arcs[Caller][k] = c PROVE c \in entered
      BY DEF Links, Arc
    <3>1. DOMAIN arcs[Caller] = 1 .. Len(arcs[Caller]) /\ Len(arcs[Caller]) \in Nat
      BY <2>1, <2>2, NodeArcs
    <3>2. k <= Asked
      BY <2>1, <2>2, <3>1
    <3> QED BY <2>2, <2>3, <3>2 DEF Caller, Asked
  <2>6. \A i, j \in DOMAIN postorder' : postorder'[i] = postorder'[j] => i = j
    <3>1. \A i \in DOMAIN postorder : postorder[i] # Caller
      BY <2>2, <2>3 DEF Returned
    <3> QED BY <2>1, <2>3, <3>1
  <2>7. entered' = Calling' \cup Returned' /\ Calling' \cap Returned' = {}
    BY <2>1, <2>2, <2>3
  <2> QED BY <2>1, <2>3, <2>4, <2>5, <2>6, <2>7 DEF Descent
<1>4. CASE UNCHANGED domVars
  <2>1. stage = "order" /\ UNCHANGED <<arcs, root, calls, entered, postorder>>
    BY <1>4 DEF domVars
  <2> QED BY <2>1, DomFixed DEF Descent, Calling, Returned
<1>5. EndOrder \/ BeginBlock \/ NextPredecessor \/ Climb \/ EndBlock \/ EndPass => FALSE
  BY DEF EndOrder, BeginBlock, NextPredecessor, Climb, EndBlock, EndPass
<1> QED BY <1>1, <1>2, <1>3, <1>4, <1>5 DEF DomNext, DomStep

LEMMA CallersStep == DomTypeOK /\ Descent /\ Callers /\ [DomNext]_domVars => Callers'
<1> SUFFICES ASSUME DomTypeOK, Descent, Callers, [DomNext]_domVars, stage' = "order" PROVE Callers'
  BY DEF Callers
<1>1. ASSUME NEW g \in FlowGraphs, NEW e \in DOMAIN g, CallDominators(g, e) PROVE Callers'
  <2>1. /\ root' = e /\ calls' = <<[block |-> e, seen |-> 0]>> /\ DOMAIN calls' = {1}
        /\ DOMAIN postorder' = {}
    BY <1>1, CallsBegin
  <2>2. calls' # <<>> /\ calls'[1].block = e
    BY <2>1
  <2> QED BY <2>1, <2>2 DEF Callers
<1>2. CASE Descend
  <2>1. PICK w \in Nodes, rest \in Seq([block : Nodes, seen : Nat]) :
           /\ stage = "order" /\ calls # <<>> /\ stage' = stage /\ arcs' = arcs /\ root' = root
           /\ postorder' = postorder /\ entered' = entered \cup {w}
           /\ Links(Caller, w) /\ w = arcs[Caller][Asked + 1]
           /\ Len(rest) = Len(calls) /\ DOMAIN rest = DOMAIN calls
           /\ \A i \in DOMAIN calls : rest[i].block = calls[i].block
           /\ \A i \in DOMAIN calls : i # Len(calls) => rest[i].seen = calls[i].seen
           /\ rest[Len(calls)].seen = Asked + 1
           /\ w \in entered => calls' = rest
           /\ w \notin entered => calls' = Append(rest, [block |-> w, seen |-> 0])
    BY <1>2, DescendFacts
  <2>2. DOMAIN calls = 1 .. Len(calls) /\ Len(calls) \in Nat \ {0}
    BY <2>1, CallFacts
  <2>3. /\ \A i \in DOMAIN calls : IF i = 1 THEN calls[i].block = root
                                   ELSE Links(calls[i - 1].block, calls[i].block)
        /\ \A i \in DOMAIN postorder :
             \/ postorder[i] = root /\ i = Len(postorder) /\ calls = <<>>
             \/ \E p \in entered : Links(p, postorder[i]) /\ \A j \in 1 .. i : postorder[j] # p
    BY <2>1 DEF Callers
  <2>4. \A a, b : Links(a, b)' <=> Links(a, b)
    BY <2>1, DomFixed
  <2>5. \A i \in DOMAIN postorder' :
          \E p \in entered' : Links(p, postorder[i])' /\ \A j \in 1 .. i : postorder'[j] # p
    BY <2>1, <2>3, <2>4
  <2>6. \A i \in DOMAIN calls : i # 1 => i - 1 \in DOMAIN calls
    BY <2>2
  <2>7. calls' # <<>> /\ \A i \in DOMAIN calls' : IF i = 1 THEN calls'[i].block = root'
                                                  ELSE Links(calls[i - 1].block, calls[i].block)'
    <3>1. CASE w \in entered
      <4>1. calls' = rest
        BY <2>1, <3>1
      <4>2. calls' # <<>>
        BY <2>1, <2>2, <4>1
      <4>3. \A i \in DOMAIN calls : i # 1 => Links(rest[i - 1].block, rest[i].block)
        BY <2>1, <2>3, <2>6
      <4>4. \A i \in DOMAIN calls : i = 1 => rest[i].block = root
        BY <2>1, <2>3
      <4> QED BY <2>1, <2>4, <4>1, <4>2, <4>3, <4>4
    <3>2. CASE w \notin entered
      <4> DEFINE e == [block |-> w, seen |-> 0]
      <4>1. e \in [block : Nodes, seen : Nat] /\ e.block = w
        OBVIOUS
      <4>2. calls' = Append(rest, e)
        BY <2>1, <3>2
      <4> HIDE DEF e
      <4>3. /\ DOMAIN Append(rest, e) = DOMAIN rest \cup {Len(rest) + 1}
            /\ \A i \in DOMAIN rest : Append(rest, e)[i] = rest[i]
            /\ Append(rest, e)[Len(rest) + 1] = e
        BY <4>1, PushFacts
      <4>4. /\ DOMAIN calls' = DOMAIN calls \cup {Len(calls) + 1}
            /\ \A i \in DOMAIN calls : calls'[i].block = calls[i].block
            /\ calls'[Len(calls) + 1].block = w
        BY <2>1, <4>1, <4>2, <4>3
      <4>5. calls' # <<>>
        <5>1. 1 \in DOMAIN calls'
          BY <2>2, <4>4
        <5> QED BY <5>1
      <4>6. \A i \in DOMAIN calls : IF i = 1 THEN calls'[i].block = root
                                    ELSE Links(calls'[i - 1].block, calls'[i].block)
        BY <2>3, <2>6, <4>4
      <4>7. Len(calls) + 1 # 1 /\ (Len(calls) + 1) - 1 = Len(calls) /\ Len(calls) \in DOMAIN calls
        BY <2>2
      <4>8. Links(calls'[(Len(calls) + 1) - 1].block, calls'[Len(calls) + 1].block)
        BY <2>1, <4>4, <4>7 DEF Caller
      <4> QED BY <2>1, <2>4, <4>4, <4>5, <4>6, <4>7, <4>8
    <3> QED BY <3>1, <3>2
  <2> QED BY <2>5, <2>7 DEF Callers
<1>3. CASE Ascend
  <2>1. /\ stage = "order" /\ calls # <<>> /\ stage' = stage /\ arcs' = arcs /\ root' = root
        /\ entered' = entered
        /\ DOMAIN calls' = 1 .. Len(calls) - 1
        /\ calls' \in Seq([block : Nodes, seen : Nat])
        /\ \A i \in DOMAIN calls' : i \in DOMAIN calls /\ i # Len(calls) /\ calls'[i] = calls[i]
        /\ Len(postorder') = Len(postorder) + 1 /\ Len(postorder) \in Nat
        /\ DOMAIN postorder = 1 .. Len(postorder)
        /\ DOMAIN postorder' = DOMAIN postorder \cup {Len(postorder) + 1}
        /\ \A i \in DOMAIN postorder : postorder'[i] = postorder[i]
        /\ postorder'[Len(postorder) + 1] = Caller
    BY <1>3, AscendFacts
  <2>2. DOMAIN calls = 1 .. Len(calls) /\ Len(calls) \in Nat \ {0} /\ Caller \in Calling
    BY <2>1, CallFacts
  <2>3. /\ \A i \in DOMAIN calls : IF i = 1 THEN calls[i].block = root
                                   ELSE Links(calls[i - 1].block, calls[i].block)
        /\ \A i \in DOMAIN postorder :
             \/ postorder[i] = root /\ i = Len(postorder) /\ calls = <<>>
             \/ \E p \in entered : Links(p, postorder[i]) /\ \A j \in 1 .. i : postorder[j] # p
    BY <2>1 DEF Callers
  <2>4. \A a, b : Links(a, b)' <=> Links(a, b)
    BY <2>1, DomFixed
  <2>5. entered = Calling \cup Returned /\ Calling \cap Returned = {}
        /\ \A i, j \in DOMAIN calls : calls[i].block = calls[j].block => i = j
    BY <2>1 DEF Descent
  <2>6. \A i \in DOMAIN calls' : IF i = 1 THEN calls'[i].block = root'
                                 ELSE Links(calls[i - 1].block, calls[i].block)'
    <3> SUFFICES ASSUME NEW i \in DOMAIN calls'
                 PROVE  IF i = 1 THEN calls'[i].block = root ELSE Links(calls'[i - 1].block, calls'[i].block)
      BY <2>1, <2>4
    <3>1. i # 1 => i - 1 \in DOMAIN calls'
      BY <2>1, <2>2
    <3> QED BY <2>1, <2>3, <3>1
  <2>7. \A i \in DOMAIN postorder :
          \E p \in entered : Links(p, postorder[i]) /\ \A j \in 1 .. i : postorder'[j] # p
    <3> SUFFICES ASSUME NEW i \in DOMAIN postorder
                 PROVE  \E p \in entered : Links(p, postorder[i]) /\ \A j \in 1 .. i : postorder'[j] # p
      OBVIOUS
    <3>1. PICK p \in entered : Links(p, postorder[i]) /\ \A j \in 1 .. i : postorder[j] # p
      BY <2>1, <2>3
    <3>2. \A j \in 1 .. i : j \in DOMAIN postorder
      BY <2>1
    <3> QED BY <2>1, <3>1, <3>2
  <2>8. CASE Len(calls) = 1
    <3>1. Caller = root
      BY <2>2, <2>3, <2>8 DEF Caller
    <3>2. calls' = <<>>
      <4>1. DOMAIN calls' = {}
        BY <2>1, <2>8
      <4>2. Len(calls') \in Nat /\ DOMAIN calls' = 1 .. Len(calls')
        BY <2>1, LenProperties
      <4>3. Len(calls') = 0
        BY <4>1, <4>2
      <4> QED BY <2>1, <4>3, EmptySeq
    <3>3. postorder' # <<>> /\ postorder'[Len(postorder')] = root'
      BY <2>1, <3>1
    <3>4. \A i \in DOMAIN postorder' :
            \/ postorder'[i] = root' /\ i = Len(postorder') /\ calls' = <<>>
            \/ \E p \in entered' : Links(p, postorder[i])' /\ \A j \in 1 .. i : postorder'[j] # p
      BY <2>1, <2>4, <2>7, <3>1, <3>2
    <3> QED BY <2>6, <3>3, <3>4 DEF Callers
  <2>9. CASE Len(calls) # 1
    <3> DEFINE p == calls[Len(calls) - 1].block
    <3>1. Len(calls) - 1 \in DOMAIN calls /\ Len(calls) \in DOMAIN calls /\ Len(calls) # 1
      BY <2>2, <2>9
    <3>2. Links(p, Caller) /\ p \in Calling /\ p # Caller
      <4>1. Links(p, Caller)
        BY <2>3, <3>1 DEF Caller
      <4>2. p \in Calling
        BY <3>1 DEF Calling
      <4>3. p # Caller
        <5>1. Len(calls) - 1 # Len(calls)
          <6>1. \A n \in Nat : n - 1 # n
            OBVIOUS
          <6> QED BY <2>2, <6>1
        <5> QED BY <2>5, <3>1, <5>1 DEF Caller
      <4> QED BY <4>1, <4>2, <4>3
    <3> HIDE DEF p
    <3>3. \A j \in 1 .. Len(postorder) + 1 : postorder'[j] # p
      <4> SUFFICES ASSUME NEW j \in 1 .. Len(postorder) + 1 PROVE postorder'[j] # p
        OBVIOUS
      <4>1. CASE j = Len(postorder) + 1
        BY <2>1, <3>2, <4>1
      <4>2. CASE j # Len(postorder) + 1
        <5>1. j \in DOMAIN postorder
          BY <2>1, <4>2
        <5>2. postorder[j] \in Returned
          BY <5>1 DEF Returned
        <5> QED BY <2>1, <2>5, <3>2, <5>1, <5>2
      <4> QED BY <4>1, <4>2
    <3>4. \A i \in DOMAIN postorder' :
            \E q \in entered' : Links(q, postorder[i])' /\ \A j \in 1 .. i : postorder'[j] # q
      <4> SUFFICES ASSUME NEW i \in DOMAIN postorder'
                   PROVE  \E q \in entered' : Links(q, postorder'[i]) /\ \A j \in 1 .. i : postorder'[j] # q
        BY <2>4
      <4>1. CASE i \in DOMAIN postorder
        BY <2>1, <2>7, <4>1
      <4>2. CASE i = Len(postorder) + 1
        <5>1. p \in entered' /\ Links(p, postorder'[i])
          BY <2>1, <2>5, <3>2, <4>2
        <5> QED BY <3>3, <4>2, <5>1
      <4> QED BY <2>1, <4>1, <4>2
    <3>5. calls' # <<>>
      <4>1. 1 \in DOMAIN calls'
        BY <2>1, <2>2, <2>9
      <4> QED BY <4>1
    <3> QED BY <2>6, <3>4, <3>5 DEF Callers
  <2> QED BY <2>8, <2>9
<1>4. CASE UNCHANGED domVars
  <2>1. stage = "order" /\ UNCHANGED <<arcs, root, calls, entered, postorder>>
    BY <1>4 DEF domVars
  <2> QED BY <2>1, DomFixed DEF Callers
<1>5. EndOrder \/ BeginBlock \/ NextPredecessor \/ Climb \/ EndBlock \/ EndPass => FALSE
  BY DEF EndOrder, BeginBlock, NextPredecessor, Climb, EndBlock, EndPass
<1> QED BY <1>1, <1>2, <1>3, <1>4, <1>5 DEF DomNext, DomStep

-----------------------------------------------------------------------------
(* The order.                                                              *)

LEMMA ReverseFacts ==
  ASSUME NEW T, NEW s \in Seq(T)
  PROVE  /\ Reverse(s) \in Seq(T) /\ Len(s) \in Nat
         /\ DOMAIN s = 1 .. Len(s) /\ DOMAIN Reverse(s) = 1 .. Len(s) /\ Len(Reverse(s)) = Len(s)
         /\ \A i \in 1 .. Len(s) : Reverse(s)[i] = s[(Len(s) - i) + 1]
<1>1. Len(s) \in Nat /\ DOMAIN s = 1 .. Len(s) /\ \A i \in 1 .. Len(s) : s[i] \in T
  BY LenProperties, ElementOfSeq
<1>2. Reverse(s) = [i \in 1 .. Len(s) |-> s[(Len(s) - i) + 1]]
  BY DEF Reverse
<1>3. \A i \in 1 .. Len(s) : s[(Len(s) - i) + 1] \in T
  BY <1>1
<1>4. Reverse(s) \in [1 .. Len(s) -> T]
  BY <1>2, <1>3
<1>5. Reverse(s) \in Seq(T)
  BY <1>1, <1>4, SeqDef
<1>6. DOMAIN Reverse(s) = 1 .. Len(s)
  BY <1>2
<1>7. DOMAIN Reverse(s) = 1 .. Len(Reverse(s)) /\ Len(Reverse(s)) \in Nat
  BY <1>5, LenProperties
<1>8. Len(Reverse(s)) = Len(s)
  <2>1. ASSUME NEW a \in Nat, NEW b \in Nat, 1 .. a = 1 .. b PROVE a = b
    BY <2>1
  <2> QED BY <1>1, <1>6, <1>7, <2>1
<1> QED BY <1>1, <1>2, <1>5, <1>6, <1>8

\* When the first call has returned, the order is there.
LEMMA EndOrderFacts ==
  ASSUME DomTypeOK, Descent, Callers, EndOrder
  PROVE  /\ rpo' \in Seq(Nodes) /\ num' \in [Nodes -> Nat]
         /\ idom' \in [Nodes -> Nodes \cup {NoBlock}]
         /\ stage' = "pass" /\ Nodes' = Nodes /\ root' = root /\ root \in Nodes /\ arcs' = arcs
         /\ Orders'
<1>1. /\ stage = "order" /\ calls = <<>> /\ stage' = "pass" /\ arcs' = arcs /\ root' = root
      /\ rpo' = Reverse(postorder)
      /\ num' = [b \in Nodes |-> IF \E i \in DOMAIN rpo' : rpo'[i] = b
                                   THEN CHOOSE i \in DOMAIN rpo' : rpo'[i] = b
                                   ELSE Cardinality(Nodes) + 1]
      /\ idom' = [b \in Nodes |-> IF b = root THEN root ELSE NoBlock]
  BY DEF EndOrder, Nodes
<1>2. /\ postorder \in Seq(Nodes) /\ entered \in SUBSET Nodes /\ root \in Nodes /\ arcs \in FlowGraphs
  BY <1>1 DEF DomTypeOK
<1>3. Cardinality(Nodes) \in Nat
  <2>1. IsFiniteSet(Nodes)
    BY <1>2, ArcTypes DEF Nodes
  <2> QED BY <2>1, FS_CardinalityType
<1> DEFINE n == Len(postorder)
<1>4. /\ rpo' \in Seq(Nodes) /\ n \in Nat /\ DOMAIN postorder = 1 .. n /\ DOMAIN rpo' = 1 .. n
      /\ \A i \in 1 .. n : rpo'[i] = postorder[(n - i) + 1]
  BY <1>1, <1>2, ReverseFacts
<1>5. entered = Returned
  <2>1. Calling = {}
    BY <1>1 DEF Calling
  <2> QED BY <1>1, <2>1 DEF Descent
<1>6. n # 0 /\ postorder[n] = root
  <2>1. postorder # <<>> /\ postorder[n] = root
    BY <1>1 DEF Callers
  <2> QED BY <1>2, <2>1, EmptySeq
<1> HIDE DEF n
<1>7. \A i, j \in 1 .. n : postorder[i] = postorder[j] => i = j
  BY <1>1, <1>4 DEF Descent
<1>8. \A i, j \in 1 .. n : rpo'[i] = rpo'[j] => i = j
  <2> SUFFICES ASSUME NEW i \in 1 .. n, NEW j \in 1 .. n, rpo'[i] = rpo'[j] PROVE i = j
    OBVIOUS
  <2>1. (n - i) + 1 \in 1 .. n /\ (n - j) + 1 \in 1 .. n
    BY <1>4
  <2>2. (n - i) + 1 = (n - j) + 1
    BY <1>4, <1>7, <2>1
  <2> QED BY <1>4, <2>2
<1>9. \A i \in DOMAIN rpo' : num'[rpo'[i]] = i
  <2> SUFFICES ASSUME NEW i \in DOMAIN rpo' PROVE num'[rpo'[i]] = i
    OBVIOUS
  <2>1. rpo'[i] \in Nodes
    BY <1>4, ElementOfSeq, LenProperties
  <2>2. num'[rpo'[i]] = CHOOSE j \in DOMAIN rpo' : rpo'[j] = rpo'[i]
    BY <1>1, <2>1
  <2>3. \A j \in DOMAIN rpo' : rpo'[j] = rpo'[i] => j = i
    BY <1>4, <1>8
  <2> QED BY <2>2, <2>3
<1>10. num' \in [Nodes -> Nat]
  <2> SUFFICES ASSUME NEW b \in Nodes PROVE num'[b] \in Nat
    BY <1>1
  <2>1. CASE \E i \in DOMAIN rpo' : rpo'[i] = b
    <3>1. PICK i \in DOMAIN rpo' : rpo'[i] = b
      BY <2>1
    <3>2. num'[b] = i /\ i \in Nat
      BY <1>4, <1>9, <3>1
    <3> QED BY <3>2
  <2>2. CASE ~\E i \in DOMAIN rpo' : rpo'[i] = b
    BY <1>1, <1>3, <2>2
  <2> QED BY <2>1, <2>2
<1>11. idom' \in [Nodes -> Nodes \cup {NoBlock}]
  BY <1>1, <1>2
<1>12. Ordered' = Returned
  <2>1. \A i \in 1 .. n : (n - i) + 1 \in 1 .. n /\ (n - ((n - i) + 1)) + 1 = i
    BY <1>4
  <2>2. \A i \in 1 .. n : rpo'[(n - i) + 1] = postorder[i]
    BY <1>4, <2>1
  <2> QED BY <1>4, <2>1, <2>2 DEF Ordered, Returned
<1>13. /\ Nodes' = Nodes
       /\ \A a, b : Links(a, b)' <=> Links(a, b)
       /\ \A a, b : Comes(a, b)' <=> Comes(a, b)
  BY <1>1, DomFixed
<1>14. rpo' # <<>> /\ rpo'[1] = root
  <2>1. 1 \in 1 .. n /\ (n - 1) + 1 = n
    BY <1>4, <1>6
  <2>2. rpo'[1] = root /\ 1 \in DOMAIN rpo'
    BY <1>4, <1>6, <2>1
  <2> QED BY <2>2
<1>15. \A b \in Nodes : b \in Returned <=> Comes(root, b)
  <2>1. root \in entered /\ \A b \in entered : Comes(root, b)
    BY <1>1 DEF Descent
  <2>2. ArcClosed(arcs, entered)
    BY <1>1, <1>5 DEF Descent, ArcClosed, Links, Nodes
  <2>3. \A b : Comes(root, b) => b \in entered
    BY <1>2, <2>1, <2>2 DEF Comes, Route, Nodes
  <2> QED BY <1>5, <2>1, <2>3
<1>16. \A b \in Returned \ {root} : \E p \in Returned : Links(p, b) /\ num'[p] < num'[b]
  <2> SUFFICES ASSUME NEW b \in Returned \ {root} PROVE \E p \in Returned : Links(p, b) /\ num'[p] < num'[b]
    OBVIOUS
  <2>1. PICK i \in 1 .. n : postorder[i] = b
    BY <1>4 DEF Returned
  <2>2. PICK p \in entered : Links(p, b) /\ \A j \in 1 .. i : postorder[j] # p
    BY <1>1, <1>4, <2>1 DEF Callers
  <2>3. PICK k \in 1 .. n : postorder[k] = p
    BY <1>4, <1>5 DEF Returned
  <2>4. k > i
    BY <1>4, <2>2, <2>3
  <2>5. /\ (n - i) + 1 \in 1 .. n /\ (n - k) + 1 \in 1 .. n /\ (n - k) + 1 < (n - i) + 1
        /\ (n - ((n - i) + 1)) + 1 = i /\ (n - ((n - k) + 1)) + 1 = k
    BY <1>4, <2>4
  <2>6. rpo'[(n - i) + 1] = b /\ rpo'[(n - k) + 1] = p
    BY <1>4, <2>1, <2>3, <2>5
  <2>7. num'[b] = (n - i) + 1 /\ num'[p] = (n - k) + 1
    BY <1>4, <1>9, <2>5, <2>6
  <2> QED BY <1>5, <2>2, <2>5, <2>7
<1>17. Orders'
  <2>1. rpo' # <<>> /\ rpo'[1] = root'
    BY <1>1, <1>14
  <2>2. \A b \in Nodes' : b \in Ordered' <=> Comes(root, b)'
    BY <1>1, <1>12, <1>13, <1>15
  <2>3. \A b \in Ordered' \ {root'} : \E p \in Ordered' : Links(p, b)' /\ num'[p] < num'[b]
    BY <1>1, <1>12, <1>13, <1>16
  <2> QED BY <1>9, <2>1, <2>2, <2>3 DEF Orders
<1> QED BY <1>1, <1>2, <1>4, <1>10, <1>11, <1>13, <1>17

\* Nothing after that touches it.
LEMMA OrdersStep == DomTypeOK /\ Descent /\ Callers /\ Orders /\ [DomNext]_domVars => Orders'
<1> SUFFICES ASSUME DomTypeOK, Descent, Callers, Orders, [DomNext]_domVars, stage' \in Passing PROVE Orders'
  BY DEF Orders
<1>1. CASE EndOrder
  BY <1>1, EndOrderFacts
<1>2. CASE UNCHANGED <<arcs, root, rpo, num>> /\ stage \in Passing
  <2>1. Ordered' = Ordered
    BY <1>2 DEF Ordered
  <2> QED BY <1>2, <2>1, DomFixed DEF Orders
<1>3. BeginBlock \/ NextPredecessor \/ Climb \/ EndBlock \/ EndPass \/ UNCHANGED domVars
        => UNCHANGED <<arcs, root, rpo, num>> /\ stage \in Passing
  BY DEF BeginBlock, NextPredecessor, Climb, EndBlock, EndPass, domVars, Passing
<1>4. ~Descend /\ ~Ascend /\ ~\E g \in FlowGraphs : \E e \in DOMAIN g : CallDominators(g, e)
  BY DEF Descend, Ascend, CallDominators, Passing
<1> QED BY <1>1, <1>2, <1>3, <1>4 DEF DomNext, DomStep

-----------------------------------------------------------------------------
(* Blocks in order, paths that avoid a block, and the way up.              *)

LEMMA OrderFacts ==
  ASSUME DomTypeOK, Orders, stage \in Passing
  PROVE  /\ Len(rpo) \in Nat \ {0} /\ DOMAIN rpo = 1 .. Len(rpo)
         /\ \A i \in DOMAIN rpo : rpo[i] \in Nodes /\ rpo[i] \in Ordered
         /\ Ordered \in SUBSET Nodes /\ root \in Ordered /\ num[root] = 1
         /\ \A b \in Ordered : num[b] \in DOMAIN rpo /\ rpo[num[b]] = b
         /\ \A b \in Nodes : num[b] \in Nat
         /\ \A b \in Ordered, c \in Nodes : Links(b, c) => c \in Ordered
<1>1. rpo \in Seq(Nodes) /\ rpo # <<>> /\ rpo[1] = root /\ num \in [Nodes -> Nat]
      /\ \A i \in DOMAIN rpo : num[rpo[i]] = i
  BY DEF DomTypeOK, Orders
<1>2. Len(rpo) \in Nat \ {0} /\ DOMAIN rpo = 1 .. Len(rpo)
  BY <1>1, EmptySeq, LenProperties
<1>3. \A i \in DOMAIN rpo : rpo[i] \in Nodes /\ rpo[i] \in Ordered
  BY <1>1, <1>2, ElementOfSeq DEF Ordered
<1>4. Ordered \in SUBSET Nodes
  BY <1>3 DEF Ordered
<1>5. 1 \in DOMAIN rpo
  BY <1>2
<1>6. root \in Ordered /\ num[root] = 1
  BY <1>1, <1>3, <1>5
<1>7. \A b \in Ordered : num[b] \in DOMAIN rpo /\ rpo[num[b]] = b
  BY <1>1 DEF Ordered
<1>8. \A b \in Ordered, c \in Nodes : Links(b, c) => c \in Ordered
  <2> SUFFICES ASSUME NEW b \in Ordered, NEW c \in Nodes, Links(b, c) PROVE c \in Ordered
    OBVIOUS
  <2>1. Comes(root, b) /\ Comes(b, c)
    BY <1>4, DomPaths DEF Orders
  <2> QED BY <2>1, DomPaths DEF Orders
<1>9. \A b \in Nodes : num[b] \in Nat
  BY <1>1
<1> QED BY <1>2, <1>3, <1>4, <1>6, <1>7, <1>8, <1>9

\* A graph without the arcs that leave a block.
LEMMA WithoutFacts ==
  ASSUME NEW g \in FlowGraphs, NEW a
  PROVE  /\ Without(g, a) \in FlowGraphs /\ DOMAIN Without(g, a) = DOMAIN g
         /\ \A b \in DOMAIN g : \A c : Arc(Without(g, a), b, c) <=> b # a /\ Arc(g, b, c)
<1>1. PICK n \in Nat : g \in [0 .. n - 1 -> Seq(0 .. n - 1)]
  BY DEF FlowGraphs
<1>2. DOMAIN g = 0 .. n - 1
  BY <1>1
<1>3. Without(g, a) \in [0 .. n - 1 -> Seq(0 .. n - 1)]
  <2>1. <<>> \in Seq(0 .. n - 1)
    BY EmptySeq
  <2>2. \A b \in 0 .. n - 1 : (IF b = a THEN <<>> ELSE g[b]) \in Seq(0 .. n - 1)
    BY <1>1, <2>1
  <2> QED BY <1>2, <2>2 DEF Without
<1>4. Without(g, a) \in FlowGraphs
  BY <1>1, <1>3 DEF FlowGraphs
<1>5. \A b \in DOMAIN g : Without(g, a)[b] = IF b = a THEN <<>> ELSE g[b]
  BY DEF Without
<1>6. DOMAIN Without(g, a) = DOMAIN g
  BY DEF Without
<1>7. \A b \in DOMAIN g : \A c : Arc(Without(g, a), b, c) <=> b # a /\ Arc(g, b, c)
  <2> SUFFICES ASSUME NEW b \in DOMAIN g, NEW c PROVE Arc(Without(g, a), b, c) <=> b # a /\ Arc(g, b, c)
    OBVIOUS
  <2>1. CASE b = a
    <3>1. Without(g, a)[b] = <<>> /\ DOMAIN <<>> = {}
      BY <1>5, <2>1
    <3> QED BY <2>1, <3>1 DEF Arc
  <2>2. CASE b # a
    BY <1>5, <2>2 DEF Arc
  <2> QED BY <2>1, <2>2
<1> QED BY <1>4, <1>6, <1>7

\* A path that avoids a block goes on.
LEMMA FreeFacts ==
  ASSUME DomTypeOK, stage # "idle", NEW a \in Nodes
  PROVE  /\ Free(a, root)
         /\ \A b, c \in Nodes : Free(a, b) /\ b # a /\ Links(b, c) => Free(a, c)
<1>1. /\ arcs \in FlowGraphs /\ DOMAIN Without(arcs, a) = Nodes
      /\ \A b \in Nodes : \A c : Arc(Without(arcs, a), b, c) <=> b # a /\ Arc(arcs, b, c)
  <2>1. arcs \in FlowGraphs
    BY DEF DomTypeOK
  <2> QED BY <2>1, WithoutFacts DEF Nodes
<1>2. Free(a, root)
  BY Routes DEF Free
<1>3. \A b, c \in Nodes : Free(a, b) /\ b # a /\ Links(b, c) => Free(a, c)
  <2> SUFFICES ASSUME NEW b \in Nodes, NEW c \in Nodes, Free(a, b), b # a, Links(b, c) PROVE Free(a, c)
    OBVIOUS
  <2>1. Route(Without(arcs, a), b, c)
    BY <1>1, Routes DEF Links
  <2> QED BY <2>1, Routes DEF Free
<1> QED BY <1>2, <1>3

\* What every path to a block goes through, every path to its predecessors goes through.
LEMMA ForcedBefore ==
  ASSUME DomTypeOK, stage # "idle", NEW a \in Nodes, NEW b \in Nodes, NEW p \in Nodes,
         Links(p, b), a # b, Forced(a, b)
  PROVE  Forced(a, p)
BY FreeFacts DEF Forced

\* Every block is led to by a path of earlier ones.
LEMMA NotLater ==
  ASSUME DomTypeOK, Orders, stage \in Passing, NEW a \in Ordered, NEW b \in Ordered, num[b] < num[a]
  PROVE  ~Forced(a, b)
<1>1. stage # "idle" /\ Ordered \in SUBSET Nodes /\ \A c \in Ordered : num[c] \in Nat
  BY OrderFacts DEF Passing
<1>2. ASSUME NEW c \in Ordered, num[c] < num[a], ~Free(a, c) PROVE FALSE
  <2> DEFINE S == {num[d] : d \in {e \in Ordered : num[e] < num[a] /\ ~Free(a, e)}}
  <2>1. S \in SUBSET Nat /\ S # {}
    BY <1>1, <1>2
  <2>2. PICK m \in S : \A k \in S : m <= k
    BY <2>1, LeastExists
  <2>3. PICK d \in Ordered : num[d] = m /\ num[d] < num[a] /\ ~Free(a, d)
    BY <2>2
  <2>4. d # root
    BY <1>1, <2>3, FreeFacts
  <2>5. PICK p \in Ordered : Links(p, d) /\ num[p] < num[d]
    BY <2>3, <2>4 DEF Orders
  <2>6. num[p] \in Nat /\ num[d] \in Nat /\ num[a] \in Nat
    BY <1>1
  <2>7. num[p] < num[a] /\ p # a
    BY <2>3, <2>5, <2>6
  <2>8. Free(a, p)
    <3>1. CASE ~Free(a, p)
      <4>1. num[p] \in S
        BY <2>7, <3>1
      <4> QED BY <2>2, <2>3, <2>5, <2>6, <4>1
    <3> QED BY <3>1
  <2> QED BY <1>1, <2>3, <2>5, <2>7, <2>8, FreeFacts
<1>3. a # b
  BY <1>1
<1> QED BY <1>2, <1>3 DEF Forced

\* Up the tree: the empty way, a step, and one way after another.
LEMMA OverFacts ==
  ASSUME DomTypeOK, stage \in Passing
  PROVE  /\ \A b : Over(b, b)
         /\ \A b \in Nodes : Above(b) \in Nodes /\ Over(Above(b), b)
         /\ \A a, b, c : Over(a, b) /\ Over(b, c) => Over(a, c)
         /\ DOMAIN UpArcs = Nodes
         /\ \A b \in Nodes : \A c : Arc(UpArcs, b, c) <=> c = Above(b)
<1>1. idom \in [Nodes -> Nodes \cup {NoBlock}]
  BY DEF DomTypeOK
<1>2. \A b \in Nodes : Above(b) \in Nodes
  BY <1>1 DEF Above
<1>3. DOMAIN UpArcs = Nodes /\ \A b \in Nodes : UpArcs[b] = <<Above(b)>>
  BY DEF UpArcs
<1>4. \A x : DOMAIN <<x>> = {1} /\ <<x>>[1] = x
  OBVIOUS
<1>5. \A b \in Nodes : \A c : Arc(UpArcs, b, c) <=> c = Above(b)
  BY <1>3, <1>4 DEF Arc
<1>6. \A b \in Nodes : Over(Above(b), b)
  BY <1>2, <1>3, <1>5, Routes DEF Over
<1>7. \A b : Over(b, b)
  BY Routes DEF Over
<1>8. \A a, b, c : Over(a, b) /\ Over(b, c) => Over(a, c)
  BY Routes DEF Over
<1> QED BY <1>2, <1>3, <1>5, <1>6, <1>7, <1>8

\* Up is earlier.
LEMMA OverEarlier ==
  ASSUME DomTypeOK, Orders, Climbs, stage \in Passing,
         NEW q \in Ordered, idom[q] # NoBlock, NEW x, Over(x, q)
  PROVE  x \in Ordered /\ idom[x] # NoBlock /\ num[x] <= num[q]
<1> DEFINE S == {y \in Ordered : idom[y] # NoBlock /\ num[y] <= num[q]}
<1>1. Ordered \in SUBSET Nodes /\ \A y \in Nodes : num[y] \in Nat
  BY OrderFacts
<1>2. q \in S /\ S \in SUBSET Nodes
  BY <1>1
<1>3. \A y \in S : Above(y) \in S
  <2> SUFFICES ASSUME NEW y \in S PROVE Above(y) \in S
    OBVIOUS
  <2>1. Above(y) = idom[y]
    BY DEF Above
  <2>2. CASE y = root
    BY <2>1, <2>2 DEF Climbs
  <2>3. CASE y # root
    <3>1. idom[y] \in Ordered /\ idom[idom[y]] # NoBlock /\ num[idom[y]] < num[y]
      BY <1>1, <2>3 DEF Climbs
    <3>2. num[idom[y]] \in Nat /\ num[y] \in Nat /\ num[q] \in Nat
      BY <1>1, <3>1
    <3> QED BY <2>1, <3>1, <3>2
  <2> QED BY <2>2, <2>3
<1> HIDE DEF S
<1>4. ArcClosed(UpArcs, S)
  BY <1>2, <1>3, OverFacts DEF ArcClosed
<1>5. x \in S
  BY <1>2, <1>4, OverFacts DEF Over, Route
<1> QED BY <1>5 DEF S

\* The processed predecessors of a block.
LEMMA ProcessedFacts ==
  ASSUME DomTypeOK, Orders, Climbs, stage \in Passing, NEW b \in Nodes
  PROVE  /\ \A p : p \in Processed(b) <=> p \in Nodes /\ idom[p] # NoBlock /\ Links(p, b)
         /\ Processed(b) \in SUBSET Ordered
<1>1. \A p : p \in Processed(b) <=> p \in Nodes /\ idom[p] # NoBlock /\ Links(p, b)
  BY DEF Processed, Nodes, Links, Arc
<1>2. \A p \in Nodes : idom[p] # NoBlock => p \in Ordered
  BY OrderFacts DEF Climbs
<1> QED BY <1>1, <1>2

\* When a pass is at a block, an earlier predecessor is processed.
LEMMA EarlierProcessed ==
  ASSUME DomTypeOK, Orders, Climbs, Passed, stage \in {"pass", "meet"}, at <= Len(rpo)
  PROVE  /\ at \in DOMAIN rpo /\ rpo[at] \in Ordered /\ rpo[at] \in Nodes /\ num[rpo[at]] = at /\ rpo[at] # root
         /\ \E p \in Processed(rpo[at]) : num[p] < at
<1>1. stage \in Passing /\ at \in Nat \ {0, 1}
  BY DEF Passing, DomTypeOK
<1>2. at \in DOMAIN rpo
  BY <1>1, OrderFacts
<1>3. rpo[at] \in Ordered /\ rpo[at] \in Nodes /\ num[rpo[at]] = at
  BY <1>1, <1>2, OrderFacts DEF Orders
<1>4. rpo[at] # root
  BY <1>1, <1>3, OrderFacts
<1>5. PICK p \in Ordered : Links(p, rpo[at]) /\ num[p] < at
  BY <1>1, <1>3, <1>4 DEF Orders
<1>6. num[p] \in DOMAIN rpo /\ rpo[num[p]] = p /\ p \in Nodes
  BY <1>1, OrderFacts
<1>7. idom[p] # NoBlock
  BY <1>1, <1>5, <1>6 DEF Passed
<1> QED BY <1>1, <1>2, <1>3, <1>4, <1>5, <1>6, <1>7, ProcessedFacts

\* A set of blocks has a lowest one.
LEMMA LowestFacts ==
  ASSUME DomTypeOK, stage # "idle", NEW S \in SUBSET Nodes, S # {}
  PROVE  Lowest(S) \in S
<1>1. Nodes \subseteq Nat
  <2>1. arcs \in FlowGraphs /\ root \in DOMAIN arcs
    BY DEF DomTypeOK, Nodes
  <2> QED BY <2>1, ArcTypes DEF Nodes
<1>2. \E p \in S : \A q \in S : p <= q
  BY <1>1, LeastExists
<1> QED BY <1>2 DEF Lowest


-----------------------------------------------------------------------------
(* The meeting of predecessors.                                            *)

LEMMA SameTree ==
  ASSUME arcs' = arcs, root' = root, idom' = idom
  PROVE  /\ Nodes' = Nodes
         /\ \A a, b : Forced(a, b)' <=> Forced(a, b)
         /\ \A a, b : Over(a, b)' <=> Over(a, b)
         /\ \A b : Processed(b)' = Processed(b)
         /\ \A b : Above(b)' = Above(b)
<1>1. Nodes' = Nodes
  BY DEF Nodes
<1>2. \A a, b : Forced(a, b)' <=> Forced(a, b)
  BY DEF Forced, Free
<1>3. UpArcs' = UpArcs
  BY <1>1 DEF UpArcs, Above
<1>4. \A a, b : Over(a, b)' <=> Over(a, b)
  BY <1>3 DEF Over
<1>5. \A b : Processed(b)' = Processed(b)
  BY DEF Processed
<1>6. \A b : Above(b)' = Above(b)
  BY DEF Above
<1> QED BY <1>1, <1>2, <1>4, <1>5, <1>6

\* A pass that is at a block: it has a processed predecessor, so the meeting begins.
LEMMA BeginBlockFacts ==
  ASSUME DomTypeOK, Orders, Climbs, Passed, BeginBlock
  PROVE  /\ UNCHANGED <<arcs, root, rpo, num, idom, at, changed, tree>>
         /\ stage = "pass" /\ stage' = "meet" /\ at <= Len(rpo)
         /\ \E p \in Processed(rpo[at]) :
              one' = p /\ other' = p /\ others' = Processed(rpo[at]) \ {p}
<1> DEFINE known == Processed(rpo[at])
<1>1. stage = "pass" /\ at <= Len(rpo) /\ UNCHANGED <<arcs, root, rpo, num, idom, changed, tree>>
  BY DEF BeginBlock
<1>2. rpo[at] \in Nodes /\ known # {}
  BY <1>1, EarlierProcessed
<1>3. stage \in Passing /\ stage # "idle"
  BY <1>1 DEF Passing
<1>4. known \in SUBSET Nodes
  BY <1>2, <1>3, ProcessedFacts
<1>5. Lowest(known) \in known
  BY <1>2, <1>3, <1>4, LowestFacts
<1>6. /\ one' = Lowest(known) /\ other' = Lowest(known) /\ others' = known \ {Lowest(known)}
      /\ stage' = "meet" /\ UNCHANGED at
  BY <1>2 DEF BeginBlock
<1> QED BY <1>1, <1>5, <1>6

\* The two that meet are in order; the one that climbs has a block above it, which is earlier.
LEMMA MeetingFacts ==
  ASSUME DomTypeOK, Orders, Climbs, Meets, stage = "meet", NEW x \in {one, other}
  PROVE  /\ x \in Ordered /\ x \in Nodes /\ idom[x] # NoBlock /\ Above(x) = idom[x]
         /\ num[x] \in Nat \ {0}
         /\ Above(x) \in Ordered /\ Above(x) \in Nodes /\ idom[Above(x)] # NoBlock
         /\ Over(Above(x), x)
         /\ x # root => num[Above(x)] < num[x]
<1>1. stage \in Passing
  BY DEF Passing
<1>2. x \in Ordered /\ idom[x] # NoBlock
  BY DEF Meets
<1>3. x \in Nodes /\ num[x] \in Nat \ {0}
  <2>1. x \in Nodes /\ num[x] \in 1 .. Len(rpo) /\ Len(rpo) \in Nat
    BY <1>1, <1>2, OrderFacts
  <2> QED BY <2>1
<1>4. Above(x) = idom[x]
  BY <1>2 DEF Above
<1>5. Above(x) \in Nodes /\ Over(Above(x), x)
  BY <1>1, <1>3, OverFacts
<1>6. CASE x = root
  <2>1. idom[x] = x
    BY <1>1, <1>6 DEF Climbs
  <2> QED BY <1>2, <1>3, <1>4, <1>5, <1>6, <2>1
<1>7. CASE x # root
  <2>1. idom[x] \in Ordered /\ idom[idom[x]] # NoBlock /\ num[idom[x]] < num[x]
    BY <1>1, <1>2, <1>3, <1>7 DEF Climbs
  <2> QED BY <1>2, <1>3, <1>4, <1>5, <2>1
<1> QED BY <1>6, <1>7

\* Of two that meet the later one is not the entry.
LEMMA LaterClimbs ==
  ASSUME DomTypeOK, Orders, Climbs, Meets, stage = "meet",
         NEW x \in {one, other}, NEW y \in {one, other}, num[x] > num[y]
  PROVE  /\ x # root
         /\ \A a \in Nodes : Forced(a, x) /\ Forced(a, y) => Forced(a, Above(x))
<1>1. stage \in Passing
  BY DEF Passing
<1>2. x # root
  <2>1. num[root] = 1
    BY <1>1, OrderFacts
  <2>2. num[x] \in Nat \ {0} /\ num[y] \in Nat \ {0}
    BY MeetingFacts
  <2>3. num[x] # 1
    BY <2>2
  <2> QED BY <2>1, <2>3
<1>3. x \in Ordered /\ y \in Ordered /\ x \in Nodes /\ idom[x] # NoBlock /\ Above(x) = idom[x]
  BY MeetingFacts
<1>4. ~Forced(x, y)
  <2>1. num[y] < num[x]
    <3>1. num[x] \in Nat /\ num[y] \in Nat
      BY MeetingFacts
    <3> QED BY <3>1
  <2> QED BY <1>1, <1>3, <2>1, NotLater
<1>5. \A a \in Nodes : a # x /\ Forced(a, x) => Forced(a, idom[x])
  BY <1>1, <1>2, <1>3 DEF Climbs
<1> QED BY <1>2, <1>3, <1>4, <1>5

\* The step of intersect.
LEMMA ClimbFacts ==
  ASSUME DomTypeOK, Orders, Climbs, Meets, Climb
  PROVE  /\ UNCHANGED <<arcs, root, stage, rpo, num, idom, at, changed, others, tree>>
         /\ stage = "meet" /\ one # other
         /\ \/ num[one] > num[other] /\ one' = Above(one) /\ other' = other
            \/ num[other] > num[one] /\ other' = Above(other) /\ one' = one
BY DEF Climb

\* Two blocks that meet and differ have different numbers.
LEMMA MeetingDiffers ==
  ASSUME DomTypeOK, Orders, Climbs, Meets, stage = "meet", one # other
  PROVE  num[one] # num[other]
<1>1. one \in Ordered /\ other \in Ordered
  BY MeetingFacts
<1>2. rpo[num[one]] = one /\ rpo[num[other]] = other
  BY <1>1, OrderFacts DEF Passing
<1> QED BY <1>2

\* The next predecessor.
LEMMA NextPredecessorFacts ==
  ASSUME DomTypeOK, Orders, Climbs, Meets, NextPredecessor
  PROVE  /\ UNCHANGED <<arcs, root, stage, rpo, num, idom, at, changed, one, tree>>
         /\ stage = "meet" /\ one = other
         /\ other' \in others /\ others' = others \ {other'} /\ other' \in Processed(rpo[at])
<1>1. /\ UNCHANGED <<arcs, root, stage, rpo, num, idom, at, changed, one, tree>>
      /\ stage = "meet" /\ one = other /\ others # {}
      /\ other' = Lowest(others) /\ others' = others \ {Lowest(others)}
  BY DEF NextPredecessor
<1>2. others \in SUBSET Nodes /\ stage # "idle"
  BY <1>1 DEF DomTypeOK
<1>3. Lowest(others) \in others
  BY <1>1, <1>2, LowestFacts
<1>4. others \subseteq Processed(rpo[at])
  BY <1>1 DEF Meets
<1> QED BY <1>1, <1>3, <1>4

LEMMA MeetsStep == DomTypeOK /\ Orders /\ Climbs /\ Passed /\ Meets /\ [DomNext]_domVars => Meets'
<1> SUFFICES ASSUME DomTypeOK, Orders, Climbs, Passed, Meets, [DomNext]_domVars, stage' = "meet"
             PROVE Meets'
  BY DEF Meets
<1>1. CASE BeginBlock
  <2>1. /\ UNCHANGED <<arcs, root, rpo, num, idom, at, changed, tree>>
        /\ stage = "pass" /\ at <= Len(rpo)
    BY <1>1, BeginBlockFacts
  <2>2. PICK p \in Processed(rpo[at]) : one' = p /\ other' = p /\ others' = Processed(rpo[at]) \ {p}
    BY <1>1, BeginBlockFacts
  <2>3. rpo[at] \in Nodes /\ stage \in Passing /\ stage # "idle"
    BY <2>1, EarlierProcessed DEF Passing
  <2>4. p \in Nodes /\ idom[p] # NoBlock /\ Links(p, rpo[at]) /\ p \in Ordered
    BY <2>2, <2>3, ProcessedFacts
  <2>5. \A a \in Nodes : a # rpo[at] /\ Forced(a, rpo[at]) => Forced(a, p)
    BY <2>3, <2>4, ForcedBefore
  <2>6. /\ Nodes' = Nodes
        /\ \A a, b : Forced(a, b)' <=> Forced(a, b)
        /\ \A a, b : Over(a, b)' <=> Over(a, b)
        /\ Processed(rpo[at])' = Processed(rpo[at])
    <3>1. \A b : Processed(b)' = Processed(b)
      BY <2>1, SameTree
    <3>2. Processed(rpo[at])' = Processed(rpo[at])
      BY <2>1 DEF Processed
    <3> QED BY <2>1, <3>2, SameTree
  <2>7. Ordered' = Ordered
    BY <2>1 DEF Ordered
  <2>8. Over(p, p)
    BY <2>3, OverFacts
  <2>9. \A x \in {one', other'} : x \in Ordered' /\ idom'[x] # NoBlock
    BY <2>1, <2>2, <2>4, <2>7
  <2>10. others' \subseteq Processed(rpo[at])'
    BY <2>2, <2>6
  <2>11. \A a \in Nodes' : a # rpo'[at'] /\ Forced(a, rpo[at])' => Forced(a, one)' /\ Forced(a, other)'
    <3>1. \A a : Forced(a, rpo[at])' <=> Forced(a, rpo[at])
      BY <2>1 DEF Forced, Free
    <3>2. \A a : (Forced(a, one)' <=> Forced(a, p)) /\ (Forced(a, other)' <=> Forced(a, p))
      BY <2>1, <2>2 DEF Forced, Free
    <3> QED BY <2>1, <2>5, <2>6, <3>1, <3>2
  <2>12. \E c \in Processed(rpo[at])' \ others' :
            /\ Over(other, c)'
            /\ \A q \in Processed(rpo[at])' \ others' : q # c => Over(one, q)'
    <3>1. Processed(rpo[at])' \ others' = {p}
      BY <2>2, <2>6
    <3>2. Over(other, p)'
      <4>1. UpArcs' = UpArcs
        BY <2>1 DEF UpArcs, Above, Nodes
      <4> QED BY <2>2, <2>8, <4>1 DEF Over
    <3> QED BY <3>1, <3>2
  <2> QED BY <2>9, <2>10, <2>11, <2>12 DEF Meets
<1>2. CASE NextPredecessor \/ Climb \/ UNCHANGED domVars
  <2>1. UNCHANGED <<arcs, root, stage, rpo, num, idom, at>> /\ stage = "meet"
    BY <1>2 DEF NextPredecessor, Climb, domVars
  <2>2. stage \in Passing
    BY <2>1 DEF Passing
  <2>3. Processed(rpo[at])' = Processed(rpo[at]) /\ Nodes' = Nodes /\ UpArcs' = UpArcs /\ Ordered' = Ordered
    BY <2>1 DEF Processed, Nodes, UpArcs, Above, Ordered
  <2>4. /\ \A a : Forced(a, rpo[at])' <=> Forced(a, rpo[at])
        /\ \A a : Forced(a, one)' <=> Forced(a, one')
        /\ \A a : Forced(a, other)' <=> Forced(a, other')
    BY <2>1 DEF Forced, Free
  <2>5. /\ \A q : Over(one, q)' <=> Over(one', q)
        /\ \A q : Over(other, q)' <=> Over(other', q)
    BY <2>3 DEF Over
  <2> DEFINE P == Processed(rpo[at])
  <2>6. /\ \A x \in {one, other} : x \in Ordered /\ idom[x] # NoBlock
        /\ others \subseteq P
        /\ \A a \in Nodes : a # rpo[at] /\ Forced(a, rpo[at]) => Forced(a, one) /\ Forced(a, other)
    BY <2>1 DEF Meets
  <2>7. PICK c \in P \ others : Over(other, c) /\ \A q \in P \ others : q # c => Over(one, q)
    BY <2>1 DEF Meets
  <2>8. SUFFICES /\ \A x \in {one', other'} : x \in Ordered /\ idom[x] # NoBlock
                 /\ others' \subseteq P
                 /\ \A a \in Nodes : a # rpo[at] /\ Forced(a, rpo[at])
                                       => Forced(a, one') /\ Forced(a, other')
                 /\ \E d \in P \ others' : Over(other', d) /\ \A q \in P \ others' : q # d => Over(one', q)
    <3>1. rpo'[at'] = rpo[at]
      BY <2>1
    <3>2. \A x \in {one', other'} : x \in Ordered' /\ idom'[x] # NoBlock
      BY <2>1, <2>3, <2>8
    <3>3. others' \subseteq Processed(rpo[at])'
      BY <2>3, <2>8
    <3>4. \A a \in Nodes' : a # rpo'[at'] /\ Forced(a, rpo[at])' => Forced(a, one)' /\ Forced(a, other)'
      BY <2>3, <2>4, <2>8, <3>1
    <3>5. \E d \in Processed(rpo[at])' \ others' :
            /\ Over(other, d)'
            /\ \A q \in Processed(rpo[at])' \ others' : q # d => Over(one, q)'
      <4>1. PICK d \in P \ others' : Over(other', d) /\ \A q \in P \ others' : q # d => Over(one', q)
        BY <2>8
      <4>2. d \in Processed(rpo[at])' \ others'
        BY <2>3, <4>1
      <4>3. \A q \in Processed(rpo[at])' \ others' : q # d => Over(one, q)'
        BY <2>3, <2>5, <4>1
      <4>4. Over(other, d)'
        BY <2>5, <4>1
      <4> QED BY <4>2, <4>3, <4>4
    <3> QED BY <3>2, <3>3, <3>4, <3>5 DEF Meets
  <2> HIDE DEF P
  <2>9. CASE NextPredecessor
    <3>1. /\ one' = one /\ one = other
          /\ other' \in others /\ others' = others \ {other'} /\ other' \in P
      BY <2>9, NextPredecessorFacts DEF P
    <3>2. rpo[at] \in Nodes
      <4>1. at \in DOMAIN rpo
        BY <2>1, <2>2, OrderFacts DEF DomTypeOK
      <4> QED BY <2>2, <4>1, OrderFacts
    <3>3. other' \in Ordered /\ other' \in Nodes /\ idom[other'] # NoBlock /\ Links(other', rpo[at])
      BY <2>2, <3>1, <3>2, ProcessedFacts DEF P
    <3>4. \A a \in Nodes : a # rpo[at] /\ Forced(a, rpo[at]) => Forced(a, other')
      <4>1. stage # "idle"
        BY <2>1
      <4> QED BY <3>2, <3>3, <4>1, ForcedBefore
    <3>5. Over(other', other')
      BY <2>2, OverFacts
    <3>6. \A q \in P \ others' : q # other' => Over(one', q)
      BY <2>7, <3>1
    <3>7. other' \in P \ others'
      BY <3>1
    <3> QED BY <2>6, <3>1, <3>3, <3>4, <3>5, <3>6, <3>7
  <2>10. CASE Climb
    <3>1. others' = others /\ one # other
      BY <2>10, ClimbFacts
    <3>2. \A a, b, d : Over(a, b) /\ Over(b, d) => Over(a, d)
      BY <2>2, OverFacts
    <3>3. CASE num[one] > num[other] /\ one' = Above(one) /\ other' = other
      <4>1. Above(one) \in Ordered /\ idom[Above(one)] # NoBlock /\ Over(Above(one), one)
        BY <2>1, MeetingFacts
      <4>2. \A a \in Nodes : Forced(a, one) /\ Forced(a, other) => Forced(a, Above(one))
        BY <2>1, <3>3, LaterClimbs
      <4>3. \A q \in P \ others' : q # c => Over(one', q)
        BY <2>7, <3>1, <3>2, <3>3, <4>1
      <4> QED BY <2>6, <2>7, <3>1, <3>3, <4>1, <4>2, <4>3
    <3>4. CASE num[other] > num[one] /\ other' = Above(other) /\ one' = one
      <4>1. Above(other) \in Ordered /\ idom[Above(other)] # NoBlock /\ Over(Above(other), other)
        BY <2>1, MeetingFacts
      <4>2. \A a \in Nodes : Forced(a, other) /\ Forced(a, one) => Forced(a, Above(other))
        BY <2>1, <3>4, LaterClimbs
      <4>3. Over(other', c)
        BY <2>7, <3>2, <3>4, <4>1
      <4> QED BY <2>6, <2>7, <3>1, <3>4, <4>1, <4>2, <4>3
    <3> QED BY <2>10, <3>3, <3>4, ClimbFacts
  <2>11. CASE UNCHANGED domVars
    BY <2>6, <2>7, <2>11 DEF domVars
  <2> QED BY <1>2, <2>9, <2>10, <2>11
<1>3. ~Descend /\ ~Ascend /\ ~EndOrder /\ ~EndBlock /\ ~EndPass
      /\ ~\E g \in FlowGraphs : \E e \in DOMAIN g : CallDominators(g, e)
  BY DEF Descend, Ascend, EndOrder, EndBlock, EndPass, CallDominators
<1> QED BY <1>1, <1>2, <1>3 DEF DomNext, DomStep

\* The block above gets a value: one that is earlier, and above every processed predecessor.
LEMMA EndBlockFacts ==
  ASSUME DomTypeOK, Orders, Climbs, Passed, Meets, EndBlock
  PROVE  \E b \in Ordered \ {root} :
           /\ UNCHANGED <<arcs, root, rpo, num, tree>>
           /\ stage = "meet" /\ stage' = "pass" /\ at' = at + 1 /\ at \in DOMAIN rpo
           /\ b = rpo[at] /\ b \in Nodes /\ num[b] = at
           /\ idom' \in [Nodes -> Nodes \cup {NoBlock}] /\ idom'[b] = one
           /\ \A x \in Nodes : x # b => idom'[x] = idom[x]
           /\ one \in Ordered /\ one \in Nodes /\ one # NoBlock /\ idom[one] # NoBlock
           /\ one # b /\ num[one] < num[b]
           /\ \A a \in Nodes : a # b /\ Forced(a, b) => Forced(a, one)
           /\ \A q \in Processed(b) : Over(one, q)
           /\ changed' = (changed \/ idom[b] # one)
           /\ idom[b] = one => idom' = idom
<1> DEFINE b == rpo[at]
<1>1. /\ UNCHANGED <<arcs, root, rpo, num, tree>>
      /\ stage = "meet" /\ one = other /\ others = {} /\ stage' = "pass" /\ at' = at + 1
      /\ idom' = [idom EXCEPT ![b] = one]
      /\ changed' = (changed \/ idom[b] # one)
  BY DEF EndBlock
<1>2. stage \in Passing /\ at <= Len(rpo) /\ idom \in [Nodes -> Nodes \cup {NoBlock}]
  BY <1>1 DEF Passing, DomTypeOK
<1>3. /\ at \in DOMAIN rpo /\ b \in Ordered /\ b \in Nodes /\ num[b] = at /\ b # root
      /\ \E p \in Processed(b) : num[p] < at
  BY <1>1, <1>2, EarlierProcessed
<1>4. one \in Ordered /\ one \in Nodes /\ idom[one] # NoBlock
  BY <1>1, MeetingFacts
<1>5. one # NoBlock
  <2>1. arcs \in FlowGraphs /\ root \in DOMAIN arcs
    BY <1>1 DEF DomTypeOK, Nodes
  <2>2. one \in Nat
    BY <1>4, <2>1, ArcTypes DEF Nodes
  <2> QED BY <2>2 DEF NoBlock
<1>6. \A q \in Processed(b) : Over(one, q)
  <2>1. \E c \in Processed(b) \ others :
         /\ Over(other, c)
         /\ \A q \in Processed(b) \ others : q # c => Over(one, q)
    BY <1>1 DEF Meets
  <2> QED BY <1>1, <2>1
<1>7. PICK p \in Processed(b) : num[p] < at
  BY <1>3
<1>8. p \in Ordered /\ idom[p] # NoBlock
  BY <1>2, <1>3, <1>7, ProcessedFacts
<1>9. num[one] < num[b]
  <2>1. num[one] <= num[p]
    BY <1>2, <1>6, <1>7, <1>8, OverEarlier
  <2>2. num[one] \in Nat /\ num[p] \in Nat /\ num[b] \in Nat
    BY <1>2, <1>3, <1>4, <1>8, OrderFacts
  <2> QED BY <1>3, <1>7, <2>1, <2>2
<1>10. one # b
  <2>1. num[b] \in Nat
    BY <1>2, <1>3, OrderFacts
  <2> QED BY <1>9, <2>1
<1>11. \A a \in Nodes : a # b /\ Forced(a, b) => Forced(a, one)
  BY <1>1 DEF Meets
<1> HIDE DEF b
<1>12. /\ idom' \in [Nodes -> Nodes \cup {NoBlock}] /\ idom'[b] = one
       /\ \A x \in Nodes : x # b => idom'[x] = idom[x]
       /\ idom[b] = one => idom' = idom
  BY <1>1, <1>2, <1>3, <1>4
<1>13. b = rpo[at]
  BY DEF b
<1> QED BY <1>1, <1>3, <1>4, <1>5, <1>6, <1>9, <1>10, <1>11, <1>12, <1>13

LEMMA ClimbsStep ==
  DomTypeOK /\ Descent /\ Callers /\ Orders /\ Climbs /\ Passed /\ Meets /\ [DomNext]_domVars => Climbs'
<1> SUFFICES ASSUME DomTypeOK, Descent, Callers, Orders, Climbs, Passed, Meets, [DomNext]_domVars,
                    stage' \in Passing
             PROVE Climbs'
  BY DEF Climbs, Passing
<1>1. CASE EndOrder
  <2>1. Nodes' = Nodes /\ root' = root /\ root \in Nodes
    BY <1>1, EndOrderFacts
  <2>2. idom' = [b \in Nodes |-> IF b = root THEN root ELSE NoBlock]
    BY <1>1 DEF EndOrder, Nodes
  <2>3. idom'[root'] = root' /\ \A b \in Nodes' \ {root'} : idom'[b] = NoBlock
    BY <2>1, <2>2
  <2> QED BY <2>3 DEF Climbs
<1>2. CASE EndBlock
  <2>1. PICK b \in Ordered \ {root} :
           /\ UNCHANGED <<arcs, root, rpo, num, tree>>
           /\ stage = "meet" /\ stage' = "pass" /\ at' = at + 1 /\ at \in DOMAIN rpo
           /\ b = rpo[at] /\ b \in Nodes /\ num[b] = at
           /\ idom' \in [Nodes -> Nodes \cup {NoBlock}] /\ idom'[b] = one
           /\ \A x \in Nodes : x # b => idom'[x] = idom[x]
           /\ one \in Ordered /\ one \in Nodes /\ one # NoBlock /\ idom[one] # NoBlock
           /\ one # b /\ num[one] < num[b]
           /\ \A a \in Nodes : a # b /\ Forced(a, b) => Forced(a, one)
           /\ \A q \in Processed(b) : Over(one, q)
           /\ changed' = (changed \/ idom[b] # one)
           /\ idom[b] = one => idom' = idom
    BY <1>2, EndBlockFacts
  <2>2. stage \in Passing
    BY <2>1 DEF Passing
  <2>3. Nodes' = Nodes /\ Ordered' = Ordered /\ root' = root /\ num' = num
    BY <2>1 DEF Nodes, Ordered
  <2>4. Ordered \in SUBSET Nodes /\ root \in Nodes
    BY <2>2, OrderFacts
  <2>5. idom'[root] = root
    BY <2>1, <2>2, <2>4 DEF Climbs
  <2>6. ASSUME NEW x \in Nodes \ {root}, idom'[x] # NoBlock
        PROVE  /\ x \in Ordered /\ idom'[x] \in Ordered /\ idom'[idom'[x]] # NoBlock
               /\ num[idom'[x]] < num[x]
               /\ \A a \in Nodes : a # x /\ Forced(a, x) => Forced(a, idom'[x])
    <3>1. CASE x = b
      BY <2>1, <3>1
    <3>2. CASE x # b
      <4>1. idom'[x] = idom[x]
        BY <2>1, <3>2
      <4>2. /\ x \in Ordered /\ idom[x] \in Ordered /\ idom[idom[x]] # NoBlock /\ num[idom[x]] < num[x]
            /\ \A a \in Nodes : a # x /\ Forced(a, x) => Forced(a, idom[x])
        BY <2>2, <2>6, <4>1 DEF Climbs
      <4>3. idom'[idom[x]] # NoBlock
        BY <2>1, <2>4, <4>2
      <4> QED BY <4>1, <4>2, <4>3
    <3> QED BY <3>1, <3>2
  <2>7. \A x \in Nodes' \ {root'} : idom'[x] # NoBlock =>
           \A a \in Nodes' : a # x /\ Forced(a, x)' => Forced(a, idom[x])'
    <3> SUFFICES ASSUME NEW x \in Nodes \ {root}, idom'[x] # NoBlock, NEW a \in Nodes, a # x, Forced(a, x)'
                 PROVE Forced(a, idom[x])'
      BY <2>3
    <3>1. Forced(a, x)
      BY <2>1 DEF Forced, Free
    <3>2. Forced(a, idom'[x])
      BY <2>6, <3>1
    <3> QED BY <2>1, <3>2 DEF Forced, Free
  <2>8. \A x \in Nodes' \ {root'} : idom'[x] # NoBlock =>
           /\ x \in Ordered' /\ idom'[x] \in Ordered' /\ idom'[idom'[x]] # NoBlock
           /\ num'[idom'[x]] < num'[x]
    BY <2>3, <2>6
  <2> QED BY <2>3, <2>5, <2>7, <2>8 DEF Climbs
<1>3. CASE UNCHANGED <<arcs, root, rpo, num, idom>> /\ stage \in Passing
  <2>1. Nodes' = Nodes /\ Ordered' = Ordered
    BY <1>3 DEF Nodes, Ordered
  <2>2. \A a, b : Forced(a, b)' <=> Forced(a, b)
    BY <1>3, SameTree
  <2>3. \A a, b : Forced(a, idom[b])' <=> Forced(a, idom[b])
    BY <1>3 DEF Forced, Free
  <2> QED BY <1>3, <2>1, <2>2, <2>3 DEF Climbs
<1>4. BeginBlock \/ NextPredecessor \/ Climb \/ EndPass \/ UNCHANGED domVars
        => UNCHANGED <<arcs, root, rpo, num, idom>> /\ stage \in Passing
  BY DEF BeginBlock, NextPredecessor, Climb, EndPass, domVars, Passing
<1>5. ~Descend /\ ~Ascend /\ ~\E g \in FlowGraphs : \E e \in DOMAIN g : CallDominators(g, e)
  BY DEF Descend, Ascend, CallDominators, Passing
<1> QED BY <1>1, <1>2, <1>3, <1>4, <1>5 DEF DomNext, DomStep

LEMMA PassedStep ==
  DomTypeOK /\ Descent /\ Callers /\ Orders /\ Climbs /\ Passed /\ Meets /\ [DomNext]_domVars => Passed'
<1> SUFFICES ASSUME DomTypeOK, Descent, Callers, Orders, Climbs, Passed, Meets, [DomNext]_domVars,
                    stage' \in Passing
             PROVE Passed'
  BY DEF Passed, Passing
<1>1. CASE EndOrder
  <2>1. rpo' \in Seq(Nodes) /\ Nodes' = Nodes /\ root' = root /\ root \in Nodes /\ Orders' /\ stage' = "pass"
    BY <1>1, EndOrderFacts
  <2>2. idom' = [b \in Nodes |-> IF b = root THEN root ELSE NoBlock] /\ at' = 2
    BY <1>1 DEF EndOrder, Nodes
  <2>3. rpo'[1] = root
    BY <2>1 DEF Orders, Passing
  <2>4. \A i \in DOMAIN rpo' : i \in Nat \ {0}
    <3>1. DOMAIN rpo' = 1 .. Len(rpo') /\ Len(rpo') \in Nat
      BY <2>1, LenProperties
    <3> QED BY <3>1
  <2>5. \A i \in DOMAIN rpo' : i < 2 => i = 1
    BY <2>4
  <2>6. root # NoBlock
    <3>1. arcs \in FlowGraphs /\ root \in DOMAIN arcs
      BY <1>1 DEF DomTypeOK, Nodes, EndOrder
    <3>2. root \in Nat
      BY <3>1, ArcTypes
    <3> QED BY <3>2 DEF NoBlock
  <2>7. \A i \in DOMAIN rpo' : i < at' => idom'[rpo'[i]] # NoBlock
    BY <2>1, <2>2, <2>3, <2>5, <2>6
  <2> QED BY <2>1, <2>2, <2>5, <2>7 DEF Passed
<1>2. CASE EndBlock
  <2>1. PICK b \in Ordered \ {root} :
           /\ UNCHANGED <<arcs, root, rpo, num, tree>>
           /\ stage = "meet" /\ stage' = "pass" /\ at' = at + 1 /\ at \in DOMAIN rpo
           /\ b = rpo[at] /\ b \in Nodes /\ num[b] = at
           /\ idom' \in [Nodes -> Nodes \cup {NoBlock}] /\ idom'[b] = one
           /\ \A x \in Nodes : x # b => idom'[x] = idom[x]
           /\ one \in Ordered /\ one \in Nodes /\ one # NoBlock /\ idom[one] # NoBlock
           /\ one # b /\ num[one] < num[b]
           /\ \A a \in Nodes : a # b /\ Forced(a, b) => Forced(a, one)
           /\ \A q \in Processed(b) : Over(one, q)
           /\ changed' = (changed \/ idom[b] # one)
           /\ idom[b] = one => idom' = idom
    BY <1>2, EndBlockFacts
  <2>2. stage \in Passing
    BY <2>1 DEF Passing
  <2>3. Nodes' = Nodes
    BY <2>1 DEF Nodes
  <2>4. \A i \in DOMAIN rpo : i < at + 1 => i < at \/ i = at
    <3>1. DOMAIN rpo = 1 .. Len(rpo) /\ Len(rpo) \in Nat
      BY <2>2, OrderFacts
    <3> QED BY <2>1, <3>1
  <2>5. \A i \in DOMAIN rpo : rpo[i] \in Nodes
    BY <2>2, OrderFacts
  <2>6. \A i \in DOMAIN rpo' : i < at' => idom'[rpo'[i]] # NoBlock
    <3> SUFFICES ASSUME NEW i \in DOMAIN rpo, i < at + 1 PROVE idom'[rpo[i]] # NoBlock
      BY <2>1
    <3>1. CASE rpo[i] = b
      BY <2>1, <3>1
    <3>2. CASE rpo[i] # b
      <4>1. i < at
        BY <2>1, <2>4, <3>2
      <4>2. idom[rpo[i]] # NoBlock
        BY <2>2, <4>1 DEF Passed
      <4> QED BY <2>1, <2>5, <3>2, <4>2
    <3> QED BY <3>1, <3>2
  <2>7. ASSUME ~changed', NEW i \in DOMAIN rpo, i < at + 1, NEW p \in Nodes, i # 1, Links(p, rpo[i])', idom'[p] # NoBlock
        PROVE  Over(idom[rpo[i]], p)'
    <3>1. ~changed /\ idom[b] = one /\ idom' = idom
      BY <2>1, <2>7
    <3>2. Links(p, rpo[i])
      BY <2>1, <2>7 DEF Links
    <3>3. Over(idom[rpo[i]], p)
      <4>1. CASE i < at
        BY <2>2, <2>7, <3>1, <3>2, <4>1 DEF Passed
      <4>2. CASE i = at
        <5>1. p \in Processed(b)
          BY <2>1, <2>2, <2>7, <3>1, <3>2, <4>2, ProcessedFacts
        <5> QED BY <2>1, <3>1, <4>2, <5>1
      <4> QED BY <2>4, <2>7, <4>1, <4>2
    <3>4. UpArcs' = UpArcs
      BY <2>1, <3>1 DEF UpArcs, Above, Nodes
    <3> QED BY <2>1, <3>1, <3>3, <3>4 DEF Over
  <2>8. \A i \in DOMAIN rpo', p \in Nodes' :
          ~changed' /\ i < at' /\ i # 1 /\ Links(p, rpo[i])' /\ idom'[p] # NoBlock => Over(idom[rpo[i]], p)'
    BY <2>1, <2>3, <2>7
  <2>9. stage' # "done"
    BY <2>1
  <2> QED BY <2>6, <2>8, <2>9 DEF Passed
<1>3. CASE BeginBlock \/ NextPredecessor \/ Climb \/ EndPass \/ UNCHANGED domVars
  <2>1. UNCHANGED <<arcs, root, rpo, num, idom>> /\ stage \in Passing
    BY <1>3 DEF BeginBlock, NextPredecessor, Climb, EndPass, domVars, Passing
  <2>2. Nodes' = Nodes /\ UpArcs' = UpArcs
    BY <2>1 DEF Nodes, UpArcs, Above
  <2>3. /\ \A p, i : Links(p, rpo[i])' <=> Links(p, rpo[i])
        /\ \A p, i : Over(idom[rpo[i]], p)' <=> Over(idom[rpo[i]], p)
    BY <2>1, <2>2 DEF Links, Over
  <2>4. /\ \A i \in DOMAIN rpo : stage = "done" \/ i < at => idom[rpo[i]] # NoBlock
        /\ \A i \in DOMAIN rpo, p \in Nodes :
             /\ stage = "done" \/ (~changed /\ i < at)
             /\ i # 1 /\ Links(p, rpo[i]) /\ idom[p] # NoBlock
             => Over(idom[rpo[i]], p)
        /\ stage = "done" => tree = [b \in Nodes |-> Above(b)]
    BY <2>1 DEF Passed
  <2>5. DOMAIN rpo = 1 .. Len(rpo) /\ Len(rpo) \in Nat /\ rpo[1] = root /\ root \in Nodes
    BY <2>1, OrderFacts DEF Orders
  <2>6. CASE BeginBlock
    <3>1. UNCHANGED <<at, changed>> /\ stage' # "done"
      BY <2>6, BeginBlockFacts
    <3> QED BY <2>1, <2>2, <2>3, <2>4, <3>1 DEF Passed
  <2>7. CASE NextPredecessor \/ Climb
    <3>1. UNCHANGED <<at, changed>> /\ stage' # "done"
      BY <2>7 DEF NextPredecessor, Climb
    <3> QED BY <2>1, <2>2, <2>3, <2>4, <3>1 DEF Passed
  <2>8. CASE EndPass /\ changed
    <3>1. stage' # "done" /\ at' = 2
      BY <2>8 DEF EndPass
    <3>2. \A i \in DOMAIN rpo : i < 2 => i = 1
      BY <2>5
    <3>3. idom[rpo[1]] # NoBlock
      <4>1. idom[root] = root
        BY <2>1 DEF Climbs
      <4>2. arcs \in FlowGraphs /\ root \in DOMAIN arcs
        BY <2>1 DEF DomTypeOK, Nodes, Passing
      <4>3. root \in Nat
        BY <4>2, ArcTypes
      <4> QED BY <2>5, <4>1, <4>3 DEF NoBlock
    <3> QED BY <2>1, <3>1, <3>2, <3>3 DEF Passed
  <2>9. CASE EndPass /\ ~changed
    <3>1. at > Len(rpo) /\ stage' = "done" /\ tree' = [b \in Nodes |-> Above(b)]
      BY <2>9 DEF EndPass, Nodes
    <3>2. \A i \in DOMAIN rpo : i < at
      <4>1. at \in Nat
        BY <2>1 DEF DomTypeOK
      <4> QED BY <2>5, <3>1, <4>1
    <3>3. tree' = [b \in Nodes' |-> Above(b)']
      <4>1. \A b : Above(b)' = Above(b)
        BY <2>1, SameTree
      <4> QED BY <2>2, <3>1, <4>1
    <3>4. \A i \in DOMAIN rpo' : idom'[rpo'[i]] # NoBlock
      BY <2>1, <2>4, <3>2
    <3>5. \A i \in DOMAIN rpo', p \in Nodes' :
            i # 1 /\ Links(p, rpo[i])' /\ idom'[p] # NoBlock => Over(idom[rpo[i]], p)'
      BY <2>1, <2>2, <2>3, <2>4, <2>9, <3>2
    <3> QED BY <3>3, <3>4, <3>5 DEF Passed
  <2>10. CASE UNCHANGED domVars
    <3>1. UNCHANGED <<at, changed, stage, tree>>
      BY <2>10 DEF domVars
    <3>2. [b \in Nodes |-> Above(b)]' = [b \in Nodes |-> Above(b)]
      BY <2>1, <2>2 DEF Above
    <3> QED BY <2>1, <2>2, <2>3, <2>4, <3>1, <3>2 DEF Passed
  <2> QED BY <1>3, <2>6, <2>7, <2>8, <2>9, <2>10
<1>4. ~Descend /\ ~Ascend /\ ~\E g \in FlowGraphs : \E e \in DOMAIN g : CallDominators(g, e)
  BY DEF Descend, Ascend, CallDominators, Passing
<1> QED BY <1>1, <1>2, <1>3, <1>4 DEF DomNext, DomStep

LEMMA DomTypeStep ==
  DomTypeOK /\ Descent /\ Callers /\ Orders /\ Climbs /\ Passed /\ Meets /\ [DomNext]_domVars => DomTypeOK'
<1> SUFFICES ASSUME DomTypeOK, Descent, Callers, Orders, Climbs, Passed, Meets, [DomNext]_domVars
             PROVE DomTypeOK'
  OBVIOUS
<1>1. ASSUME NEW g \in FlowGraphs, NEW e \in DOMAIN g, CallDominators(g, e) PROVE DomTypeOK'
  <2>1. /\ stage' = "order" /\ arcs' = g /\ root' = e /\ e \in Nodes'
        /\ calls' = <<[block |-> e, seen |-> 0]>> /\ entered' = {e} /\ postorder' = <<>>
    BY <1>1, CallsBegin
  <2>2. [block |-> e, seen |-> 0] \in [block : Nodes', seen : Nat]
    BY <2>1
  <2> DEFINE c == [block |-> e, seen |-> 0]
  <2> HIDE DEF c
  <2>3. <<c>> \in Seq([block : Nodes', seen : Nat])
    BY <2>2 DEF c
  <2>4. postorder' \in Seq(Nodes')
    BY <2>1, EmptySeq
  <2> QED BY <2>1, <2>3, <2>4 DEF DomTypeOK, Passing, c
<1>2. CASE Descend
  <2>1. PICK w \in Nodes, rest \in Seq([block : Nodes, seen : Nat]) :
           /\ stage = "order" /\ calls # <<>> /\ stage' = stage /\ arcs' = arcs /\ root' = root
           /\ postorder' = postorder /\ entered' = entered \cup {w}
           /\ w \in entered => calls' = rest
           /\ w \notin entered => calls' = Append(rest, [block |-> w, seen |-> 0])
    BY <1>2, DescendFacts
  <2>2. [block |-> w, seen |-> 0] \in [block : Nodes, seen : Nat]
    OBVIOUS
  <2>3. calls' \in Seq([block : Nodes, seen : Nat])
    <3>1. Append(rest, [block |-> w, seen |-> 0]) \in Seq([block : Nodes, seen : Nat])
      BY <2>2, PushFacts
    <3> QED BY <2>1, <3>1
  <2>4. Nodes' = Nodes
    BY <2>1 DEF Nodes
  <2> QED BY <2>1, <2>3, <2>4 DEF DomTypeOK, Passing
<1>3. CASE Ascend
  <2>1. /\ stage = "order" /\ stage' = stage /\ arcs' = arcs /\ root' = root /\ entered' = entered
        /\ calls' \in Seq([block : Nodes, seen : Nat]) /\ postorder' \in Seq(Nodes)
    BY <1>3, AscendFacts
  <2>2. Nodes' = Nodes
    BY <2>1 DEF Nodes
  <2> QED BY <2>1, <2>2 DEF DomTypeOK, Passing
<1>4. CASE EndOrder
  <2>1. /\ rpo' \in Seq(Nodes) /\ num' \in [Nodes -> Nat] /\ idom' \in [Nodes -> Nodes \cup {NoBlock}]
        /\ stage' = "pass" /\ Nodes' = Nodes /\ root' = root /\ root \in Nodes /\ arcs' = arcs
    BY <1>4, EndOrderFacts
  <2>2. at' = 2 /\ changed' = FALSE /\ arcs \in FlowGraphs
    BY <1>4 DEF EndOrder, DomTypeOK
  <2>3. at' \in Nat \ {0, 1} /\ changed' \in BOOLEAN
    <3>1. at' \in Nat \ {0, 1}
      BY <2>2
    <3>2. changed' \in BOOLEAN
      BY <2>2, Zenon
    <3> QED BY <3>1, <3>2
  <2> QED BY <2>1, <2>2, <2>3 DEF DomTypeOK, Passing
<1>5. CASE BeginBlock
  <2>1. /\ UNCHANGED <<arcs, root, rpo, num, idom, at, changed, tree>>
        /\ stage = "pass" /\ stage' = "meet" /\ at <= Len(rpo)
    BY <1>5, BeginBlockFacts
  <2>2. PICK p \in Processed(rpo[at]) : one' = p /\ other' = p /\ others' = Processed(rpo[at]) \ {p}
    BY <1>5, BeginBlockFacts
  <2>3. Nodes' = Nodes /\ Processed(rpo[at]) \subseteq Nodes
    BY <2>1 DEF Nodes, Processed
  <2> QED BY <2>1, <2>2, <2>3 DEF DomTypeOK, Passing
<1>6. CASE NextPredecessor
  <2>1. /\ UNCHANGED <<arcs, root, stage, rpo, num, idom, at, changed, one, tree>>
        /\ stage = "meet" /\ other' \in others /\ others' = others \ {other'}
    BY <1>6, NextPredecessorFacts
  <2>2. Nodes' = Nodes
    BY <2>1 DEF Nodes
  <2> QED BY <2>1, <2>2 DEF DomTypeOK, Passing
<1>7. CASE Climb
  <2>1. /\ UNCHANGED <<arcs, root, stage, rpo, num, idom, at, changed, others, tree>> /\ stage = "meet"
        /\ \/ one' = Above(one) /\ other' = other
           \/ other' = Above(other) /\ one' = one
    BY <1>7, ClimbFacts
  <2>2. one' \in Nodes /\ other' \in Nodes
    BY <2>1, MeetingFacts
  <2>3. Nodes' = Nodes
    BY <2>1 DEF Nodes
  <2> QED BY <2>1, <2>2, <2>3 DEF DomTypeOK, Passing
<1>8. CASE EndBlock
  <2>1. PICK b \in Ordered \ {root} :
           /\ UNCHANGED <<arcs, root, rpo, num, tree>>
           /\ stage = "meet" /\ stage' = "pass" /\ at' = at + 1
           /\ idom' \in [Nodes -> Nodes \cup {NoBlock}]
           /\ changed' = (changed \/ idom[b] # one)
    BY <1>8, EndBlockFacts
  <2>2. Nodes' = Nodes
    BY <2>1 DEF Nodes
  <2>3. at' \in Nat \ {0, 1} /\ changed' \in BOOLEAN
    <3>1. at \in Nat \ {0, 1} /\ changed \in BOOLEAN
      BY <2>1 DEF DomTypeOK, Passing
    <3>2. at' \in Nat \ {0, 1}
      BY <2>1, <3>1
    <3> QED BY <2>1, <3>1, <3>2
  <2> QED BY <2>1, <2>2, <2>3 DEF DomTypeOK, Passing
<1>9. CASE EndPass
  <2>1. UNCHANGED <<arcs, root, rpo, num, idom>> /\ stage = "pass" /\ stage \in Passing
    BY <1>9 DEF EndPass, Passing
  <2>2. Nodes' = Nodes
    BY <2>1 DEF Nodes
  <2>3. CASE changed
    <3>1. at' = 2 /\ changed' = FALSE /\ stage' = stage
      BY <1>9, <2>3 DEF EndPass
    <3>2. at' \in Nat \ {0, 1} /\ changed' \in BOOLEAN
      <4>1. at' \in Nat \ {0, 1}
        BY <3>1
      <4>2. changed' \in BOOLEAN
        BY <3>1, Zenon
      <4> QED BY <4>1, <4>2
    <3> QED BY <2>1, <2>2, <3>1, <3>2 DEF DomTypeOK, Passing
  <2>4. CASE ~changed
    <3>1. stage' = "done" /\ tree' = [b \in Nodes |-> Above(b)] /\ UNCHANGED <<at, changed>>
      BY <1>9, <2>4 DEF EndPass, Nodes
    <3>2. tree' \in [Nodes -> Nodes]
      BY <2>1, <3>1, OverFacts
    <3> QED BY <2>1, <2>2, <3>1, <3>2 DEF DomTypeOK, Passing
  <2> QED BY <2>3, <2>4
<1>10. CASE UNCHANGED domVars
  <2>1. Nodes' = Nodes
    BY <1>10 DEF domVars, Nodes
  <2> QED BY <1>10, <2>1 DEF domVars, DomTypeOK, Passing
<1> QED BY <1>1, <1>2, <1>3, <1>4, <1>5, <1>6, <1>7, <1>8, <1>9, <1>10 DEF DomNext, DomStep

LEMMA DomInvariance == DomSpec => []DomInv
<1>1. DomInit => DomInv
  BY DEF DomInit, DomInv, DomTypeOK, Descent, Callers, Orders, Climbs, Passed, Meets, Passing
<1>2. DomInv /\ [DomNext]_domVars => DomInv'
  BY DomTypeStep, DescentStep, CallersStep, OrdersStep, ClimbsStep, PassedStep, MeetsStep DEF DomInv
<1> QED BY <1>1, <1>2, PTL DEF DomSpec

-----------------------------------------------------------------------------
(* When the passes end, the tree is right.                                 *)

\* The way up from the entry stays there; a way up begins with the block above.
LEMMA UpFacts ==
  ASSUME DomTypeOK, Orders, Climbs, stage \in Passing, NEW a
  PROVE  /\ Over(a, root) => a = root
         /\ \A d \in Nodes : Over(a, d) /\ a # d => Over(a, Above(d))
<1>1. /\ \A b : Over(b, b)
      /\ \A b \in Nodes : Above(b) \in Nodes /\ Over(Above(b), b)
      /\ \A x, b, c : Over(x, b) /\ Over(b, c) => Over(x, c)
      /\ DOMAIN UpArcs = Nodes
      /\ \A b \in Nodes : \A c : Arc(UpArcs, b, c) <=> c = Above(b)
  BY OverFacts
<1>2. root \in Nodes
  BY OrderFacts
<1>3. Over(a, root) => a = root
  <2>1. Above(root) = root
    BY DEF Climbs, Above
  <2>2. ArcClosed(UpArcs, {root})
    BY <1>1, <1>2, <2>1 DEF ArcClosed
  <2>3. Over(a, root) => a \in {root}
    BY <1>1, <1>2, <2>2 DEF Over, Route
  <2> QED BY <2>3
<1>4. ASSUME NEW d \in Nodes, Over(a, d), a # d PROVE Over(a, Above(d))
  <2> DEFINE S == {d} \cup {x \in Nodes : Over(x, Above(d))}
  <2>1. Above(d) \in S /\ d \in S /\ S \in SUBSET Nodes
    BY <1>1
  <2>2. \A x \in S : Above(x) \in S
    <3> SUFFICES ASSUME NEW x \in S, x # d PROVE Above(x) \in S
      BY <2>1
    <3>1. x \in Nodes /\ Over(x, Above(d))
      OBVIOUS
    <3>2. Above(x) \in Nodes /\ Over(Above(x), Above(d))
      BY <1>1, <3>1
    <3> QED BY <3>2
  <2> HIDE DEF S
  <2>3. ArcClosed(UpArcs, S)
    BY <1>1, <2>1, <2>2 DEF ArcClosed
  <2>4. a \in S
    BY <1>1, <1>4, <2>1, <2>3 DEF Over, Route
  <2> QED BY <1>4, <2>4 DEF S
<1> QED BY <1>3, <1>4

\* What every path to a block goes through is above it: it is the block, or on every path to the
\* one above it, which is earlier.
LEMMA ForcedIsOver ==
  ASSUME DomTypeOK, Orders, Climbs, Passed, stage = "done", NEW a \in Nodes, NEW b \in Ordered, Forced(a, b)
  PROVE  Over(a, b)
<1>1. stage \in Passing /\ stage # "idle"
  BY DEF Passing
<1>2. Ordered \in SUBSET Nodes /\ \A c \in Nodes : num[c] \in Nat
  BY <1>1, OrderFacts
<1>3. ASSUME ~Over(a, b) PROVE FALSE
  <2> DEFINE S == {num[d] : d \in {e \in Ordered : Forced(a, e) /\ ~Over(a, e)}}
  <2>1. S \in SUBSET Nat /\ S # {}
    BY <1>2, <1>3
  <2>2. PICK m \in S : \A k \in S : m <= k
    BY <2>1, LeastExists
  <2>3. PICK d \in Ordered : num[d] = m /\ Forced(a, d) /\ ~Over(a, d)
    BY <2>2
  <2>4. d \in Nodes
    BY <1>2, <2>3
  <2>5. a # d
    BY <1>1, <2>3, OverFacts
  <2>6. d # root
    BY <1>1, <2>3, <2>5, FreeFacts DEF Forced
  <2>7. idom[d] # NoBlock
    <3>1. num[d] \in DOMAIN rpo /\ rpo[num[d]] = d
      BY <1>1, <2>3, OrderFacts
    <3> QED BY <1>1, <3>1 DEF Passed
  <2>8. idom[d] \in Ordered /\ num[idom[d]] < num[d] /\ Forced(a, idom[d])
    BY <1>1, <2>3, <2>4, <2>5, <2>6, <2>7 DEF Climbs
  <2>9. Above(d) = idom[d] /\ Over(Above(d), d)
    BY <1>1, <2>4, <2>7, OverFacts DEF Above
  <2>10. ~Over(a, idom[d])
    BY <1>1, <2>3, <2>9, OverFacts
  <2>11. num[idom[d]] \in S
    BY <2>8, <2>10
  <2>12. num[idom[d]] \in Nat /\ num[d] \in Nat
    BY <1>2, <2>3, <2>8
  <2> QED BY <2>2, <2>3, <2>8, <2>11, <2>12
<1> QED BY <1>3

\* What is above a block is on every path to it: the blocks that it is not above, and itself, are
\* closed under the arcs that do not leave it.
LEMMA OverIsForced ==
  ASSUME DomTypeOK, Orders, Climbs, Passed, stage = "done", NEW a \in Nodes, NEW b \in Ordered, Over(a, b)
  PROVE  Forced(a, b)
<1>1. stage \in Passing /\ stage # "idle" /\ arcs \in FlowGraphs
  BY DEF Passing, DomTypeOK
<1>2. /\ Ordered \in SUBSET Nodes /\ root \in Ordered /\ num[root] = 1
      /\ \A c \in Ordered : num[c] \in DOMAIN rpo /\ rpo[num[c]] = c
      /\ \A c \in Ordered, d \in Nodes : Links(c, d) => d \in Ordered
  BY <1>1, OrderFacts
<1> DEFINE S == {c \in Ordered : c = a \/ ~Over(a, c)}
<1>3. root \in S
  BY <1>1, <1>2, UpFacts
<1>4. ASSUME NEW c \in S, c # a, NEW d \in Nodes, Links(c, d) PROVE d \in S
  <2>1. c \in Ordered /\ c \in Nodes /\ ~Over(a, c) /\ d \in Ordered
    BY <1>2, <1>4
  <2>2. ASSUME d # a, Over(a, d) PROVE FALSE
    <3>1. d # root
      BY <1>1, <2>2, UpFacts
    <3>2. num[d] \in DOMAIN rpo /\ rpo[num[d]] = d /\ num[d] # 1
      <4>1. rpo[1] = root
        BY <1>1 DEF Orders
      <4> QED BY <1>2, <2>1, <3>1, <4>1
    <3>3. idom[c] # NoBlock /\ idom[d] # NoBlock
      <4>1. num[c] \in DOMAIN rpo /\ rpo[num[c]] = c
        BY <1>2, <2>1
      <4> QED BY <1>1, <3>2, <4>1 DEF Passed
    <3>4. Over(idom[d], c)
      <4>1. \A i \in DOMAIN rpo, p \in Nodes :
              i # 1 /\ Links(p, rpo[i]) /\ idom[p] # NoBlock => Over(idom[rpo[i]], p)
        BY <1>1 DEF Passed
      <4>2. Links(c, rpo[num[d]])
        BY <1>4, <3>2
      <4>3. Over(idom[rpo[num[d]]], c)
        BY <2>1, <3>2, <3>3, <4>1, <4>2
      <4> QED BY <3>2, <4>3
    <3>5. Over(a, idom[d])
      <4>1. Above(d) = idom[d]
        BY <3>3 DEF Above
      <4>2. Over(a, Above(d))
        BY <1>1, <2>2, UpFacts
      <4> QED BY <4>1, <4>2
    <3> QED BY <1>1, <2>1, <3>4, <3>5, OverFacts
  <2> QED BY <2>1, <2>2
<1>5. S \in SUBSET Nodes
  BY <1>2
<1> HIDE DEF S
<1>6. /\ DOMAIN Without(arcs, a) = Nodes
      /\ \A x \in Nodes : \A c : Arc(Without(arcs, a), x, c) <=> x # a /\ Links(x, c)
  BY <1>1, WithoutFacts DEF Nodes, Links
<1>7. ArcClosed(Without(arcs, a), S)
  BY <1>4, <1>5, <1>6 DEF ArcClosed
<1>8. Free(a, b) => b \in S
  BY <1>3, <1>5, <1>6, <1>7 DEF Free, Route
<1>9. b \in S => b = a
  BY DEF S
<1> QED BY <1>8, <1>9 DEF Forced

\* compute answers with the dominator tree, whatever the graph: above a block that the entry
\* leads to are exactly the blocks on every path to it, and any other block has only itself above
\* it (DomTree::compute).
THEOREM DominatorsAreRight == DomSpec => []DominatorsAreExact
<1>1. DomInv => DominatorsAreExact
  <2> SUFFICES ASSUME DomInv, stage = "done"
               PROVE  /\ \A b \in LedTo(arcs, root), a \in DOMAIN arcs :
                           a \in LedTo(Upwards, b) <=> a = b \/ b \notin LedTo(Without(arcs, a), root)
                      /\ \A b \in DOMAIN arcs \ LedTo(arcs, root) : tree[b] = b
    BY DEF DominatorsAreExact
  <2>1. /\ DomTypeOK /\ Orders /\ Climbs /\ Passed /\ stage \in Passing
        /\ arcs \in FlowGraphs /\ root \in Nodes /\ Nodes = DOMAIN arcs
    BY DEF DomInv, Passing, DomTypeOK, Nodes
  <2>2. LedTo(arcs, root) = Ordered /\ Ordered \in SUBSET Nodes
    <3>1. LedTo(arcs, root) = {b \in Nodes : Comes(root, b)}
      BY <2>1, LedToRoutes DEF Comes
    <3>2. Ordered \in SUBSET Nodes
      BY <2>1, OrderFacts
    <3> QED BY <2>1, <3>1, <3>2 DEF Orders
  <2>3. Upwards = UpArcs /\ \A b \in Nodes : tree[b] = Above(b)
    <3>1. tree = [b \in Nodes |-> Above(b)]
      BY <2>1 DEF Passed
    <3>2. \A b \in Nodes : tree[b] = Above(b)
      BY <3>1
    <3> QED BY <2>1, <3>2 DEF Upwards, UpArcs
  <2>4. UpArcs \in FlowGraphs /\ DOMAIN UpArcs = Nodes
    <3>1. PICK n \in Nat : arcs \in [0 .. n - 1 -> Seq(0 .. n - 1)]
      BY <2>1 DEF FlowGraphs
    <3>2. Nodes = 0 .. n - 1
      BY <2>1, <3>1
    <3>3. \A b \in Nodes : <<Above(b)>> \in Seq(Nodes)
      <4>1. \A b \in Nodes : Above(b) \in Nodes
        BY <2>1, OverFacts
      <4> QED BY <4>1
    <3>4. UpArcs \in [Nodes -> Seq(Nodes)]
      BY <3>3 DEF UpArcs
    <3>5. UpArcs \in FlowGraphs
      BY <3>2, <3>4 DEF FlowGraphs
    <3> QED BY <3>4, <3>5
  <2>5. ASSUME NEW b \in Ordered, NEW a \in Nodes
        PROVE  a \in LedTo(Upwards, b) <=> a = b \/ b \notin LedTo(Without(arcs, a), root)
    <3>1. a \in LedTo(UpArcs, b) <=> Over(a, b)
      <4>1. b \in DOMAIN UpArcs
        BY <2>2, <2>4
      <4>2. LedTo(UpArcs, b) = {x \in DOMAIN UpArcs : Route(UpArcs, b, x)}
        BY <2>4, <4>1, LedToRoutes
      <4> QED BY <2>4, <4>2 DEF Over
    <3>2. b \in LedTo(Without(arcs, a), root) <=> Free(a, b)
      <4>1. Without(arcs, a) \in FlowGraphs /\ DOMAIN Without(arcs, a) = Nodes
        BY <2>1, WithoutFacts
      <4>2. LedTo(Without(arcs, a), root) = {x \in Nodes : Route(Without(arcs, a), root, x)}
        BY <2>1, <4>1, LedToRoutes
      <4> QED BY <2>2, <4>2 DEF Free
    <3>3. Over(a, b) <=> Forced(a, b)
      BY <2>1, ForcedIsOver, OverIsForced
    <3> QED BY <2>3, <3>1, <3>2, <3>3 DEF Forced
  <2>6. ASSUME NEW b \in Nodes, b \notin Ordered PROVE tree[b] = b
    <3>1. b # root
      BY <2>1, <2>6, OrderFacts
    <3>2. idom[b] = NoBlock
      BY <2>1, <2>6, <3>1 DEF Climbs
    <3> QED BY <2>3, <3>2 DEF Above
  <2> QED BY <2>1, <2>2, <2>5, <2>6
<1> QED BY <1>1, DomInvariance, PTL

\* intersect ends, whatever the graph: the two it is at have different numbers until they meet,
\* and each step is to an earlier block (DomTree::compute).
THEOREM ClimbingAlwaysEnds == DomSpec => []ClimbingEnds
<1>1. DomInv => ClimbingEnds
  <2> SUFFICES ASSUME DomInv, stage = "meet", one # other
               PROVE  /\ num[one] # num[other]
                      /\ \A b \in {one, other} : b # root => idom[b] # NoBlock /\ num[idom[b]] < num[b]
                      /\ num[one] > num[other] => one # root
                      /\ num[other] > num[one] => other # root
    BY DEF ClimbingEnds
  <2>1. DomTypeOK /\ Orders /\ Climbs /\ Meets
    BY DEF DomInv
  <2>2. num[one] # num[other]
    BY <2>1, MeetingDiffers
  <2>3. \A b \in {one, other} : b # root => idom[b] # NoBlock /\ num[idom[b]] < num[b]
    <3> SUFFICES ASSUME NEW b \in {one, other}, b # root PROVE idom[b] # NoBlock /\ num[idom[b]] < num[b]
      OBVIOUS
    <3>1. idom[b] # NoBlock /\ Above(b) = idom[b] /\ num[Above(b)] < num[b]
      BY <2>1, MeetingFacts
    <3> QED BY <3>1
  <2>4. num[one] > num[other] => one # root
    BY <2>1, LaterClimbs
  <2>5. num[other] > num[one] => other # root
    BY <2>1, LaterClimbs
  <2> QED BY <2>2, <2>3, <2>4, <2>5
<1> QED BY <1>1, DomInvariance, PTL

\* The searches, the order and the tree stay within the blocks of the graph (DomTree::compute).
THEOREM DomTypeCorrect == DomSpec => []DomTypeOK
<1>1. DomInv => DomTypeOK
  BY DEF DomInv
<1> QED BY <1>1, DomInvariance, PTL

-----------------------------------------------------------------------------
(* The way up a tree f, when a block b is moved up it: h.                  *)

OnWay(f, b, a) == \A S \in SUBSET DOMAIN f : b \in S /\ (\A x \in S : f[x] \in S) => a \in S

\* The empty way, a step, one way after another, and the way without its first step.
LEMMA WayFacts ==
  ASSUME NEW N, NEW f \in [N -> N]
  PROVE  /\ \A a : OnWay(f, a, a)
         /\ \A a \in N : OnWay(f, a, f[a])
         /\ \A a, b, c : OnWay(f, a, b) /\ OnWay(f, b, c) => OnWay(f, a, c)
         /\ \A a \in N : \A b : OnWay(f, a, b) => b \in N
         /\ \A a \in N : \A b : OnWay(f, a, b) /\ a # b => OnWay(f, f[a], b)
<1>1. \A a : OnWay(f, a, a)
  BY DEF OnWay
<1>2. \A a \in N : OnWay(f, a, f[a])
  BY DEF OnWay
<1>3. \A a, b, c : OnWay(f, a, b) /\ OnWay(f, b, c) => OnWay(f, a, c)
  BY DEF OnWay
<1>4. \A a \in N : \A b : OnWay(f, a, b) => b \in N
  BY DEF OnWay
<1>5. ASSUME NEW a \in N, NEW b, OnWay(f, a, b), a # b PROVE OnWay(f, f[a], b)
  <2> DEFINE T == {a} \cup {x \in N : OnWay(f, f[a], x)}
  <2>1. T \in SUBSET DOMAIN f /\ a \in T
    OBVIOUS
  <2>2. f[a] \in T
    BY <1>1
  <2>3. \A x \in T : f[x] \in T
    <3> SUFFICES ASSUME NEW x \in T, x # a PROVE f[x] \in T
      BY <2>2
    <3>1. x \in N /\ OnWay(f, f[a], x)
      OBVIOUS
    <3>2. OnWay(f, f[a], f[x])
      BY <1>2, <1>3, <3>1
    <3> QED BY <3>1, <3>2
  <2> HIDE DEF T
  <2>4. b \in T
    BY <1>5, <2>1, <2>3 DEF OnWay
  <2> QED BY <1>5, <2>4 DEF T
<1> QED BY <1>1, <1>2, <1>3, <1>4, <1>5

\* Of two blocks on the way up from one, the way up from one of them leads to the other.
LEMMA WaysMeet ==
  ASSUME NEW N, NEW f \in [N -> N], NEW p \in N, NEW a, NEW b, OnWay(f, p, a), OnWay(f, p, b)
  PROVE  OnWay(f, a, b) \/ OnWay(f, b, a)
<1> DEFINE T == {x \in N : OnWay(f, x, a) \/ OnWay(f, a, x)}
<1>1. /\ \A x : OnWay(f, x, x)
      /\ \A x \in N : OnWay(f, x, f[x])
      /\ \A x, y, z : OnWay(f, x, y) /\ OnWay(f, y, z) => OnWay(f, x, z)
      /\ \A x \in N : \A y : OnWay(f, x, y) /\ x # y => OnWay(f, f[x], y)
  BY WayFacts
<1>2. p \in T /\ T \in SUBSET DOMAIN f
  OBVIOUS
<1>3. \A x \in T : f[x] \in T
  <2> SUFFICES ASSUME NEW x \in T PROVE f[x] \in T
    OBVIOUS
  <2>1. CASE OnWay(f, a, x) \/ x = a
    <3>1. OnWay(f, a, f[x])
      BY <1>1, <2>1
    <3> QED BY <3>1
  <2>2. CASE OnWay(f, x, a) /\ x # a
    <3>1. OnWay(f, f[x], a)
      BY <1>1, <2>2
    <3> QED BY <3>1
  <2> QED BY <2>1, <2>2
<1> HIDE DEF T
<1>4. b \in T
  BY <1>2, <1>3 DEF OnWay
<1> QED BY <1>4 DEF T

\* A way that does not come by b stays.
LEMMA WayStays ==
  ASSUME NEW N, NEW f \in [N -> N], NEW h \in [N -> N], NEW b \in N, \A x \in N : x # b => h[x] = f[x],
         NEW v \in N, ~OnWay(f, v, b), NEW w, OnWay(f, v, w)
  PROVE  OnWay(h, v, w)
<1> SUFFICES ASSUME NEW S \in SUBSET N, v \in S, \A x \in S : h[x] \in S PROVE w \in S
  BY DEF OnWay
<1> DEFINE T == {x \in S : OnWay(f, v, x)}
<1>1. T \in SUBSET DOMAIN f /\ v \in T
  BY WayFacts
<1>2. \A x \in T : f[x] \in T
  <2> SUFFICES ASSUME NEW x \in T PROVE f[x] \in T
    OBVIOUS
  <2>1. x # b /\ x \in N /\ x \in S /\ OnWay(f, v, x)
    OBVIOUS
  <2>2. h[x] = f[x]
    BY <2>1
  <2>3. OnWay(f, v, f[x])
    BY <2>1, WayFacts
  <2> QED BY <2>1, <2>2, <2>3
<1> HIDE DEF T
<1>3. w \in T
  BY <1>1, <1>2 DEF OnWay
<1> QED BY <1>3 DEF T

\* The way up to a block that is no earlier than b stays.
LEMMA LateWayStays ==
  ASSUME NEW N, NEW f \in [N -> N], NEW h \in [N -> N], NEW b \in N, \A x \in N : x # b => h[x] = f[x],
         NEW n \in [N -> Nat], \A x \in N : f[x] = x \/ n[f[x]] < n[x],
         NEW v \in N, NEW w, OnWay(f, v, w), n[w] >= n[b]
  PROVE  OnWay(h, v, w)
<1> SUFFICES ASSUME NEW S \in SUBSET N, v \in S, \A x \in S : h[x] \in S PROVE w \in S
  BY DEF OnWay
<1> DEFINE T == S \cup {x \in N : n[x] < n[b]}
<1>1. T \in SUBSET DOMAIN f /\ v \in T
  OBVIOUS
<1>2. \A x \in T : f[x] \in T
  <2> SUFFICES ASSUME NEW x \in T PROVE f[x] \in T
    OBVIOUS
  <2>1. x \in N /\ f[x] \in N /\ n[x] \in Nat /\ n[f[x]] \in Nat /\ n[b] \in Nat
    OBVIOUS
  <2>2. CASE f[x] = x
    BY <2>2
  <2>3. CASE n[f[x]] < n[x] /\ n[x] <= n[b]
    <3>1. n[f[x]] < n[b]
      BY <2>1, <2>3
    <3> QED BY <2>1, <3>1
  <2>4. CASE n[x] > n[b]
    <3>1. x # b /\ x \in S
      <4>1. ~(n[x] < n[b]) /\ n[x] # n[b]
        BY <2>1, <2>4
      <4> QED BY <4>1
    <3>2. h[x] = f[x] /\ h[x] \in S
      BY <2>1, <3>1
    <3> QED BY <3>2
  <2>5. n[x] <= n[b] \/ n[x] > n[b]
    BY <2>1
  <2> QED BY <2>2, <2>3, <2>4, <2>5
<1> HIDE DEF T
<1>3. w \in T
  BY <1>1, <1>2 DEF OnWay
<1>4. w \in N
  BY WayFacts
<1>5. ~(n[w] < n[b])
  <2>1. n[w] \in Nat /\ n[b] \in Nat
    BY <1>4
  <2> QED BY <2>1
<1> QED BY <1>3, <1>5 DEF T

\* If b is moved up its way, or is not come by, every way was one before.
LEMMA WayWas ==
  ASSUME NEW N, NEW f \in [N -> N], NEW h \in [N -> N], NEW b \in N, \A x \in N : x # b => h[x] = f[x],
         NEW v \in N, OnWay(f, b, h[b]) \/ ~OnWay(f, v, b), NEW w, OnWay(h, v, w)
  PROVE  OnWay(f, v, w)
<1> DEFINE T == {x \in N : OnWay(f, v, x)}
<1>1. T \in SUBSET DOMAIN h /\ v \in T
  BY WayFacts
<1>2. \A x \in T : h[x] \in T
  <2> SUFFICES ASSUME NEW x \in T PROVE h[x] \in T
    OBVIOUS
  <2>1. x \in N /\ OnWay(f, v, x) /\ h[x] \in N
    OBVIOUS
  <2>2. CASE x = b
    BY <2>1, <2>2, WayFacts
  <2>3. CASE x # b
    <3>1. h[x] = f[x] /\ OnWay(f, v, f[x])
      BY <2>1, <2>3, WayFacts
    <3> QED BY <2>1, <3>1
  <2> QED BY <2>2, <2>3
<1> HIDE DEF T
<1>3. w \in T
  BY <1>1, <1>2 DEF OnWay
<1> QED BY <1>3 DEF T

\* A block z above u stays there if it stays above p, which b is above if it is above u.
LEMMA AboveStays ==
  ASSUME NEW N, NEW f \in [N -> N], NEW h \in [N -> N], NEW b \in N, \A x \in N : x # b => h[x] = f[x],
         NEW n \in [N -> Nat], \A x \in N : f[x] = x \/ n[f[x]] < n[x], n[h[b]] < n[b],
         NEW u \in N, NEW p \in N, OnWay(f, u, b) => OnWay(f, p, b),
         NEW z, OnWay(f, u, z), OnWay(h, p, z)
  PROVE  OnWay(h, u, z)
<1>1. CASE ~OnWay(f, u, b)
  BY <1>1, WayStays
<1>2. CASE OnWay(f, u, b)
  <2>1. n[b] >= n[b]
    OBVIOUS
  <2>2. OnWay(h, u, b) /\ OnWay(h, p, b)
    BY <1>2, <2>1, LateWayStays
  <2>3. OnWay(h, b, z) \/ OnWay(h, z, b)
    BY <2>2, WaysMeet
  <2>4. CASE OnWay(h, b, z)
    BY <2>2, <2>4, WayFacts
  <2>5. CASE OnWay(h, z, b)
    <3>1. \A x \in N : h[x] = x \/ n[h[x]] < n[x]
      OBVIOUS
    <3>2. z \in N
      BY WayFacts
    <3>3. n[b] <= n[z]
      <4> DEFINE T == {x \in N : n[x] <= n[z]}
      <4>1. z \in T /\ T \in SUBSET DOMAIN h
        BY <3>2
      <4>2. \A x \in T : h[x] \in T
        <5> SUFFICES ASSUME NEW x \in T, h[x] # x PROVE h[x] \in T
          OBVIOUS
        <5>1. x \in N /\ h[x] \in N /\ n[x] \in Nat /\ n[h[x]] \in Nat /\ n[z] \in Nat
          BY <3>2
        <5>2. n[h[x]] < n[x] /\ n[x] <= n[z]
          BY <3>1, <5>1
        <5>3. n[h[x]] <= n[z]
          BY <5>1, <5>2
        <5> QED BY <5>1, <5>3
      <4> HIDE DEF T
      <4>3. b \in T
        BY <2>5, <4>1, <4>2 DEF OnWay
      <4> QED BY <4>3 DEF T
    <3>4. n[z] >= n[b]
      <4>1. n[z] \in Nat /\ n[b] \in Nat
        BY <3>2
      <4> QED BY <3>3, <4>1
    <3> QED BY <3>4, LateWayStays
  <2> QED BY <2>3, <2>4, <2>5
<1> QED BY <1>1, <1>2

\* Up is no later.
LEMMA WayEarlier ==
  ASSUME NEW N, NEW f \in [N -> N], NEW n \in [N -> Nat], \A x \in N : f[x] = x \/ n[f[x]] < n[x],
         NEW v \in N, NEW w, OnWay(f, v, w)
  PROVE  w \in N /\ n[w] <= n[v]
<1> DEFINE T == {x \in N : n[x] <= n[v]}
<1>1. v \in T /\ T \in SUBSET DOMAIN f
  OBVIOUS
<1>2. \A x \in T : f[x] \in T
  <2> SUFFICES ASSUME NEW x \in T, f[x] # x PROVE f[x] \in T
    OBVIOUS
  <2>1. x \in N /\ f[x] \in N /\ n[x] \in Nat /\ n[f[x]] \in Nat /\ n[v] \in Nat /\ n[x] <= n[v]
    OBVIOUS
  <2>2. n[f[x]] <= n[v]
    BY <2>1
  <2> QED BY <2>1, <2>2
<1> HIDE DEF T
<1>3. w \in T
  BY <1>1, <1>2 DEF OnWay
<1> QED BY <1>3 DEF T

\* The two ways to say it.
LEMMA RoutesAreWays ==
  ASSUME NEW N, NEW f \in [N -> N]
  PROVE  \A a, b : Route([x \in N |-> <<f[x]>>], b, a) <=> OnWay(f, b, a)
<1> DEFINE g == [x \in N |-> <<f[x]>>]
<1>1. DOMAIN g = N /\ \A x \in N : g[x] = <<f[x]>>
  OBVIOUS
<1> HIDE DEF g
<1>2. \A y : DOMAIN <<y>> = {1} /\ <<y>>[1] = y
  OBVIOUS
<1>3. \A x \in N : \A y : Arc(g, x, y) <=> y = f[x]
  BY <1>1, <1>2 DEF Arc
<1>4. \A S \in SUBSET N : ArcClosed(g, S) <=> \A x \in S : f[x] \in S
  BY <1>1, <1>3 DEF ArcClosed
<1>5. \A a, b : Route(g, b, a) <=> OnWay(f, b, a)
  BY <1>1, <1>4 DEF Route, OnWay
<1> QED BY <1>5 DEF g

-----------------------------------------------------------------------------
(* Passes only move blocks up the tree.                                    *)

\* Blocks are processed in order.  The one above a block was above an earlier predecessor when
\* the block was processed: it is until a block that is earlier than both is moved up.
Forward ==
  stage \in {"pass", "meet"} =>
    \A c \in Ordered \ {root}, p \in Ordered : idom[c] # NoBlock /\ num[p] < num[c] =>
      /\ idom[p] # NoBlock
      /\ Links(p, c) /\ num[c] < at => Over(idom[c], p)
      /\ \A w \in Nodes : Links(p, c) /\ num[w] >= at /\ Over(w, idom[c]) => Over(w, p)

\* What is above the predecessors of a block is above the one above it.
Nearest ==
  stage \in {"pass", "meet"} =>
    \A c \in Ordered \ {root}, z \in Nodes :
      idom[c] # NoBlock /\ (\A q \in Processed(c) : Over(z, q)) => Over(z, idom[c])

\* What is above the predecessors looked at is above the two that meet.
Joins ==
  stage = "meet" =>
    \A z \in Nodes : (\A q \in Processed(rpo[at]) \ others : Over(z, q)) => Over(z, one) /\ Over(z, other)

RiseInv == DomInv /\ Forward /\ Nearest /\ Joins

\* The tree as a function.
Parents == [b \in Nodes |-> Above(b)]

LEMMA ParentFacts ==
  ASSUME DomTypeOK, Orders, Climbs, stage \in Passing
  PROVE  /\ Parents \in [Nodes -> Nodes] /\ num \in [Nodes -> Nat]
         /\ \A a, b : Over(a, b) <=> OnWay(Parents, b, a)
         /\ \A x \in Nodes : Parents[x] = x \/ num[Parents[x]] < num[x]
<1>1. Parents \in [Nodes -> Nodes]
  BY OverFacts DEF Parents
<1>2. num \in [Nodes -> Nat]
  BY DEF DomTypeOK
<1>3. UpArcs = [x \in Nodes |-> <<Parents[x]>>]
  BY DEF UpArcs, Parents
<1>4. \A a, b : Over(a, b) <=> OnWay(Parents, b, a)
  BY <1>1, <1>3, RoutesAreWays DEF Over
<1>5. \A x \in Nodes : Parents[x] = x \/ num[Parents[x]] < num[x]
  BY DEF Parents, Above, Climbs
<1> QED BY <1>1, <1>2, <1>4, <1>5

\* The end of a block moves it up, from f to h.
LEMMA LiftFacts ==
  ASSUME DomTypeOK, Orders, Climbs, Passed, Meets, Nearest, EndBlock
  PROVE  \E f, h \in [Nodes -> Nodes] :
           /\ \A a, x : Over(a, x) <=> OnWay(f, x, a)
           /\ \A a, x : Over(a, x)' <=> OnWay(h, x, a)
           /\ \A x \in Nodes : f[x] = x \/ num[f[x]] < num[x]
           /\ \A x \in Nodes : h[x] = x \/ num[h[x]] < num[x]
           /\ \A x \in Nodes : x # rpo[at] => h[x] = f[x]
           /\ h[rpo[at]] = one
           /\ \A q \in Nodes : idom[q] # NoBlock =>
                OnWay(f, rpo[at], one) \/ ~OnWay(f, q, rpo[at])
<1>1. PICK b \in Ordered \ {root} :
           /\ UNCHANGED <<arcs, root, rpo, num, tree>>
           /\ stage = "meet" /\ stage' = "pass" /\ at' = at + 1 /\ at \in DOMAIN rpo
           /\ b = rpo[at] /\ b \in Nodes /\ num[b] = at
           /\ idom' \in [Nodes -> Nodes \cup {NoBlock}] /\ idom'[b] = one
           /\ \A x \in Nodes : x # b => idom'[x] = idom[x]
           /\ one \in Ordered /\ one \in Nodes /\ one # NoBlock /\ idom[one] # NoBlock
           /\ one # b /\ num[one] < num[b]
           /\ \A a \in Nodes : a # b /\ Forced(a, b) => Forced(a, one)
           /\ \A q \in Processed(b) : Over(one, q)
           /\ changed' = (changed \/ idom[b] # one)
           /\ idom[b] = one => idom' = idom
  BY EndBlockFacts
<1>2. stage \in Passing
  BY <1>1 DEF Passing
<1>3. PICK f : f = Parents
  OBVIOUS
<1>4. PICK h : h = [x \in Nodes |-> Above(x)']
  OBVIOUS
<1>5. /\ f \in [Nodes -> Nodes] /\ \A a, x : Over(a, x) <=> OnWay(f, x, a)
      /\ \A x \in Nodes : f[x] = x \/ num[f[x]] < num[x]
  BY <1>2, <1>3, ParentFacts
<1>6. h \in [Nodes -> Nodes]
  <2>1. \A x \in Nodes : (IF idom'[x] = NoBlock THEN x ELSE idom'[x]) \in Nodes
    BY <1>1
  <2> QED BY <1>4, <2>1 DEF Above
<1>7. \A x \in Nodes : x # b => h[x] = f[x]
  BY <1>1, <1>3, <1>4 DEF Parents, Above
<1>8. h[b] = one
  BY <1>1, <1>4 DEF Above
<1>9. \A a, x : Over(a, x)' <=> OnWay(h, x, a)
  <2>1. Nodes' = Nodes
    BY <1>1 DEF Nodes
  <2>2. UpArcs' = [x \in Nodes |-> <<h[x]>>]
    BY <1>4, <2>1 DEF UpArcs
  <2> QED BY <1>6, <2>2, RoutesAreWays DEF Over
<1>10. \A x \in Nodes : h[x] = x \/ num[h[x]] < num[x]
  BY <1>1, <1>5, <1>7, <1>8
<1>11. ASSUME Nearest, NEW q \in Nodes, idom[q] # NoBlock, ~OnWay(f, b, one) PROVE ~OnWay(f, q, b)
  <2>1. q \in Ordered
    BY <1>2, <1>11, OrderFacts DEF Climbs
  <2>2. CASE idom[b] = NoBlock
    <3>1. ~Over(b, q)
      BY <1>2, <1>11, <2>1, <2>2, OverEarlier
    <3> QED BY <1>5, <3>1
  <2>3. CASE idom[b] # NoBlock
    <3>1. Over(one, idom[b])
      BY <1>1, <1>11, <2>3 DEF Nearest
    <3>2. Over(idom[b], b)
      BY <1>1, <1>2, <2>3, OverFacts DEF Above
    <3>3. Over(one, b)
      BY <1>2, <3>1, <3>2, OverFacts
    <3> QED BY <1>5, <1>11, <3>3
  <2> QED BY <2>2, <2>3
<1>12. b = rpo[at]
  BY <1>1
<1> QED BY <1>5, <1>6, <1>7, <1>8, <1>9, <1>10, <1>11, <1>12

LEMMA ForwardStep ==
  DomInv /\ Forward /\ Nearest /\ Joins /\ [DomNext]_domVars => Forward'
<1> SUFFICES ASSUME DomInv, Forward, Nearest, Joins, [DomNext]_domVars, stage' \in {"pass", "meet"}
             PROVE Forward'
  BY DEF Forward
<1>1. DomTypeOK /\ Descent /\ Callers /\ Orders /\ Climbs /\ Passed /\ Meets
  BY DEF DomInv
<1>2. CASE EndOrder
  <2>1. Nodes' = Nodes /\ root' = root /\ rpo' \in Seq(Nodes)
    BY <1>1, <1>2, EndOrderFacts
  <2>2. idom' = [b \in Nodes |-> IF b = root THEN root ELSE NoBlock]
    BY <1>2 DEF EndOrder, Nodes
  <2>3. \A c \in Ordered' : c \in Nodes
    <3>1. \A i \in DOMAIN rpo' : rpo'[i] \in Nodes
      BY <2>1, LenProperties, ElementOfSeq
    <3> QED BY <3>1 DEF Ordered
  <2>4. \A c \in Ordered' \ {root'} : idom'[c] = NoBlock
    BY <2>1, <2>2, <2>3
  <2> QED BY <2>4 DEF Forward
<1>3. CASE EndBlock
  <2>1. PICK b \in Ordered \ {root} :
           /\ UNCHANGED <<arcs, root, rpo, num, tree>>
           /\ stage = "meet" /\ stage' = "pass" /\ at' = at + 1 /\ at \in DOMAIN rpo
           /\ b = rpo[at] /\ b \in Nodes /\ num[b] = at
           /\ idom' \in [Nodes -> Nodes \cup {NoBlock}] /\ idom'[b] = one
           /\ \A x \in Nodes : x # b => idom'[x] = idom[x]
           /\ one \in Ordered /\ one \in Nodes /\ one # NoBlock /\ idom[one] # NoBlock
           /\ one # b /\ num[one] < num[b]
           /\ \A a \in Nodes : a # b /\ Forced(a, b) => Forced(a, one)
           /\ \A q \in Processed(b) : Over(one, q)
           /\ changed' = (changed \/ idom[b] # one)
           /\ idom[b] = one => idom' = idom
    BY <1>1, <1>3, EndBlockFacts
  <2>2. PICK f \in [Nodes -> Nodes], h \in [Nodes -> Nodes] :
           /\ \A a, x : Over(a, x) <=> OnWay(f, x, a)
           /\ \A a, x : Over(a, x)' <=> OnWay(h, x, a)
           /\ \A x \in Nodes : f[x] = x \/ num[f[x]] < num[x]
           /\ \A x \in Nodes : h[x] = x \/ num[h[x]] < num[x]
           /\ \A x \in Nodes : x # rpo[at] => h[x] = f[x]
           /\ h[rpo[at]] = one
    BY <1>1, <1>3, LiftFacts
  <2>3. stage \in Passing /\ stage \in {"pass", "meet"}
    BY <2>1 DEF Passing
  <2>4. /\ Ordered \in SUBSET Nodes /\ \A x \in Nodes : num[x] \in Nat
        /\ num \in [Nodes -> Nat] /\ at \in Nat /\ at <= Len(rpo)
        /\ \A x \in Ordered : rpo[num[x]] = x
    BY <1>1, <2>1, <2>3, OrderFacts DEF DomTypeOK
  <2>5. Nodes' = Nodes /\ Ordered' = Ordered /\ \A p, c : Links(p, c)' <=> Links(p, c)
    BY <2>1 DEF Nodes, Ordered, Links
  <2>6. \A x \in Nodes : x # b => h[x] = f[x]
    BY <2>1, <2>2
  \* An earlier block is not come by b.
  <2>7. ASSUME NEW p \in Ordered, idom[p] # NoBlock, num[p] < at PROVE ~OnWay(f, p, b)
    <3>1. ~(num[b] <= num[p])
      BY <2>1, <2>4, <2>7
    <3> QED BY <2>1, <2>2, <2>4, <3>1, WayEarlier
  <2>8. ASSUME NEW p \in Ordered, num[p] < at PROVE idom[p] # NoBlock
    <3>1. num[p] \in DOMAIN rpo /\ rpo[num[p]] = p
      BY <1>1, <2>3, OrderFacts
    <3> QED BY <1>1, <2>3, <2>8, <3>1 DEF Passed
  <2>9. ASSUME NEW c \in Ordered \ {root}, NEW p \in Ordered, idom'[c] # NoBlock, num[p] < num[c]
        PROVE  /\ idom'[p] # NoBlock
               /\ Links(p, c) /\ num[c] < at + 1 => OnWay(h, p, idom'[c])
               /\ \A w \in Nodes : Links(p, c) /\ num[w] >= at + 1 /\ OnWay(h, idom'[c], w) => OnWay(h, p, w)
    <3>1. c \in Nodes /\ p \in Nodes /\ num[c] \in Nat /\ num[p] \in Nat
      BY <2>4
    <3>2. CASE c = b
      <4>1. num[p] < at /\ idom[p] # NoBlock /\ p # b
        BY <2>1, <2>4, <2>8, <2>9, <3>1, <3>2
      <4>2. idom'[p] # NoBlock
        BY <2>1, <3>1, <4>1
      <4>3. ASSUME Links(p, c) PROVE OnWay(h, p, idom'[c])
        <5>1. p \in Processed(b)
          BY <1>1, <2>1, <2>3, <3>1, <3>2, <4>1, <4>3, ProcessedFacts
        <5>2. OnWay(f, p, one)
          BY <2>1, <2>2, <5>1
        <5>3. ~OnWay(f, p, b)
          BY <2>7, <4>1
        <5>4. OnWay(h, p, one)
          BY <2>1, <2>6, <3>1, <5>2, <5>3, WayStays
        <5> QED BY <2>1, <3>2, <5>4
      <4>4. \A w \in Nodes : num[w] >= at + 1 => ~OnWay(h, idom'[c], w)
        <5> SUFFICES ASSUME NEW w \in Nodes, num[w] >= at + 1, OnWay(h, one, w) PROVE FALSE
          BY <2>1, <3>2
        <5>1. num[w] <= num[one]
          BY <2>1, <2>2, <2>4, WayEarlier
        <5>2. num[w] \in Nat /\ num[one] \in Nat /\ num[one] < at
          BY <2>1, <2>4
        <5> QED BY <2>4, <5>1, <5>2
      <4> QED BY <4>2, <4>3, <4>4
    <3>3. CASE c # b
      <4>1. idom'[c] = idom[c] /\ idom[c] # NoBlock /\ idom[c] \in Nodes
        BY <1>1, <2>1, <2>3, <2>4, <2>9, <3>1, <3>3 DEF Climbs
      <4>2. /\ idom[p] # NoBlock
            /\ Links(p, c) /\ num[c] < at => Over(idom[c], p)
            /\ \A w \in Nodes : Links(p, c) /\ num[w] >= at /\ Over(w, idom[c]) => Over(w, p)
        BY <2>3, <2>9, <4>1 DEF Forward
      <4>3. idom'[p] # NoBlock
        BY <2>1, <3>1, <4>2
      <4>4. ASSUME Links(p, c), num[c] < at + 1 PROVE OnWay(h, p, idom'[c])
        <5>1. num[c] # at
          BY <2>1, <2>4, <3>3
        <5>2. num[c] < at /\ num[p] < at
          BY <2>4, <2>9, <3>1, <4>4, <5>1
        <5>3. OnWay(f, p, idom[c])
          BY <2>2, <4>2, <4>4, <5>2
        <5>4. ~OnWay(f, p, b)
          BY <2>7, <4>2, <5>2
        <5>5. OnWay(h, p, idom[c])
          BY <2>1, <2>6, <3>1, <5>3, <5>4, WayStays
        <5> QED BY <4>1, <5>5
      <4>5. ASSUME NEW w \in Nodes, Links(p, c), num[w] >= at + 1, OnWay(h, idom'[c], w) PROVE OnWay(h, p, w)
        <5>1. num[w] >= num[b] /\ num[w] >= at
          BY <2>1, <2>4, <4>5
        <5>2. OnWay(h, idom[c], w)
          BY <4>1, <4>5
        <5>3. \A x \in Nodes : x # b => f[x] = h[x]
          BY <2>6
        <5>4. OnWay(f, idom[c], w)
          BY <2>1, <2>2, <2>4, <4>1, <5>1, <5>2, <5>3, LateWayStays
        <5>5. OnWay(f, p, w)
          BY <2>2, <4>2, <4>5, <5>1, <5>4
        <5> QED BY <2>1, <2>2, <2>4, <2>6, <3>1, <5>1, <5>5, LateWayStays
      <4> QED BY <4>3, <4>4, <4>5
    <3> QED BY <3>2, <3>3
  <2>10. /\ \A c, p : Over(idom[c], p)' <=> OnWay(h, p, idom'[c])
         /\ \A w, c : Over(w, idom[c])' <=> OnWay(h, idom'[c], w)
    <3>1. \A a, x : Route(UpArcs', x, a) <=> OnWay(h, x, a)
      BY <2>2 DEF Over
    <3> QED BY <3>1 DEF Over
  <2> QED BY <2>1, <2>2, <2>5, <2>9, <2>10 DEF Forward
<1>4. CASE EndPass
  <2>1. UNCHANGED <<arcs, root, rpo, num, idom>> /\ stage = "pass" /\ at > Len(rpo)
    BY <1>4 DEF EndPass
  <2>2. at' = 2
    BY <1>4 DEF EndPass
  <2>3. stage \in Passing /\ at \in Nat
    BY <1>1, <2>1 DEF Passing, DomTypeOK
  <2>4. Ordered' = Ordered /\ Nodes' = Nodes /\ root' = root /\ num' = num /\ idom' = idom
    BY <2>1 DEF Ordered, Nodes
  <2>5. /\ \A p, c : Links(p, c)' <=> Links(p, c)
        /\ \A c, p : Over(idom[c], p)' <=> Over(idom[c], p)
        /\ \A w, p : Over(w, p)' <=> Over(w, p)
        /\ \A w, c : Over(w, idom[c])' <=> Over(w, idom[c])
    BY <2>1, <2>4 DEF Links, Over, UpArcs, Above
  <2>6. ASSUME NEW c \in Ordered \ {root}, NEW p \in Ordered, idom[c] # NoBlock, num[p] < num[c]
        PROVE  /\ idom[p] # NoBlock
               /\ ~(num[c] < 2)
               /\ \A w \in Nodes : Links(p, c) /\ Over(w, idom[c]) => Over(w, p)
    <3>1. num[c] \in DOMAIN rpo /\ DOMAIN rpo = 1 .. Len(rpo) /\ Len(rpo) \in Nat /\ num[p] \in DOMAIN rpo
      BY <1>1, <2>3, OrderFacts
    <3>2. num[c] < at /\ ~(num[c] < 2)
      BY <2>1, <2>3, <2>6, <3>1
    <3>3. idom[p] # NoBlock /\ (Links(p, c) => Over(idom[c], p))
      BY <2>1, <2>6, <3>2 DEF Forward
    <3>4. \A a, x, y : Over(a, x) /\ Over(x, y) => Over(a, y)
      BY <1>1, <2>3, OverFacts
    <3> QED BY <3>2, <3>3, <3>4
  <2> QED BY <2>2, <2>4, <2>5, <2>6 DEF Forward
<1>5. CASE UNCHANGED <<arcs, root, rpo, num, idom, at>> /\ stage \in {"pass", "meet"}
  <2>1. Ordered' = Ordered /\ Nodes' = Nodes
    BY <1>5 DEF Ordered, Nodes
  <2>2. /\ \A p, c : Links(p, c)' <=> Links(p, c)
        /\ \A c, p : Over(idom[c], p)' <=> Over(idom[c], p)
        /\ \A w, p : Over(w, p)' <=> Over(w, p)
        /\ \A w, c : Over(w, idom[c])' <=> Over(w, idom[c])
    BY <1>5, <2>1 DEF Links, Over, UpArcs, Above
  <2> QED BY <1>5, <2>1, <2>2 DEF Forward
<1>6. BeginBlock \/ NextPredecessor \/ Climb \/ UNCHANGED domVars
        => UNCHANGED <<arcs, root, rpo, num, idom, at>> /\ stage \in {"pass", "meet"}
  <2>1. BeginBlock => UNCHANGED <<arcs, root, rpo, num, idom, at>> /\ stage \in {"pass", "meet"}
    BY <1>1, BeginBlockFacts
  <2> QED BY <2>1 DEF NextPredecessor, Climb, domVars
<1>7. ~Descend /\ ~Ascend /\ ~\E g \in FlowGraphs : \E e \in DOMAIN g : CallDominators(g, e)
  BY DEF Descend, Ascend, CallDominators
<1> QED BY <1>2, <1>3, <1>4, <1>5, <1>6, <1>7 DEF DomNext, DomStep

LEMMA NearestStep ==
  DomInv /\ Forward /\ Nearest /\ Joins /\ [DomNext]_domVars => Nearest'
<1> SUFFICES ASSUME DomInv, Forward, Nearest, Joins, [DomNext]_domVars, stage' \in {"pass", "meet"}
             PROVE Nearest'
  BY DEF Nearest
<1>1. DomTypeOK /\ Descent /\ Callers /\ Orders /\ Climbs /\ Passed /\ Meets
  BY DEF DomInv
<1>2. CASE EndOrder
  <2>1. Nodes' = Nodes /\ root' = root /\ rpo' \in Seq(Nodes)
    BY <1>1, <1>2, EndOrderFacts
  <2>2. idom' = [b \in Nodes |-> IF b = root THEN root ELSE NoBlock]
    BY <1>2 DEF EndOrder, Nodes
  <2>3. \A c \in Ordered' : c \in Nodes
    <3>1. \A i \in DOMAIN rpo' : rpo'[i] \in Nodes
      BY <2>1, LenProperties, ElementOfSeq
    <3> QED BY <3>1 DEF Ordered
  <2>4. \A c \in Ordered' \ {root'} : idom'[c] = NoBlock
    BY <2>1, <2>2, <2>3
  <2> QED BY <2>4 DEF Nearest
<1>3. CASE EndBlock
  <2>1. PICK b \in Ordered \ {root} :
           /\ UNCHANGED <<arcs, root, rpo, num, tree>>
           /\ stage = "meet" /\ stage' = "pass" /\ at' = at + 1 /\ at \in DOMAIN rpo
           /\ b = rpo[at] /\ b \in Nodes /\ num[b] = at
           /\ idom' \in [Nodes -> Nodes \cup {NoBlock}] /\ idom'[b] = one
           /\ \A x \in Nodes : x # b => idom'[x] = idom[x]
           /\ one \in Ordered /\ one \in Nodes /\ one # NoBlock /\ idom[one] # NoBlock
           /\ one # b /\ num[one] < num[b]
           /\ \A a \in Nodes : a # b /\ Forced(a, b) => Forced(a, one)
           /\ \A q \in Processed(b) : Over(one, q)
           /\ changed' = (changed \/ idom[b] # one)
           /\ idom[b] = one => idom' = idom
    BY <1>1, <1>3, EndBlockFacts
  <2>2. PICK f \in [Nodes -> Nodes], h \in [Nodes -> Nodes] :
           /\ \A a, x : Over(a, x) <=> OnWay(f, x, a)
           /\ \A a, x : Over(a, x)' <=> OnWay(h, x, a)
           /\ \A x \in Nodes : f[x] = x \/ num[f[x]] < num[x]
           /\ \A x \in Nodes : h[x] = x \/ num[h[x]] < num[x]
           /\ \A x \in Nodes : x # rpo[at] => h[x] = f[x]
           /\ h[rpo[at]] = one
           /\ \A q \in Nodes : idom[q] # NoBlock => OnWay(f, rpo[at], one) \/ ~OnWay(f, q, rpo[at])
    BY <1>1, <1>3, LiftFacts
  <2>3. stage \in Passing /\ stage \in {"pass", "meet"} /\ others = {}
    BY <1>3, <2>1 DEF Passing, EndBlock
  <2>4. /\ Ordered \in SUBSET Nodes /\ num \in [Nodes -> Nat] /\ at \in Nat
        /\ Nodes' = Nodes /\ Ordered' = Ordered
    <3>1. Ordered \in SUBSET Nodes
      BY <1>1, <2>3, OrderFacts
    <3>2. num \in [Nodes -> Nat] /\ at \in Nat
      BY <1>1, <2>3 DEF DomTypeOK
    <3>3. Nodes' = Nodes /\ Ordered' = Ordered
      BY <2>1 DEF Nodes, Ordered
    <3> QED BY <3>1, <3>2, <3>3
  <2>5. \A x \in Nodes : x # b => h[x] = f[x]
    BY <2>1, <2>2
  <2>6. \A c : Processed(c) \subseteq Processed(c)'
    <3>1. \A x \in Nodes : idom[x] # NoBlock => idom'[x] # NoBlock
      BY <2>1
    <3> QED BY <2>1, <3>1 DEF Processed, Nodes
  <2>7. ASSUME NEW c \in Ordered \ {root}, NEW z \in Nodes, idom'[c] # NoBlock,
               \A q \in Processed(c)' : OnWay(h, q, z)
        PROVE  OnWay(h, idom'[c], z)
    <3>1. c \in Nodes /\ Processed(c) \subseteq Nodes /\ \A q \in Processed(c) : idom[q] # NoBlock
      BY <2>4 DEF Processed, Nodes
    <3>2. \A q \in Processed(c) : OnWay(f, q, z)
      <4> SUFFICES ASSUME NEW q \in Processed(c) PROVE OnWay(f, q, z)
        OBVIOUS
      <4>1. OnWay(h, q, z) /\ q \in Nodes
        BY <2>6, <2>7, <3>1
      <4>2. OnWay(f, b, h[b]) \/ ~OnWay(f, q, b)
        BY <2>1, <2>2, <3>1
      <4> QED BY <2>1, <2>5, <4>1, <4>2, WayWas
    <3>3. CASE c = b
      <4>1. Over(z, one)
        <5>1. \A q \in Processed(rpo[at]) \ others : Over(z, q)
          BY <2>1, <2>2, <3>2, <3>3
        <5> QED BY <2>1, <5>1 DEF Joins
      <4>2. OnWay(f, one, z)
        BY <2>2, <4>1
      <4>3. ~OnWay(f, one, b)
        <5>1. num[one] \in Nat /\ num[b] \in Nat
          BY <2>1, <2>4
        <5>2. ~(num[b] <= num[one])
          BY <2>1, <5>1
        <5> QED BY <2>1, <2>2, <2>4, <5>2, WayEarlier
      <4>4. OnWay(h, one, z)
        BY <2>1, <2>5, <4>2, <4>3, WayStays
      <4> QED BY <2>1, <3>3, <4>4
    <3>4. CASE c # b
      <4>1. idom'[c] = idom[c] /\ idom[c] # NoBlock /\ idom[c] \in Nodes
        BY <1>1, <2>1, <2>3, <2>4, <2>7, <3>1, <3>4 DEF Climbs
      <4>2. Over(z, idom[c])
        BY <2>2, <2>3, <3>2, <4>1 DEF Nearest
      <4>3. PICK p \in Ordered : Links(p, c) /\ num[p] < num[c]
        BY <1>1, <2>3 DEF Orders
      <4>4. p \in Nodes /\ idom[p] # NoBlock
        BY <2>3, <2>4, <4>1, <4>3 DEF Forward
      <4>5. Over(b, idom[c]) => Over(b, p)
        <5>1. num[b] >= at
          BY <2>1, <2>4
        <5> QED BY <2>1, <2>3, <4>1, <4>3, <5>1 DEF Forward
      <4>6. p \in Processed(c)
        BY <1>1, <2>3, <3>1, <4>3, <4>4, ProcessedFacts
      <4>7. OnWay(h, p, z)
        BY <2>6, <2>7, <4>6
      <4>8. OnWay(f, idom[c], b) => OnWay(f, p, b)
        BY <2>2, <4>5
      <4>9. OnWay(f, idom[c], z)
        BY <2>2, <4>2
      <4>10. num[h[b]] < num[b]
        BY <2>1, <2>2
      <4>11. OnWay(h, idom[c], z)
        <5>1. b \in Nodes /\ idom[c] \in Nodes /\ p \in Nodes /\ num \in [Nodes -> Nat]
          BY <2>1, <2>4, <4>1, <4>4
        <5>2. \A x \in Nodes : f[x] = x \/ num[f[x]] < num[x]
          BY <2>2
        <5> QED BY <2>5, <4>7, <4>8, <4>9, <4>10, <5>1, <5>2, AboveStays
      <4> QED BY <4>1, <4>11
    <3> QED BY <3>3, <3>4
  <2>8. \A z, c : Over(z, idom[c])' <=> OnWay(h, idom'[c], z)
    <3>1. \A a, x : Route(UpArcs', x, a) <=> OnWay(h, x, a)
      BY <2>2 DEF Over
    <3> QED BY <3>1 DEF Over
  <2> QED BY <2>1, <2>2, <2>4, <2>7, <2>8 DEF Nearest
<1>4. CASE UNCHANGED <<arcs, root, rpo, idom>> /\ stage \in {"pass", "meet"}
  <2>1. Ordered' = Ordered /\ Nodes' = Nodes
    BY <1>4 DEF Ordered, Nodes
  <2>2. /\ \A c : Processed(c)' = Processed(c)
        /\ \A z, q : Over(z, q)' <=> Over(z, q)
        /\ \A z, c : Over(z, idom[c])' <=> Over(z, idom[c])
    BY <1>4, <2>1 DEF Processed, Over, UpArcs, Above
  <2> QED BY <1>4, <2>1, <2>2 DEF Nearest
<1>5. BeginBlock \/ NextPredecessor \/ Climb \/ EndPass \/ UNCHANGED domVars
        => UNCHANGED <<arcs, root, rpo, idom>> /\ stage \in {"pass", "meet"}
  <2>1. BeginBlock => UNCHANGED <<arcs, root, rpo, idom>> /\ stage \in {"pass", "meet"}
    BY <1>1, BeginBlockFacts
  <2> QED BY <2>1 DEF NextPredecessor, Climb, EndPass, domVars
<1>6. ~Descend /\ ~Ascend /\ ~\E g \in FlowGraphs : \E e \in DOMAIN g : CallDominators(g, e)
  BY DEF Descend, Ascend, CallDominators
<1> QED BY <1>2, <1>3, <1>4, <1>5, <1>6 DEF DomNext, DomStep

LEMMA JoinsStep == DomInv /\ Joins /\ [DomNext]_domVars => Joins'
<1> SUFFICES ASSUME DomInv, Joins, [DomNext]_domVars, stage' = "meet" PROVE Joins'
  BY DEF Joins
<1>1. DomTypeOK /\ Orders /\ Climbs /\ Passed /\ Meets
  BY DEF DomInv
<1> DEFINE P == Processed(rpo[at])
<1>2. ASSUME UNCHANGED <<arcs, rpo, idom, at>>,
             \A z \in Nodes : (\A q \in P \ others' : Over(z, q)) => Over(z, one') /\ Over(z, other')
      PROVE  Joins'
  <2>1. Nodes' = Nodes /\ Processed(rpo[at])' = P
    BY <1>2 DEF Nodes, Processed
  <2>2. /\ \A z, q : Over(z, q)' <=> Over(z, q)
        /\ \A z : Over(z, one)' <=> Over(z, one')
        /\ \A z : Over(z, other)' <=> Over(z, other')
    BY <1>2, <2>1 DEF Over, UpArcs, Above
  <2> QED BY <1>2, <2>1, <2>2 DEF Joins
<1>3. CASE BeginBlock
  <2>1. UNCHANGED <<arcs, rpo, idom, at>>
    BY <1>1, <1>3, BeginBlockFacts
  <2>2. PICK p \in P : one' = p /\ other' = p /\ others' = P \ {p}
    BY <1>1, <1>3, BeginBlockFacts
  <2> QED BY <1>2, <2>1, <2>2
<1>4. CASE NextPredecessor
  <2>1. /\ UNCHANGED <<arcs, rpo, idom, at, one>> /\ stage = "meet"
        /\ other' \in others /\ others' = others \ {other'} /\ other' \in P
    BY <1>1, <1>4, NextPredecessorFacts
  <2>2. \A z \in Nodes : (\A q \in P \ others : Over(z, q)) => Over(z, one)
    BY <2>1 DEF Joins
  <2>3. \A z \in Nodes : (\A q \in P \ others' : Over(z, q)) => Over(z, one') /\ Over(z, other')
    BY <2>1, <2>2
  <2> QED BY <1>2, <2>1, <2>3
<1>5. CASE Climb
  <2>1. /\ UNCHANGED <<arcs, rpo, idom, at, others>> /\ stage = "meet" /\ stage \in Passing
        /\ \/ num[one] > num[other] /\ one' = Above(one) /\ other' = other
           \/ num[other] > num[one] /\ other' = Above(other) /\ one' = one
    BY <1>1, <1>5, ClimbFacts DEF Passing
  <2>2. ASSUME NEW x \in {one, other}, NEW y \in {one, other}, num[x] > num[y], NEW z \in Nodes,
               Over(z, x), Over(z, y)
        PROVE  Over(z, Above(x))
    <3>1. x \in Ordered /\ x \in Nodes /\ y \in Ordered /\ idom[y] # NoBlock /\ num[x] \in Nat /\ num[y] \in Nat
      BY <1>1, <2>1, MeetingFacts
    <3>2. z # x
      <4>1. z = x => num[x] <= num[y]
        BY <1>1, <2>1, <2>2, <3>1, OverEarlier
      <4> QED BY <2>2, <3>1, <4>1
    <3> QED BY <1>1, <2>1, <2>2, <3>1, <3>2, UpFacts
  <2>3. \A z \in Nodes : (\A q \in P \ others : Over(z, q)) => Over(z, one) /\ Over(z, other)
    BY <2>1 DEF Joins
  <2>4. \A z \in Nodes : (\A q \in P \ others' : Over(z, q)) => Over(z, one') /\ Over(z, other')
    BY <2>1, <2>2, <2>3
  <2> QED BY <1>2, <2>1, <2>4
<1>6. CASE UNCHANGED domVars
  <2>1. UNCHANGED <<arcs, rpo, idom, at, one, other, others, stage>>
    BY <1>6 DEF domVars
  <2>2. \A z \in Nodes : (\A q \in P \ others : Over(z, q)) => Over(z, one) /\ Over(z, other)
    BY <2>1 DEF Joins
  <2> QED BY <1>2, <2>1, <2>2
<1>7. ~Descend /\ ~Ascend /\ ~EndOrder /\ ~EndBlock /\ ~EndPass
      /\ ~\E g \in FlowGraphs : \E e \in DOMAIN g : CallDominators(g, e)
  BY DEF Descend, Ascend, EndOrder, EndBlock, EndPass, CallDominators
<1> QED BY <1>3, <1>4, <1>5, <1>6, <1>7 DEF DomNext, DomStep

LEMMA RiseInvariance == DomSpec => []RiseInv
<1>1. DomInit => Forward /\ Nearest /\ Joins
  BY DEF DomInit, Forward, Nearest, Joins
<1>2. DomInv /\ Forward /\ Nearest /\ Joins /\ [DomNext]_domVars => Forward' /\ Nearest' /\ Joins'
  BY ForwardStep, NearestStep, JoinsStep
<1> QED BY <1>1, <1>2, DomInvariance, PTL DEF DomSpec, RiseInv

\* The passes end, whatever the graph: one follows only a pass that changed something, and a block
\* that has a dominator only ever gets an earlier one, of which there are finitely many
\* (DomTree::compute).
THEOREM DominatorsRise == DomSpec => IdomsRise
<1>1. RiseInv /\ [DomNext]_domVars =>
        [stage = "meet" /\ stage' = "pass" =>
           /\ changed' <=> changed \/ idom' # idom
           /\ \A b \in DOMAIN idom : idom'[b] # idom[b] =>
                idom'[b] # NoBlock /\ (idom[b] = NoBlock \/ num[idom'[b]] < num[idom[b]])]_domVars
  <2> SUFFICES ASSUME RiseInv, DomNext, stage = "meet", stage' = "pass"
               PROVE  /\ changed' <=> changed \/ idom' # idom
                      /\ \A b \in DOMAIN idom : idom'[b] # idom[b] =>
                           idom'[b] # NoBlock /\ (idom[b] = NoBlock \/ num[idom'[b]] < num[idom[b]])
    OBVIOUS
  <2>1. DomTypeOK /\ Descent /\ Callers /\ Orders /\ Climbs /\ Passed /\ Meets /\ Nearest
    BY DEF RiseInv, DomInv
  <2>2. EndBlock
    BY DEF DomNext, DomStep, Descend, Ascend, EndOrder, BeginBlock, NextPredecessor, Climb, EndPass,
           CallDominators
  <2>3. PICK b \in Ordered \ {root} :
           /\ UNCHANGED <<arcs, root, rpo, num, tree>>
           /\ b \in Nodes
           /\ idom' \in [Nodes -> Nodes \cup {NoBlock}] /\ idom'[b] = one
           /\ \A x \in Nodes : x # b => idom'[x] = idom[x]
           /\ one \in Ordered /\ one # NoBlock
           /\ \A q \in Processed(b) : Over(one, q)
           /\ changed' = (changed \/ idom[b] # one)
           /\ idom[b] = one => idom' = idom
    BY <2>1, <2>2, EndBlockFacts
  <2>4. stage \in Passing /\ idom \in [Nodes -> Nodes \cup {NoBlock}] /\ Ordered \in SUBSET Nodes
    BY <2>1, OrderFacts DEF Passing, DomTypeOK
  <2>5. changed' <=> changed \/ idom' # idom
    BY <2>3
  <2>6. ASSUME idom[b] # NoBlock, idom[b] # one PROVE num[one] < num[idom[b]]
    <3>1. Over(one, idom[b])
      BY <2>1, <2>3, <2>4, <2>6 DEF Nearest
    <3>2. idom[b] \in Ordered /\ idom[idom[b]] # NoBlock
      BY <2>1, <2>3, <2>4, <2>6 DEF Climbs
    <3>3. num[one] <= num[idom[b]]
      BY <2>1, <2>4, <3>1, <3>2, OverEarlier
    <3>4. rpo[num[one]] = one /\ rpo[num[idom[b]]] = idom[b]
      BY <2>1, <2>3, <2>4, <3>2, OrderFacts
    <3>5. num[one] # num[idom[b]]
      BY <2>6, <3>4
    <3>6. num[one] \in Nat /\ num[idom[b]] \in Nat
      BY <2>1, <2>3, <2>4, <3>2, OrderFacts
    <3> QED BY <3>3, <3>5, <3>6
  <2>7. \A x \in DOMAIN idom : idom'[x] # idom[x] =>
          idom'[x] # NoBlock /\ (idom[x] = NoBlock \/ num[idom'[x]] < num[idom[x]])
    BY <2>3, <2>4, <2>6
  <2> QED BY <2>5, <2>7
<1> QED BY <1>1, RiseInvariance, PTL DEF DomSpec, IdomsRise
=============================================================================
