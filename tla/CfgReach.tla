-------------------------------- MODULE CfgReach --------------------------------
(***************************************************************************)
(* CfgReachability::compute of web-ql/src/cfg.rs: what every block of a    *)
(* control-flow graph leads to.  Tarjan's algorithm (tarjan_sccs) with the *)
(* stack the code keeps instead of recursing, then one pass over the       *)
(* components in the order in which they were found: those that a          *)
(* component leads to come before it.                                      *)
(***************************************************************************)
EXTENDS FlowGraph

VARIABLES
  succs,       \* the graph
  phase,       \* "idle", "search", "union" or "done"
  start,       \* the search has begun at the blocks below this one
  work,        \* a block, how many successors were looked at
  counter,     \* index_counter
  index, low,  \* indices and lowlink
  tarjan,      \* tarjan_stack; on_stack are its elements
  sccMembers,  \* scc_members; scc_id is where a block is in it
  sccReach,    \* scc_reach
  reach        \* the result

reachVars == <<succs, phase, start, work, counter, index, low, tarjan, sccMembers, sccReach, reach>>

Unset == -1   \* usize::MAX

ReachInit ==
  /\ succs = <<>> /\ phase = "idle" /\ start = 0
  /\ work = <<>> /\ counter = 0 /\ index = <<>> /\ low = <<>> /\ tarjan = <<>>
  /\ sccMembers = <<>> /\ sccReach = <<>> /\ reach = <<>>

\* The function is called with a graph.
CallReach(g) ==
  /\ phase = "idle"
  /\ succs' = g /\ phase' = "search"
  /\ index' = [b \in DOMAIN g |-> Unset]
  /\ low' = [b \in DOMAIN g |-> 0]
  /\ UNCHANGED <<start, work, counter, tarjan, sccMembers, sccReach, reach>>

-----------------------------------------------------------------------------
(* tarjan_sccs.                                                            *)

Least(a, b) == IF a <= b THEN a ELSE b
OnStack(b) == \E i \in DOMAIN tarjan : tarjan[i] = b
Node == work[Len(work)].block
Seen == work[Len(work)].seen
Advanced == [work EXCEPT ![Len(work)].seen = @ + 1]

\* A block gets its number and comes on both stacks.
Discover(w, stack) ==
  /\ index' = [index EXCEPT ![w] = counter]
  /\ low' = [low EXCEPT ![w] = counter]
  /\ counter' = counter + 1
  /\ tarjan' = Append(tarjan, w)
  /\ work' = Append(stack, [block |-> w, seen |-> 0])

\* `for start in 0..n`
BeginSearch ==
  /\ phase = "search" /\ work = <<>> /\ start \in DOMAIN succs
  /\ start' = start + 1
  /\ IF index[start] = Unset THEN Discover(start, <<>>)
     ELSE UNCHANGED <<index, low, counter, tarjan, work>>
  /\ UNCHANGED <<succs, phase, sccMembers, sccReach, reach>>

\* The block on top of the stack has a next successor.
See ==
  /\ phase = "search" /\ work # <<>> /\ Seen < Len(succs[Node])
  /\ \E w \in {succs[Node][Seen + 1]} :
       IF index[w] = Unset THEN Discover(w, Advanced)
       ELSE /\ work' = Advanced
            /\ low' = IF OnStack(w) THEN [low EXCEPT ![Node] = Least(@, index[w])] ELSE low
            /\ UNCHANGED <<index, counter, tarjan>>
  /\ UNCHANGED <<succs, phase, start, sccMembers, sccReach, reach>>

\* It has no further one: what it leads to is what its parent leads to, and if none of that
\* was numbered before it, the blocks above it on the stack are its component.
Retreat ==
  /\ phase = "search" /\ work # <<>> /\ Seen >= Len(succs[Node])
  /\ work' = Front(work)
  /\ low' = IF Len(work) = 1 THEN low
            ELSE [low EXCEPT ![work[Len(work) - 1].block] = Least(@, low[Node])]
  /\ IF low[Node] # index[Node] THEN UNCHANGED <<tarjan, sccMembers>>
     ELSE \E from \in DOMAIN tarjan :
            /\ tarjan[from] = Node
            /\ tarjan' = SubSeq(tarjan, 1, from - 1)
            /\ sccMembers' = Append(sccMembers, {tarjan[i] : i \in from .. Len(tarjan)})
  /\ UNCHANGED <<succs, phase, start, counter, index, sccReach, reach>>

EndSearch ==
  /\ phase = "search" /\ work = <<>> /\ start \notin DOMAIN succs
  /\ phase' = "union"
  /\ UNCHANGED <<succs, start, work, counter, index, low, tarjan, sccMembers, sccReach, reach>>

-----------------------------------------------------------------------------
(* CfgReachability::compute.                                               *)

SccId(b) == CHOOSE i \in DOMAIN sccMembers : b \in sccMembers[i]
SuccSccs(i) == {SccId(w) : w \in UNION {Range(succs[m]) : m \in sccMembers[i]}} \ {i}

\* `for members in &scc_members`
Union ==
  /\ phase = "union" /\ Len(sccReach) < Len(sccMembers)
  /\ \E i \in {Len(sccReach) + 1} :
       sccReach' = Append(sccReach, sccMembers[i] \cup UNION {sccReach[k] : k \in SuccSccs(i)})
  /\ UNCHANGED <<succs, phase, start, work, counter, index, low, tarjan, sccMembers, reach>>

EndUnion ==
  /\ phase = "union" /\ Len(sccReach) = Len(sccMembers)
  /\ reach' = [b \in DOMAIN succs |-> sccReach[SccId(b)]]
  /\ phase' = "done"
  /\ UNCHANGED <<succs, start, work, counter, index, low, tarjan, sccMembers, sccReach>>

ReachStep == BeginSearch \/ See \/ Retreat \/ EndSearch \/ Union \/ EndUnion
ReachNext == (\E g \in FlowGraphs : CallReach(g)) \/ ReachStep
ReachSpec == ReachInit /\ [][ReachNext]_reachVars

-----------------------------------------------------------------------------
(* Properties.                                                             *)

\* A block reaches the blocks it leads to and no others (CfgReachability::compute).
ReachIsExact ==
  phase = "done" => reach = [a \in DOMAIN succs |-> LedTo(succs, a)]

\* tarjan_sccs: blocks are in one component when they lead to each other, and the components
\* a component leads to are before it, as its documentation says.
ComponentsAreExact ==
  phase \in {"union", "done"} =>
    \A a, b \in DOMAIN succs :
      /\ SccId(a) = SccId(b) <=> b \in LedTo(succs, a) /\ a \in LedTo(succs, b)
      /\ b \in LedTo(succs, a) => SccId(b) <= SccId(a)

\* Nothing panics: the stack holds the block whose component is taken off it ("SCC stack must
\* contain v"), every block has its scc_id when scc_reach is indexed by it, and scc_reach has
\* the entries that Union and EndUnion index.
NothingPanics ==
  /\ phase = "search" /\ work # <<>> => OnStack(Node)
  /\ phase = "union" => \A b \in DOMAIN succs : \E i \in DOMAIN sccMembers : b \in sccMembers[i]
  /\ phase = "union" /\ Len(sccReach) < Len(sccMembers) =>
       SuccSccs(Len(sccReach) + 1) \subseteq DOMAIN sccReach
  /\ phase = "union" /\ Len(sccReach) = Len(sccMembers) =>
       \A b \in DOMAIN succs : SccId(b) \in DOMAIN sccReach
=============================================================================
