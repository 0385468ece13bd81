-------------------------------- MODULE CfgSccs --------------------------------
(***************************************************************************)
(* compute_cfg_sccs of web-sitter/src/cfg.rs: the strongly connected       *)
(* components of a control-flow graph, in the order in which the           *)
(* incremental dataflow works through them.  Kosaraju's two passes, with   *)
(* the stacks the code keeps instead of recursing:                         *)
(*                                                                         *)
(*   "finish"   a depth-first search of the graph puts every block on      *)
(*              finish_stack when it is left                               *)
(*   "collect"  from the last of them on, what leads to a block is its     *)
(*              component, but for the blocks that have one                *)
(*   "arrange"  a depth-first search inside a component puts its blocks    *)
(*              in reverse postorder                                       *)
(***************************************************************************)
EXTENDS FlowGraph

VARIABLES
  nexts,     \* adj
  pass,      \* "idle", "finish", "collect", "arrange" or "done"
  upto,      \* the first pass has started at the blocks below this one
  path,      \* the stack of a depth-first search: a block, how many successors were looked at
  visited,   \* the blocks that were on a stack in this pass, or for this component
  finished,  \* finish_stack; in the third pass rpo_stack
  pending,   \* the stack of the second pass, in any order
  comps,     \* scc_members: of each component its first block, and all of them
  sccs       \* the result

sccVars == <<nexts, pass, upto, path, visited, finished, pending, comps, sccs>>

SccInit ==
  /\ nexts = <<>> /\ pass = "idle" /\ upto = 0
  /\ path = <<>> /\ visited = {} /\ finished = <<>> /\ pending = {}
  /\ comps = <<>> /\ sccs = <<>>

\* The function is called with a graph.
CallSccs(g) ==
  /\ pass = "idle"
  /\ nexts' = g /\ pass' = "finish"
  /\ UNCHANGED <<upto, path, visited, finished, pending, comps, sccs>>

-----------------------------------------------------------------------------
(* Depth-first search, of all blocks or inside the component to arrange.   *)

Component == comps[Len(sccs) + 1]
Inside == IF pass = "finish" THEN DOMAIN nexts ELSE Component.members
Top == path[Len(path)]
MoreToSee == Top.seen < Len(nexts[Top.block])

Successor == nexts[Top.block][Top.seen + 1]
Counted == [path EXCEPT ![Len(path)].seen = @ + 1]

\* The block on top of the stack has a next successor.
Look ==
  /\ path # <<>> /\ MoreToSee
  /\ IF Successor \in Inside \ visited
       THEN /\ path' = Append(Counted, [block |-> Successor, seen |-> 0])
            /\ visited' = visited \cup {Successor}
       ELSE /\ path' = Counted
            /\ visited' = visited
  /\ UNCHANGED <<nexts, pass, upto, finished, pending, comps, sccs>>

\* It has no further one.
Leave ==
  /\ path # <<>> /\ ~MoreToSee
  /\ finished' = Append(finished, Top.block)
  /\ path' = Front(path)
  /\ UNCHANGED <<nexts, pass, upto, visited, pending, comps, sccs>>

-----------------------------------------------------------------------------
(* The passes.                                                             *)

\* `for start in 0..n`
Begin1 ==
  /\ pass = "finish" /\ path = <<>> /\ upto \in DOMAIN nexts
  /\ upto' = upto + 1
  /\ IF upto \in visited THEN UNCHANGED <<path, visited>>
     ELSE /\ path' = <<[block |-> upto, seen |-> 0]>>
          /\ visited' = visited \cup {upto}
  /\ UNCHANGED <<nexts, pass, finished, pending, comps, sccs>>

End1 ==
  /\ pass = "finish" /\ path = <<>> /\ upto \notin DOMAIN nexts
  /\ pass' = "collect" /\ visited' = {}
  /\ UNCHANGED <<nexts, upto, path, finished, pending, comps, sccs>>

\* `while let Some(start) = finish_stack.pop()`
Begin2 ==
  /\ pass = "collect" /\ pending = {} /\ finished # <<>>
  /\ finished' = Front(finished)
  /\ IF Last(finished) \in visited THEN UNCHANGED <<visited, pending, comps>>
     ELSE /\ visited' = visited \cup {Last(finished)}
          /\ pending' = {Last(finished)}
          /\ comps' = Append(comps, [first |-> Last(finished), members |-> {}])
  /\ UNCHANGED <<nexts, pass, upto, path, sccs>>

\* Mutant: the second pass goes forward, too.
LedToBy(b) == {nexts[b][i] : i \in DOMAIN nexts[b]}
\* radj
LeadingTo(b) == {a \in DOMAIN nexts : \E i \in DOMAIN nexts[a] : nexts[a][i] = b}

\* A block of the component, and what leads to it.
Gather ==
  /\ pass = "collect"
  /\ \E b \in pending :
       /\ pending' = (pending \ {b}) \cup (LeadingTo(b) \ visited)
       /\ visited' = visited \cup LeadingTo(b)
       /\ comps' = [comps EXCEPT ![Len(comps)].members = @ \cup {b}]
  /\ UNCHANGED <<nexts, pass, upto, path, finished, sccs>>

End2 ==
  /\ pass = "collect" /\ pending = {} /\ finished = <<>>
  /\ pass' = "arrange" /\ visited' = {}
  /\ UNCHANGED <<nexts, upto, path, finished, pending, comps, sccs>>

\* `for members in &scc_members`
Begin3 ==
  /\ pass = "arrange" /\ path = <<>> /\ finished = <<>> /\ Len(sccs) < Len(comps)
  /\ path' = <<[block |-> Component.first, seen |-> 0]>>
  /\ visited' = {Component.first}
  /\ UNCHANGED <<nexts, pass, upto, finished, pending, comps, sccs>>

\* The members the search did not come to are appended.
Arrange ==
  /\ pass = "arrange" /\ path = <<>> /\ finished # <<>>
  /\ sccs' = Append(sccs, Reverse(finished \o SetToSeq(Inside \ visited)))
  /\ finished' = <<>> /\ visited' = {}
  /\ UNCHANGED <<nexts, pass, upto, path, pending, comps>>

End3 ==
  /\ pass = "arrange" /\ path = <<>> /\ finished = <<>> /\ Len(sccs) = Len(comps)
  /\ pass' = "done"
  /\ UNCHANGED <<nexts, upto, path, visited, finished, pending, comps, sccs>>

SccStep ==
  \/ Look \/ Leave
  \/ Begin1 \/ End1
  \/ Begin2 \/ Gather \/ End2
  \/ Begin3 \/ Arrange \/ End3

SccNext == (\E g \in FlowGraphs : CallSccs(g)) \/ SccStep
SccSpec == SccInit /\ [][SccNext]_sccVars

-----------------------------------------------------------------------------
(* Properties.                                                             *)

\* Each component has the blocks that lead to one another, every block is in a component,
\* once, and a component comes before those it leads to (compute_cfg_sccs, "SCCs in topo order
\* of condensation").
SccsInOrder ==
  pass = "done" =>
    \E led \in {[a \in DOMAIN nexts |-> LedTo(nexts, a)]} :
      /\ UNION {Range(sccs[i]) : i \in DOMAIN sccs} = DOMAIN nexts
      /\ \A i, j \in DOMAIN sccs : \A a \in Range(sccs[i]), b \in Range(sccs[j]) :
           /\ i = j => b \in led[a]
           /\ i < j => a \notin led[b]
      /\ \A i \in DOMAIN sccs : Len(sccs[i]) = Cardinality(Range(sccs[i]))
=============================================================================
