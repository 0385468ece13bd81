----------------------------- MODULE CfgAnalysis ------------------------------
(***************************************************************************)
(* What the queries ask of a control-flow graph: FunctionCfg of            *)
(* web-ql/src/cfg.rs (dominators, post-dominators, reachability, loops,    *)
(* feasible paths), and the graphs that compute_cfg_sccs and               *)
(* CfgReachability::compute are called with.                               *)
(*                                                                         *)
(* A graph is a function from the blocks 0 .. n-1 to sequences of blocks.  *)
(***************************************************************************)
EXTENDS Execution, CfgSccs, CfgDominators, CfgReach

VARIABLES
  dom,   \* the dominator tree; None until it is computed
  fcfg   \* FunctionCfg; None until it is built

-----------------------------------------------------------------------------
(* Graphs.                                                                 *)

Numbers(n) == [i \in 1 .. n |-> i - 1]
Predecessors(adj) ==
  [b \in DOMAIN adj |-> {a \in DOMAIN adj : \E i \in DOMAIN adj[a] : adj[a][i] = b}]

-----------------------------------------------------------------------------
(* DomTree.                                                                *)

RECURSIVE Dominates(_, _, _)
Dominates(up, a, b) == a = b \/ (up[b] # b /\ Dominates(up, a, up[b]))

\* compute_df: the blocks from a predecessor of b up to the immediate dominator of b.
RECURSIVE Runners(_, _, _)
Runners(up, p, stop) ==
  IF p = stop THEN {} ELSE {p} \cup (IF up[p] = p THEN {} ELSE Runners(up, up[p], stop))
Frontiers(up, preds) ==
  LET joins == {b \in DOMAIN up : Cardinality(preds[b]) >= 2}
  IN [a \in DOMAIN up |-> {b \in joins : \E p \in preds[b] : a \in Runners(up, p, up[b])}]

-----------------------------------------------------------------------------
(* FunctionCfg.                                                            *)

\* node_to_block: the last block that has the node.
NodeBlock(p) ==
  LET bs == {b \in Blocks(graph) : <<b, p>> \in graph.nodes}
  IN IF bs = {} THEN None ELSE CHOOSE b \in bs : \A c \in bs : c <= b

\* The blocks control may come to by an exception, and from there.
RECURSIVE Closure(_, _)
Closure(adj, bs) ==
  LET more == (UNION {Range(adj[b]) : b \in bs}) \ bs
  IN IF more = {} THEN bs ELSE Closure(adj, bs \cup more)
ExceptionBlocks == Closure(graph.succ, {e[2] : e \in graph.exc})

\* block_to_condition: the condition of the conditional, loop or switch, by its field, or
\* else its first child, if it is in a block that branches.
ConditionOf(p) == IF Child(p, "cond") # {} THEN CHOOSE q \in Child(p, "cond") : TRUE ELSE Append(p, 1)
BlockConditions ==
  {<<NodeBlock(ConditionOf(p)), ConditionOf(p)>> :
     p \in {q \in Paths(prog, <<>>) :
              /\ Type(q) \in {"if", "switch"} \cup (Loops \ {"loop"})
              /\ NodeBlock(ConditionOf(q)) # None
              /\ Len(graph.succ[NodeBlock(ConditionOf(q))]) >= 2}}

Reversed(adj) ==
  [v \in DOMAIN adj |-> SelectSeq(Numbers(Cardinality(DOMAIN adj)), LAMBDA u : Contains(adj[u], v))]

\* The reversed graph: a virtual exit leads to every block without successors.
ReversedWithExit(adj) ==
  LET n == Cardinality(DOMAIN adj)
      back == Reversed(adj)
  IN [b \in 0 .. n |-> IF b < n THEN back[b] ELSE SelectSeq(Numbers(n), LAMBDA x : adj[x] = <<>>)]

\* FunctionCfg::build_for_function: the dominators, those of the reversed graph, then what the
\* blocks reach.
ComputeDominators ==
  /\ \/ Built /\ pass = "done" /\ dom = None /\ stage = "idle"
       /\ CallDominators(graph.succ, Entry) /\ UNCHANGED dom
     \/ stage = "done" /\ dom = None /\ dom' = tree
       /\ CallDominators(ReversedWithExit(graph.succ), Cardinality(Blocks(graph)))
     \/ DomStep /\ UNCHANGED dom
  /\ UNCHANGED <<buildVars, sccVars, reachVars, fcfg>>

ComputeReach ==
  /\ \/ stage = "done" /\ dom # None /\ CallReach(graph.succ)
     \/ ReachStep
  /\ UNCHANGED <<buildVars, sccVars, domVars, dom, fcfg>>

FunctionCfg(adj) ==
  [succs |-> adj, preds |-> Predecessors(adj), idom |-> dom, df |-> Frontiers(dom, Predecessors(adj)),
   ipdom |-> tree, reach |-> reach, exceptional |-> ExceptionBlocks, conditions |-> BlockConditions]

BuildCfg ==
  /\ phase = "done" /\ fcfg = None
  /\ fcfg' = FunctionCfg(graph.succ)
  /\ UNCHANGED <<buildVars, sccVars, domVars, reachVars, dom>>

\* The successors of a block, then its exception successors.
WithExceptions ==
  [b \in Blocks(graph) |->
     graph.succ[b] \o SetToSeq({e[2] : e \in {x \in graph.exc : x[1] = b}} \ Range(graph.succ[b]))]
ComputeSccs ==
  /\ \/ Built /\ CallSccs(WithExceptions)
     \/ SccStep
  /\ UNCHANGED <<buildVars, domVars, reachVars, dom, fcfg>>

-----------------------------------------------------------------------------
(* The queries, of nodes.                                                  *)

NodeDominates(p, q) == Dominates(fcfg.idom, NodeBlock(p), NodeBlock(q))
NodePostDominates(p, q) == Dominates(fcfg.ipdom, NodeBlock(p), NodeBlock(q))
NodeReaches(p, q) == NodeBlock(q) \in fcfg.reach[NodeBlock(p)]

\* find_loop_header: up the dominators to a block with a back edge; a set of at most one.
RECURSIVE LoopHeader(_)
LoopHeader(b) ==
  IF \E p \in fcfg.preds[b] : Dominates(fcfg.idom, b, p) THEN {b}
  ELSE IF fcfg.idom[b] = b THEN {} ELSE LoopHeader(fcfg.idom[b])
\* Mutant: what a loop dominates is in it.
NodeBelowLoop(p) == LoopHeader(NodeBlock(p)) # {}
NodeInLoop(p) ==
  \E h \in LoopHeader(NodeBlock(p)) : NodeBlock(p) = h \/ h \in fcfg.reach[NodeBlock(p)]

\* SymbolicEval of a condition: of literals and connectives, or not constant.
Truths == {"true", "false"}
RECURSIVE Constant(_)
Constant(p) ==
  IF Type(p) = "paren" THEN Constant(Append(p, Arity(p)))
  ELSE IF Type(p) = "name" /\ NodeAt(prog, p).name \in Truths THEN NodeAt(prog, p).name
  ELSE IF Type(p) \in {"and", "or"} THEN
    LET values == {Constant(Append(p, 1)), Constant(Append(p, 2))}
        decisive == IF Type(p) = "and" THEN "false" ELSE "true"
    IN IF "unknown" \in values THEN "unknown"
       ELSE IF decisive \in values THEN decisive ELSE CHOOSE v \in values : TRUE
  ELSE "unknown"

\* node_loop_has_no_exit.
NodeLoopHasNoExit(p) ==
  \E h \in LoopHeader(NodeBlock(p)) :
    LET scc == {b \in DOMAIN fcfg.succs : b \in fcfg.reach[h] /\ h \in fcfg.reach[b]}
    IN \/ \E c \in fcfg.conditions : c[1] = h /\ Constant(c[2]) = "true"
       \/ \A b \in scc : Range(fcfg.succs[b]) \subseteq scc

\* node_cfg_reaches_without: the block of the barrier is not entered.
RECURSIVE Avoiding(_, _, _)
Avoiding(bs, to, barrier) ==
  LET more == (UNION {Range(fcfg.succs[b]) : b \in bs}) \ (bs \cup {barrier})
  IN to \in bs \/ (more # {} /\ Avoiding(bs \cup more, to, barrier))
NodeReachesWithout(p, q, barrier) == Avoiding({NodeBlock(p)}, NodeBlock(q), NodeBlock(barrier))

\* feasible_reachable_blocks: of a block with two successors and a constant condition, the
\* first is followed if it holds and the second if it does not.
\* Mutant: the arms are swapped.
LiveSwapped(b) ==
  LET s == fcfg.succs[b]
      known == {Constant(c[2]) : c \in {x \in fcfg.conditions : x[1] = b}} \ {"unknown"}
  IN IF Len(s) # 2 \/ known = {} THEN Range(s) ELSE IF known = {"true"} THEN {s[2]} ELSE {s[1]}
Live(b) ==
  LET s == fcfg.succs[b]
      known == {Constant(c[2]) : c \in {x \in fcfg.conditions : x[1] = b}} \ {"unknown"}
  IN IF Len(s) # 2 \/ known = {} THEN Range(s) ELSE IF known = {"true"} THEN {s[1]} ELSE {s[2]}
FeasibleFrom(b) == Closure([c \in DOMAIN fcfg.succs |-> SetToSeq(Live(c))], {b})
NodeInDeadBranch(p) == NodeBlock(p) \notin FeasibleFrom(Entry)
=============================================================================
