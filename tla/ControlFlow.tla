----------------------------- MODULE ControlFlow ------------------------------
(***************************************************************************)
(* The control-flow graph of CfgBuilder against what the function may      *)
(* execute (Execution).                                                    *)
(***************************************************************************)
EXTENDS CfgAnalysis

VARIABLE flow   \* what the function may execute, worked out once: [first, steps, safe, decided]

vars == <<buildVars, sccVars, domVars, reachVars, dom, fcfg, flow>>

\* What the handlers add to be safe: a throw may be caught or not, a switch or a match may
\* have no case that fits.
Conservative(p) ==
  CASE Type(p) = "throw" -> Leaving
    [] Type(p) \in {"match", "branching"} -> After(p)
    [] p # <<>> /\ Type(Up(p)) = "switch" -> After(Up(p))
    [] OTHER -> {}

\* Where a condition may lead whose value is known.
Decided(p) ==
  CASE ~InCondition(p) -> Steps(p) \cup Conservative(p)
    [] Constant(p) = "true" -> Yes(p)
    [] Constant(p) = "false" -> No(p)
    [] OTHER -> Yes(p) \cup No(p)

Execute ==
  /\ Built /\ pass = "done" /\ flow = None
  /\ flow' = [first |-> Start(<<>>), steps |-> [p \in Atoms |-> Steps(p)],
              safe |-> [p \in Atoms |-> Conservative(p)], decided |-> [p \in Atoms |-> Decided(p)]]
  /\ UNCHANGED <<buildVars, sccVars, domVars, reachVars, dom, fcfg>>

Next ==
  \/ Build /\ UNCHANGED <<sccVars, domVars, reachVars, dom, fcfg, flow>>
  \/ ComputeSccs /\ UNCHANGED flow
  \/ Execute
  \/ flow # None /\ (ComputeDominators \/ ComputeReach \/ BuildCfg) /\ UNCHANGED flow
  \/ None \notin {fcfg, flow} /\ UNCHANGED vars

Begin == Init /\ SccInit /\ DomInit /\ ReachInit /\ dom = None /\ fcfg = None /\ flow = None

Spec == Begin /\ [][Next]_vars

-----------------------------------------------------------------------------
(* Walks of the graph: the atoms of a block run in the order of the        *)
(* source, then control goes to a successor; at the last block it ends.    *)

AtomsOf(b) == {p \in DOMAIN flow.steps \cap DOMAIN graph.at : graph.at[p] = b}
Earliest(ps) == {p \in ps : \A q \in ps : p = q \/ Earlier(p, q)}
Successors(b) == {graph.succ[b][i] : i \in DOMAIN graph.succ[b]}
Ends(b) == Successors(b) = {} /\ (b = Exit \/ b \in Range(state.defers))

RECURSIVE Enter(_, _)
Enter(bs, seen) ==
  LET atoms == UNION {Earliest(AtomsOf(b)) : b \in bs}
      empty == {b \in bs : AtomsOf(b) = {}}
      more == UNION {Successors(b) : b \in empty} \ seen
  IN atoms \cup (IF \E b \in empty : Ends(b) THEN {End} ELSE {})
     \cup (IF more = {} THEN {} ELSE Enter(more, seen \cup more))
Into(bs) == Enter(bs, bs)

Walks(p) ==
  LET b == graph.at[p]
      rest == {q \in AtomsOf(b) : Earlier(p, q)}
  IN IF rest # {} THEN Earliest(rest)
     ELSE Into(Successors(b)) \cup (IF Ends(b) THEN {End} ELSE {})
Raises(p) == Into({b \in Blocks(graph) : <<graph.at[p], b>> \in graph.exc})

-----------------------------------------------------------------------------
(* Properties.                                                             *)

\* Every atom is in a block, and what may execute after it follows it in the graph: no
\* path of the function is missing (process_statement and its handlers).
EveryStepIsAWalk ==
  flow # None =>
    /\ flow.first \subseteq Into({Entry})
    /\ \A p \in DOMAIN flow.steps : /\ p \in DOMAIN graph.at
                                    /\ flow.steps[p] \subseteq Walks(p) \cup Raises(p)

\* The graph has no path that the function has not, but for those.
EveryWalkIsAStep ==
  flow # None =>
    /\ Into({Entry}) \subseteq flow.first
    /\ \A p \in DOMAIN flow.steps : Walks(p) \subseteq flow.steps[p] \cup flow.safe[p]

\* The control-flow graph has the paths of the function, all of them and no others.
WalksAreSteps == EveryStepIsAWalk /\ EveryWalkIsAStep

-----------------------------------------------------------------------------
(* The queries, of the atoms of different blocks.                          *)

\* The atoms that may execute after the atoms ps, without the barrier.
RECURSIVE Reached(_, _, _)
Reached(step, ps, barrier) ==
  LET more == (UNION {step[p] : p \in ps \ {End}}) \ (ps \cup barrier)
  IN IF more = {} THEN ps \ barrier ELSE Reached(step, ps \cup more, barrier)
Step == [p \in DOMAIN flow.steps |-> flow.steps[p] \cup flow.safe[p]]
From(step, barrier) == Reached(step, flow.first \ barrier, barrier)

Apart(p, q) == NodeBlock(p) # NodeBlock(q)
Analysed == fcfg # None
Jumped == \E p \in DOMAIN flow.steps : Type(p) = "goto"

\* dominates and post_dominates of docs/web-ql.md: every path from the entry to q, and from
\* q to the exit, passes through p.  Exceptions are left out: their edges are not successors.
DominanceIsExecution ==
  Analysed /\ graph.exc = {} =>
    \A step \in {Step} :
      LET run == From(step, {}) \ {End}
          ends == {q \in run : End \in Reached(step, step[q], {})}
      IN \A p \in run : \A without \in {From(step, {p})} : \A q \in run :
           Apart(p, q) =>
             /\ NodeDominates(p, q) <=> q \notin without
             /\ q \in ends =>
                  (NodePostDominates(p, q) <=> End \notin Reached(step, step[q] \ {p}, {p}))

\* cfg_reaches, cfg_reaches_without and in_loop: there is a path from p to q, one without r,
\* one from p to p.  No back edge is dominated where a goto leads into a loop.
ReachIsExecution ==
  Analysed /\ graph.exc = {} =>
    \A step \in {Step} :
      LET run == From(step, {}) \ {End}
      IN \A p \in run : \A past \in {Reached(step, step[p], {})} :
           /\ Jumped \/ (NodeInLoop(p) <=> p \in past)
           /\ \A q \in run : Apart(p, q) => (NodeReaches(p, q) <=> q \in past)
           /\ \A r \in run : Apart(p, r) =>
                \A around \in {Reached(step, step[p] \ {r}, {r})} :
                  \A q \in run : Apart(p, q) /\ Apart(q, r) =>
                    (NodeReachesWithout(p, q, r) <=> q \in around)

\* What is called dead (in_dead_branch), or in a loop without an exit, is: no execution that
\* evaluates its constant conditions comes to it, or leaves the loop.
DeadIsDead ==
  Analysed /\ graph.exc = {} =>
    \A p \in From(flow.decided, {}) \ {End} :
      /\ ~NodeInDeadBranch(p)
      /\ NodeLoopHasNoExit(p) => End \notin Reached(flow.decided, flow.decided[p], {})
=============================================================================
