----------------------------- MODULE CfgDominators -----------------------------
(***************************************************************************)
(* DomTree::compute of web-ql/src/cfg.rs: the dominator tree of a graph.   *)
(* A depth-first search orders the blocks (reverse_postorder); passes over *)
(* them in that order give each the meet of its predecessors in the tree   *)
(* so far (intersect), until a pass changes nothing.                       *)
(***************************************************************************)
EXTENDS FlowGraph

VARIABLES
  arcs, root,   \* the graph and its entry
  stage,        \* "idle", "order", "pass", "meet" or "done"
  calls,        \* the calls of dfs_postorder: a block, how many successors were looked at
  entered,      \* visited
  postorder,
  rpo, num,     \* the blocks in order, rpo_num
  idom,
  at, changed,  \* the block of this pass that is next; whether it changed anything
  one, other,   \* new_idom and the predecessor it is joined with
  others,       \* the processed predecessors that come after that
  tree          \* the result

domVars == <<arcs, root, stage, calls, entered, postorder, rpo, num, idom, at, changed, one,
             other, others, tree>>

NoBlock == -1   \* idom of a block that is not processed

DomInit ==
  /\ arcs = <<>> /\ root = 0 /\ stage = "idle"
  /\ calls = <<>> /\ entered = {} /\ postorder = <<>> /\ rpo = <<>> /\ num = <<>> /\ idom = <<>>
  /\ at = 0 /\ changed = FALSE /\ one = 0 /\ other = 0 /\ others = {} /\ tree = <<>>

\* The function is called with a graph and one of its blocks; without blocks there is no tree.
CallDominators(g, e) ==
  /\ stage \in {"idle", "done"} /\ e \in DOMAIN g
  /\ arcs' = g /\ root' = e /\ stage' = "order"
  /\ calls' = <<[block |-> e, seen |-> 0]>> /\ entered' = {e} /\ postorder' = <<>>
  /\ UNCHANGED <<rpo, num, idom, at, changed, one, other, others, tree>>

-----------------------------------------------------------------------------
(* reverse_postorder.                                                      *)

Caller == calls[Len(calls)].block
Asked == calls[Len(calls)].seen

\* dfs_postorder is called for the next successor, and returns if it was before.
Descend ==
  /\ stage = "order" /\ calls # <<>> /\ Asked < Len(arcs[Caller])
  /\ \E w \in {arcs[Caller][Asked + 1]}, rest \in {[calls EXCEPT ![Len(calls)].seen = @ + 1]} :
       /\ calls' = IF w \in entered THEN rest ELSE Append(rest, [block |-> w, seen |-> 0])
       /\ entered' = entered \cup {w}
  /\ UNCHANGED <<arcs, root, stage, postorder, rpo, num, idom, at, changed, one, other, others, tree>>

\* It returns to its caller.
Ascend ==
  /\ stage = "order" /\ calls # <<>> /\ Asked >= Len(arcs[Caller])
  /\ calls' = Front(calls)
  /\ postorder' = Append(postorder, Caller)
  /\ UNCHANGED <<arcs, root, stage, entered, rpo, num, idom, at, changed, one, other, others, tree>>

\* The order is reversed and numbered; only the entry has a dominator.
EndOrder ==
  /\ stage = "order" /\ calls = <<>>
  /\ rpo' = Reverse(postorder)
  /\ num' = [b \in DOMAIN arcs |-> IF \E i \in DOMAIN rpo' : rpo'[i] = b
                                     THEN CHOOSE i \in DOMAIN rpo' : rpo'[i] = b
                                     ELSE Cardinality(DOMAIN arcs) + 1]
  /\ idom' = [b \in DOMAIN arcs |-> IF b = root THEN root ELSE NoBlock]
  /\ stage' = "pass" /\ at' = 2 /\ changed' = FALSE
  /\ UNCHANGED <<arcs, root, calls, entered, postorder, one, other, others, tree>>

-----------------------------------------------------------------------------
(* The passes.                                                             *)

Lowest(ps) == CHOOSE p \in ps : \A q \in ps : p <= q
\* Mutant: one processed predecessor is enough.
ProcessedFirst(b) ==
  LET known == {p \in DOMAIN arcs : idom[p] # NoBlock /\ Contains(arcs[p], b)}
  IN {p \in known : p = Lowest(known)}
Processed(b) == {p \in DOMAIN arcs : idom[p] # NoBlock /\ \E i \in DOMAIN arcs[p] : arcs[p][i] = b}

\* The next block: the first of its processed predecessors, if it has one.
BeginBlock ==
  /\ stage = "pass" /\ at <= Len(rpo)
  /\ \E known \in {Processed(rpo[at])} :
       IF known = {} THEN at' = at + 1 /\ UNCHANGED <<stage, one, other, others>>
       ELSE /\ one' = Lowest(known) /\ other' = Lowest(known) /\ others' = known \ {Lowest(known)}
            /\ stage' = "meet"
            /\ UNCHANGED at
  /\ UNCHANGED <<arcs, root, calls, entered, postorder, rpo, num, idom, changed, tree>>

\* intersect is called with the next one.
NextPredecessor ==
  /\ stage = "meet" /\ one = other /\ others # {}
  /\ other' = Lowest(others) /\ others' = others \ {Lowest(others)}
  /\ UNCHANGED <<arcs, root, stage, calls, entered, postorder, rpo, num, idom, at, changed, one, tree>>

\* intersect: the later one goes up the tree (`unwrap_or`: or stays).
Above(b) == IF idom[b] = NoBlock THEN b ELSE idom[b]
Climb ==
  /\ stage = "meet" /\ one # other
  /\ \/ num[one] > num[other] /\ one' = Above(one) /\ UNCHANGED other
     \/ num[other] > num[one] /\ other' = Above(other) /\ UNCHANGED one
  /\ UNCHANGED <<arcs, root, stage, calls, entered, postorder, rpo, num, idom, at, changed, others, tree>>

EndBlock ==
  /\ stage = "meet" /\ one = other /\ others = {}
  /\ stage' = "pass" /\ at' = at + 1
  /\ idom' = [idom EXCEPT ![rpo[at]] = one]
  /\ changed' = (changed \/ idom[rpo[at]] # one)
  /\ UNCHANGED <<arcs, root, calls, entered, postorder, rpo, num, one, other, others, tree>>

\* `while changed`; a block that was never processed is its own dominator.
EndPass ==
  /\ stage = "pass" /\ at > Len(rpo)
  /\ IF changed THEN at' = 2 /\ changed' = FALSE /\ UNCHANGED <<stage, tree>>
     ELSE stage' = "done" /\ tree' = [b \in DOMAIN arcs |-> Above(b)] /\ UNCHANGED <<at, changed>>
  /\ UNCHANGED <<arcs, root, calls, entered, postorder, rpo, num, idom, one, other, others>>

DomStep ==
  \/ Descend \/ Ascend \/ EndOrder
  \/ BeginBlock \/ NextPredecessor \/ Climb \/ EndBlock \/ EndPass
DomNext == (\E g \in FlowGraphs : \E e \in DOMAIN g : CallDominators(g, e)) \/ DomStep
DomSpec == DomInit /\ [][DomNext]_domVars

-----------------------------------------------------------------------------
(* Properties.                                                             *)

\* Above a block in the tree, itself among them, are the blocks that every path to it goes
\* through: without the arcs that leave one of them it is not led to.  A block that the entry does
\* not lead to has only itself above it (DomTree).
Without(g, a) == [b \in DOMAIN g |-> IF b = a THEN <<>> ELSE g[b]]
Upwards == [b \in DOMAIN arcs |-> <<tree[b]>>]
DominatorsAreExact ==
  stage = "done" =>
    /\ \A b \in LedTo(arcs, root), a \in DOMAIN arcs :
         a \in LedTo(Upwards, b) <=> a = b \/ b \notin LedTo(Without(arcs, a), root)
    /\ \A b \in DOMAIN arcs \ LedTo(arcs, root) : tree[b] = b

\* intersect does not loop for ever: whichever block goes up has an immediate dominator, which is
\* earlier in the order.
ClimbingEnds ==
  stage = "meet" /\ one # other =>
    /\ num[one] # num[other]
    /\ \A b \in {one, other} : b # root => idom[b] # NoBlock /\ num[idom[b]] < num[b]
    /\ num[one] > num[other] => one # root
    /\ num[other] > num[one] => other # root

\* The passes end: one goes on only after it has changed something, and what it changes is that a
\* block gets a first dominator or an earlier one.
IdomsRise ==
  [][stage = "meet" /\ stage' = "pass" =>
       /\ changed' <=> changed \/ idom' # idom
       /\ \A b \in DOMAIN idom : idom'[b] # idom[b] =>
            idom'[b] # NoBlock /\ (idom[b] = NoBlock \/ num[idom'[b]] < num[idom[b]])]_domVars
=============================================================================
