--------------------------- MODULE TaintExpansion ---------------------------
(***************************************************************************)
(* TaintEngine::run (web-ql/src/taint.rs): which nodes of one file become  *)
(* tainted, and which (source, sink) pairs are reported.                   *)
(*                                                                         *)
(* The engine sweeps the dataflow graph from the sources, then expands     *)
(* calls by the summaries of their callees until no round taints anything, *)
(* then expands call sites whose callee is in another file until no pass   *)
(* taints anything, and at the end asks for every tainted sink which       *)
(* sources reach it.  Rounds iterate over a HashSet and passes over a      *)
(* HashMap, so the calls of a round or pass are taken in any order.        *)
(*                                                                         *)
(* The CPG, the summaries and the rule are one record `program`, chosen    *)
(* from Program and never changed.                                         *)
(***************************************************************************)
EXTENDS Integers, Sequences, FiniteSets

CONSTANTS Node, Program

\* A callee in another file: how many parameters it has, and which of them its
\* own dataflow carries to a Return node (propagate_taint run on the callee with
\* no sanitizers and no propagators; a sweep from several parameters is the union
\* of the sweeps from each).
Callee == [params : Nat, returns : SUBSET Nat]

\* What run reads.  A node that is not a call has no arguments, no children, no
\* summary and no callees here.
ProgramType ==
  [flow       : SUBSET (Node \X Node),   \* dataflow edges
   prop       : SUBSET (Node \X Node),   \* propagator edges
   sources    : SUBSET Node,
   sinks      : SUBSET Node,
   sanitizers : SUBSET Node,
   args       : [Node -> Seq(Node)],     \* call_argument_nodes
   children   : [Node -> Seq(Node)],     \* the children of the call node
   summarised : SUBSET Node,             \* calls whose callee has a summary
   returns    : [Node -> SUBSET Nat],    \* its TaintReturn and TaintOut effects
   callees    : [Node -> Seq(Callee)],   \* cross_file.call_to_callee_params
   deep       : BOOLEAN,                 \* require_interprocedural
   callDepth  : Nat,                     \* max_call_depth
   kept       : SUBSET (Node \X Node)]   \* pairs that require_same_function and
                                         \* the guards do not remove

ASSUME NodeAssumption == IsFiniteSet(Node)
ASSUME ProgramAssumption == Program \subseteq ProgramType

VARIABLES
  program,
  phase,     \* how far run is
  tainted,   \* result.tainted
  extra,     \* interproc_edges
  swept,     \* the local set tainted of propagate_taint
  wave,      \* its queue: the nodes of the current depth
  steps,     \* that depth
  todo,      \* the calls the current round or pass has not examined
  fresh,     \* new_tainted
  next,      \* next_frontier
  changed,   \* a pass has tainted a call
  findings

engine == <<tainted, extra>>
sweep == <<swept, wave, steps>>
work == <<todo, fresh, next, changed>>
vars == <<program, phase, engine, sweep, work, findings>>

\* taint_cfg.max_depth
MaxDepth == program.callDepth * 2 + 1

Edges == program.flow \cup program.prop
Sanitizers == program.sanitizers
Resolved == {c \in Node : program.callees[c] # <<>>}

Sweeping == {"sources", "fresh", "all"}

TypeOK ==
  /\ program \in ProgramType
  /\ phase \in Sweeping \cup {"start", "round", "pass", "report", "done"}
  /\ tainted \in SUBSET Node
  /\ extra \in SUBSET (Node \X Node)
  /\ swept \in SUBSET Node
  /\ wave \in SUBSET Node
  /\ steps \in 0..MaxDepth
  /\ todo \in SUBSET Node
  /\ fresh \in SUBSET Node
  /\ next \in SUBSET Node
  /\ changed \in BOOLEAN
  /\ findings \in SUBSET (Node \X Node)

Init ==
  /\ program \in Program
  /\ phase = "start"
  /\ tainted = {} /\ extra = {}
  /\ swept = {} /\ wave = {} /\ steps = 0
  /\ todo = {} /\ fresh = {} /\ next = {} /\ changed = FALSE
  /\ findings = {}

----------------------------------------------------------------------------
(* propagate_taint: breadth first, one action per depth *)

BeginSweep(from, as) ==
  /\ phase' = as
  /\ swept' = from
  /\ wave' = from
  /\ steps' = 0

\* A sweep that walks into sanitizers.
LeakyWave ==
  {n \in Node \ swept : \E m \in wave : <<m, n>> \in Edges}

\* The unvisited nodes one edge further; a sanitizer is never entered.
NextWave ==
  {n \in Node \ (Sanitizers \cup swept) : \E m \in wave : <<m, n>> \in Edges}

\* The queue is empty, or holds only nodes at the depth that is not expanded.
SweepDone == wave = {} \/ steps = MaxDepth

Level ==
  /\ phase \in Sweeping
  /\ ~SweepDone
  /\ wave' = NextWave
  /\ swept' = swept \cup NextWave
  /\ steps' = steps + 1
  /\ UNCHANGED <<program, phase, engine, work, findings>>

----------------------------------------------------------------------------
(* run, up to the first expansion *)

\* Nothing to look for.
NoEndpoints ==
  /\ phase = "start"
  /\ program.sources = {} \/ program.sinks = {}
  /\ phase' = "done"
  /\ UNCHANGED <<program, engine, sweep, work, findings>>

Start ==
  /\ phase = "start"
  /\ program.sources # {} /\ program.sinks # {}
  /\ BeginSweep(program.sources, "sources")
  /\ UNCHANGED <<program, engine, work, findings>>

\* The calls that read one of the nodes S (arg_to_calls).
Readers(S) ==
  {c \in Node : \E i \in DOMAIN program.args[c] : program.args[c][i] \in S}

EndFirstSweep ==
  /\ phase = "sources" /\ SweepDone
  /\ tainted' = swept
  /\ IF program.deep
     THEN phase' = "round" /\ todo' = Readers(swept)
     ELSE phase' = "report" /\ todo' = {}
  /\ UNCHANGED <<program, extra, sweep, fresh, next, changed, findings>>

----------------------------------------------------------------------------
(* expand_interprocedural *)

TaintedArgs(c) == {i \in DOMAIN program.args[c] : program.args[c][i] \in tainted}

\* The sanitizer check is forgotten.
ExpandableUnchecked(c) ==
  /\ c \in program.summarised \ tainted
  /\ TaintedArgs(c) \cap program.returns[c] # {}

\* The summary of the callee returns the taint of one of the tainted arguments.
Expandable(c) ==
  /\ c \in program.summarised \ (Sanitizers \cup tainted)
  /\ TaintedArgs(c) \cap program.returns[c] # {}

SkipCall(c) ==
  /\ phase = "round" /\ c \in todo
  /\ ~Expandable(c)
  /\ todo' = todo \ {c}
  /\ UNCHANGED <<program, phase, engine, sweep, fresh, next, changed, findings>>

\* The call is marked, but the edge that justifies it is not recorded.
ExpandCallSilently(c) ==
  /\ phase = "round" /\ c \in todo
  /\ Expandable(c)
  /\ todo' = todo \ {c}
  /\ tainted' = tainted \cup {c}
  /\ fresh' = fresh \cup {c}
  /\ next' = next \cup Readers({c})
  /\ UNCHANGED <<program, phase, extra, sweep, changed, findings>>

ExpandCall(c) ==
  /\ phase = "round" /\ c \in todo
  /\ Expandable(c)
  /\ todo' = todo \ {c}
  /\ tainted' = tainted \cup {c}
  /\ fresh' = fresh \cup {c}
  /\ extra' = extra \cup {<<program.args[c][i], c>> : i \in TaintedArgs(c)}
  /\ next' = next \cup Readers({c})
  /\ UNCHANGED <<program, phase, sweep, changed, findings>>

\* The round is over and has tainted calls: sweep on from them.
EndRound ==
  /\ phase = "round" /\ todo = {}
  /\ fresh # {}
  /\ BeginSweep(fresh, "fresh")
  /\ UNCHANGED <<program, engine, work, findings>>

\* The next round examines only the callers of the calls of this one.
EndFreshSweepNarrow ==
  /\ phase = "fresh" /\ SweepDone
  /\ tainted' = tainted \cup swept
  /\ todo' = next
  /\ fresh' = {} /\ next' = {}
  /\ phase' = "round"
  /\ UNCHANGED <<program, extra, sweep, changed, findings>>

EndFreshSweep ==
  /\ phase = "fresh" /\ SweepDone
  /\ tainted' = tainted \cup swept
  /\ todo' = next \cup Readers(swept \ tainted)
  /\ fresh' = {} /\ next' = {}
  /\ phase' = "round"
  /\ UNCHANGED <<program, extra, sweep, changed, findings>>

\* It has not, so the frontier is empty; the first cross-file pass begins.
EndRounds ==
  /\ phase = "round" /\ todo = {}
  /\ fresh = {}
  /\ phase' = "pass"
  /\ todo' = Resolved
  /\ changed' = FALSE
  /\ UNCHANGED <<program, engine, sweep, fresh, next, findings>>

----------------------------------------------------------------------------
(* expand_cross_file *)

\* The children of the call node that are tainted, by position, as far as the
\* callee has a parameter at that position.
CrossArgs(c, callee) ==
  {i \in DOMAIN program.children[c] :
     i <= callee.params /\ program.children[c][i] \in tainted}

ReturnsTaint(c, callee) == CrossArgs(c, callee) \cap callee.returns # {}

\* The first callee of the list that returns taint to the call site.
FirstReturning(c, k) ==
  /\ ReturnsTaint(c, program.callees[c][k])
  /\ \A j \in 1..k-1 : ~ReturnsTaint(c, program.callees[c][j])

SkipSite(c) ==
  /\ phase = "pass" /\ c \in todo
  /\ c \in tainted \/ \A k \in DOMAIN program.callees[c] : ~FirstReturning(c, k)
  /\ todo' = todo \ {c}
  /\ UNCHANGED <<program, phase, engine, sweep, fresh, next, changed, findings>>

ExpandSite(c) ==
  /\ phase = "pass" /\ c \in todo
  /\ c \notin tainted
  /\ \E k \in DOMAIN program.callees[c] :
       /\ FirstReturning(c, k)
       /\ extra' = extra \cup {<<program.children[c][i], c>> :
                                 i \in CrossArgs(c, program.callees[c][k])}
  /\ todo' = todo \ {c}
  /\ tainted' = tainted \cup {c}
  /\ changed' = TRUE
  /\ UNCHANGED <<program, phase, sweep, fresh, next, findings>>

\* The pass has tainted call sites: sweep again, from everything tainted.
EndPass ==
  /\ phase = "pass" /\ todo = {}
  /\ changed
  /\ BeginSweep(tainted, "all")
  /\ UNCHANGED <<program, engine, work, findings>>

\* The flag is not reset before the next pass.
EndFullSweepStuck ==
  /\ phase = "all" /\ SweepDone
  /\ tainted' = tainted \cup swept
  /\ todo' = Resolved
  /\ phase' = "pass"
  /\ UNCHANGED <<program, extra, sweep, fresh, next, changed, findings>>

EndFullSweep ==
  /\ phase = "all" /\ SweepDone
  /\ tainted' = tainted \cup swept
  /\ todo' = Resolved
  /\ changed' = FALSE
  /\ phase' = "pass"
  /\ UNCHANGED <<program, extra, sweep, fresh, next, findings>>

EndPasses ==
  /\ phase = "pass" /\ todo = {}
  /\ ~changed
  /\ phase' = "report"
  /\ UNCHANGED <<program, engine, sweep, work, findings>>

----------------------------------------------------------------------------
(* The report *)

\* X holds every node one edge of E away from it, but for the sanitizers.
Closed(X, E) ==
  \A n \in Node \ Sanitizers : (\E m \in X : <<m, n>> \in E) => n \in X

\* The nodes reached from S along E: the least closed set around S.
Reach(S, E) ==
  LET around == {X \in SUBSET Node : S \subseteq X /\ Closed(X, E)}
  IN  {n \in Node : \A X \in around : n \in X}

\* The call edges of the expansions are left out (DfgIndex::reaches and the
\* propagators).
ReachesInGraph(s, k) == k \in Reach({s}, Edges)

\* reaches_with_propagators: no bound on the depth.
ReachesWithPropagators(s, k) == k \in Reach({s}, Edges \cup extra)

Report ==
  /\ phase = "report"
  /\ findings' = {p \in program.sources \X program.sinks :
                    /\ p[2] \in tainted
                    /\ ReachesWithPropagators(p[1], p[2])
                    /\ p \in program.kept}
  /\ phase' = "done"
  /\ UNCHANGED <<program, engine, sweep, work>>

----------------------------------------------------------------------------

Next ==
  \/ Level
  \/ NoEndpoints \/ Start \/ EndFirstSweep
  \/ \E c \in Node : SkipCall(c) \/ ExpandCall(c)
  \/ EndRound \/ EndFreshSweep \/ EndRounds
  \/ \E c \in Node : SkipSite(c) \/ ExpandSite(c)
  \/ EndPass \/ EndFullSweep \/ EndPasses
  \/ Report

Spec == Init /\ [][Next]_vars

\* run is a sequential function: it goes on as long as it can.
FairSpec == Spec /\ WF_vars(Next)
----------------------------------------------------------------------------
(* What the expansions stand for *)

\* A summary carries taint from these arguments to the call ...
SummaryEdges ==
  {e \in Node \X program.summarised :
     \E i \in DOMAIN program.args[e[2]] \cap program.returns[e[2]] :
       program.args[e[2]][i] = e[1]}

\* ... and a callee in another file from these children.
CrossEdges ==
  {e \in Node \X Node :
     \E k \in DOMAIN program.callees[e[2]] :
       \E i \in DOMAIN program.children[e[2]] \cap program.callees[e[2]][k].returns :
         i <= program.callees[e[2]][k].params /\ program.children[e[2]][i] = e[1]}

\* The taint of the sources S when no bound on the depth interferes: all that
\* summaries and flows reach, and then all that flows and other files reach.
Expected(S) == Reach(Reach(S, Edges \cup SummaryEdges), Edges \cup CrossEdges)

\* The cross-file pass does not ask whether a call site is a sanitizer.
SitesUnsanitized == Resolved \cap Sanitizers = {}

\* The bound on the depth cuts no path.
Ample == MaxDepth >= Cardinality(Node)

Ran == program.sources # {} /\ program.sinks # {}
Exact == Ran /\ program.deep /\ Ample /\ SitesUnsanitized

----------------------------------------------------------------------------
(* Properties *)

\* Only a source, or a call site whose callee is in another file, is tainted
\* although it is a sanitizer.
SanitizersHold == tainted \cap Sanitizers \subseteq program.sources \cup Resolved

\* Whatever the order of calls and the bound on the depth, nothing is tainted
\* that the sources do not taint.
TaintIsJustified ==
  phase = "done" /\ SitesUnsanitized => tainted \subseteq Expected(program.sources)

\* The worklist of rounds misses no call and depends on no order: it ends with
\* exactly the nodes that the declarative closure gives.
OrderIndependent ==
  phase = "done" /\ Exact => tainted = Expected(program.sources)

\* The final reachability check does not disagree with the expansions: a tainted
\* sink is reported for at least one source.
TaintedSinkReported ==
  phase = "done" /\ SitesUnsanitized =>
    \A k \in program.sinks \cap tainted :
      program.sources \X {k} \subseteq program.kept =>
        \E s \in program.sources : <<s, k>> \in findings

\* With one source the findings are exact, in whatever order calls are taken.
OneSourceExact ==
  \A s \in Node :
    phase = "done" /\ Exact /\ program.sources = {s} =>
      findings = {p \in {s} \X program.sinks :
                    p[2] \in Expected({s}) /\ p \in program.kept}

\* run ends: rounds and passes stop tainting.
Terminates == <>(phase = "done")
=============================================================================
