----------------------------- MODULE TaintProofs -----------------------------
(***************************************************************************)
(* For every set of nodes and programs, every order of calls and every     *)
(* bound on the depth: the taint engine keeps out of sanitizers, and       *)
(* reports every tainted sink; when the bound cuts nothing it taints       *)
(* exactly the declarative closure (OrderIndependent), and with one source *)
(* the findings are exact (OneSourceExact).                                *)
(*                                                                         *)
(* Sound says that whatever is tainted or swept lies in every set of nodes *)
(* that holds the sources and is closed under the graph and the edges      *)
(* recorded so far.  It is inductive although `extra` changes: an edge     *)
(* more leaves fewer sets closed.  The sets from which one of the sources  *)
(* is reached at the end form such a set, so a tainted sink is in one.     *)
(*                                                                         *)
(* For the other half, completeness, each worklist is shown to hold all    *)
(* that its fixpoint still lacks: the wave of a sweep the nodes whose      *)
(* successors are missing, `todo` and `next` the calls of a round, `todo`  *)
(* and `changed` the call sites of a pass.  An empty worklist then means a *)
(* closed set.                                                             *)
(***************************************************************************)
EXTENDS TaintExpansion, TLAPS, FiniteSetTheorems, WellFoundedInduction

InEveryClosedSet(S) ==
  \A X \in SUBSET Node :
    program.sources \subseteq X /\ Closed(X, Edges \cup extra) => S \subseteq X

Sound == SitesUnsanitized => InEveryClosedSet(tainted \cup swept)

\* The sets a sweep works with: no call is fresh before the first sweep has ended.
Sweeps ==
  /\ wave \subseteq swept
  /\ fresh \subseteq tainted
  /\ phase \in {"start", "sources"} => fresh = {}

Clean == (tainted \cup swept) \cap Sanitizers \subseteq program.sources \cup Resolved

\* What the report is made from.
Reported ==
  {p \in program.sources \X program.sinks :
     p[2] \in tainted /\ ReachesWithPropagators(p[1], p[2]) /\ p \in program.kept}

Told ==
  /\ phase = "start" => tainted = {}
  /\ phase = "done" => findings = Reported \/ tainted = {}

\* What the sources taint through summaries alone.
Local == Reach(program.sources, Edges \cup SummaryEdges)

Early == {"start", "sources", "round", "fresh"}

\* Until the rounds are over only summaries carry taint through calls.
Justified ==
  SitesUnsanitized =>
    tainted \cup swept \subseteq
      IF phase \in Early THEN Local ELSE Expected(program.sources)

IInv == TypeOK /\ Sweeps /\ Sound /\ Clean /\ Told /\ Justified

----------------------------------------------------------------------------

\* More edges leave fewer sets closed.
LEMMA ClosedAntitone ==
  ASSUME NEW X, NEW E, NEW F, E \subseteq F, Closed(X, F)
  PROVE  Closed(X, E)
BY DEF Closed

LEMMA DepthType == ASSUME program \in ProgramType PROVE MaxDepth \in Nat
BY DEF ProgramType, MaxDepth

LEMMA InitIInv == Init => IInv
<1> SUFFICES ASSUME Init PROVE IInv
  OBVIOUS
<1>1. program \in ProgramType
  BY ProgramAssumption DEF Init
<1>2. 0 \in 0..MaxDepth
  BY <1>1, DepthType
<1>3. TypeOK
  BY <1>1, <1>2 DEF Init, TypeOK
<1> QED
  BY <1>3 DEF Init, IInv, Sweeps, Sound, Clean, Told, InEveryClosedSet, Justified, Early

----------------------------------------------------------------------------
(* Types *)

LEMMA NextType == TypeOK /\ [Next]_vars => TypeOK'
<1> SUFFICES ASSUME TypeOK, [Next]_vars PROVE TypeOK'
  OBVIOUS
<1> USE DEF TypeOK, vars, engine, sweep, work
<1>1. MaxDepth \in Nat
  BY DepthType
<1>2. ASSUME UNCHANGED program PROVE MaxDepth' = MaxDepth
  BY <1>2 DEF MaxDepth
<1>3. CASE Level
  <2>1. NextWave \in SUBSET Node
    BY DEF NextWave
  <2>2. steps + 1 \in 0..MaxDepth
    BY <1>1, <1>3 DEF Level, SweepDone
  <2> QED
    BY <1>2, <1>3, <2>1, <2>2 DEF Level
<1>4. CASE NoEndpoints
  BY <1>2, <1>4 DEF NoEndpoints
<1>5. CASE Start
  <2>1. program.sources \in SUBSET Node
    BY DEF ProgramType
  <2> QED
    BY <1>1, <1>2, <1>5, <2>1 DEF Start, BeginSweep, Sweeping
<1>6. CASE EndFirstSweep
  <2>1. Readers(swept) \in SUBSET Node
    BY DEF Readers
  <2>2. todo' \in SUBSET Node /\ phase' \in {"round", "report"}
    BY <1>6, <2>1 DEF EndFirstSweep
  <2>3. /\ UNCHANGED <<program, steps>>
        /\ UNCHANGED <<extra, swept, wave, fresh, next, changed, findings>>
    BY <1>6 DEF EndFirstSweep
  <2>4. tainted' = swept
    BY <1>6 DEF EndFirstSweep
  <2>5. MaxDepth' = MaxDepth
    BY <1>2, <2>3
  <2>6. phase' \in Sweeping \cup {"start", "round", "pass", "report", "done"}
    BY <2>2
  <2>7. steps' \in 0..MaxDepth'
    BY <2>3, <2>5
  <2>8. program' \in ProgramType
    BY <2>3
  <2>9. /\ tainted' \in SUBSET Node /\ swept' \in SUBSET Node /\ wave' \in SUBSET Node
        /\ fresh' \in SUBSET Node /\ next' \in SUBSET Node
    BY <2>3, <2>4
  <2>10. /\ extra' \in SUBSET (Node \X Node) /\ findings' \in SUBSET (Node \X Node)
         /\ changed' \in BOOLEAN
    BY <2>3
  <2> QED
    BY ONLY <2>2, <2>6, <2>7, <2>8, <2>9, <2>10 DEF TypeOK
<1>7. ASSUME NEW c \in Node, SkipCall(c) \/ SkipSite(c) PROVE TypeOK'
  BY <1>2, <1>7 DEF SkipCall, SkipSite
<1>8. ASSUME NEW c \in Node, ExpandCall(c) PROVE TypeOK'
  <2>1. \A i \in TaintedArgs(c) : program.args[c][i] \in Node
    BY DEF TaintedArgs
  <2>2. Readers({c}) \in SUBSET Node
    BY DEF Readers
  <2>3. {<<program.args[c][i], c>> : i \in TaintedArgs(c)} \in SUBSET (Node \X Node)
    BY <2>1
  <2>4. extra' \in SUBSET (Node \X Node)
    BY <1>8, <2>3 DEF ExpandCall
  <2>5. /\ todo' \in SUBSET Node /\ tainted' \in SUBSET Node
        /\ fresh' \in SUBSET Node /\ next' \in SUBSET Node
    BY <1>8, <2>2 DEF ExpandCall
  <2>6. UNCHANGED <<program, phase, sweep, changed, findings>>
    BY <1>8 DEF ExpandCall
  <2> QED
    BY <1>2, <2>4, <2>5, <2>6
<1>9. CASE EndRound
  BY <1>1, <1>2, <1>9 DEF EndRound, BeginSweep, Sweeping
<1>10. CASE EndFreshSweep
  <2>1. Readers(swept \ tainted) \in SUBSET Node
    BY DEF Readers
  <2> QED
    BY <1>2, <1>10, <2>1 DEF EndFreshSweep
<1>11. CASE EndRounds
  BY <1>2, <1>11 DEF EndRounds, Resolved
<1>12. ASSUME NEW c \in Node, ExpandSite(c) PROVE TypeOK'
  <2>1. PICK k \in DOMAIN program.callees[c] :
          extra' = extra \cup {<<program.children[c][i], c>> :
                                 i \in CrossArgs(c, program.callees[c][k])}
    BY <1>12 DEF ExpandSite
  <2>2. \A i \in CrossArgs(c, program.callees[c][k]) : program.children[c][i] \in Node
    BY DEF CrossArgs
  <2>3. extra' \in SUBSET (Node \X Node)
    BY <2>1, <2>2
  <2>4. todo' \in SUBSET Node /\ tainted' \in SUBSET Node /\ changed' \in BOOLEAN
    BY <1>12 DEF ExpandSite
  <2>5. UNCHANGED <<program, phase, sweep, fresh, next, findings>>
    BY <1>12 DEF ExpandSite
  <2> QED
    BY <1>2, <2>3, <2>4, <2>5
<1>13. CASE EndPass
  BY <1>1, <1>2, <1>13 DEF EndPass, BeginSweep, Sweeping
<1>14. CASE EndFullSweep
  BY <1>2, <1>14 DEF EndFullSweep, Resolved
<1>15. CASE EndPasses
  BY <1>2, <1>15 DEF EndPasses
<1>16. CASE Report
  <2>1. program.sources \subseteq Node /\ program.sinks \subseteq Node
    BY DEF ProgramType
  <2> QED
    BY <1>2, <1>16, <2>1 DEF Report
<1>17. CASE UNCHANGED vars
  BY <1>2, <1>17
<1> QED
  BY <1>3, <1>4, <1>5, <1>6, <1>7, <1>8, <1>9, <1>10, <1>11, <1>12, <1>13, <1>14, <1>15,
     <1>16, <1>17 DEF Next

----------------------------------------------------------------------------
(* The sets of a sweep, and what the report is made from *)

LEMMA NextSweeps == Sweeps /\ [Next]_vars => Sweeps'
<1> SUFFICES ASSUME Sweeps, [Next]_vars PROVE Sweeps'
  OBVIOUS
<1> USE DEF Sweeps, vars, engine, sweep, work
<1>1. CASE Level
  BY <1>1 DEF Level
<1>2. CASE NoEndpoints \/ Start \/ EndFirstSweep
  <2>1. CASE NoEndpoints
    BY <2>1 DEF NoEndpoints
  <2>2. CASE Start
    BY <2>2 DEF Start, BeginSweep
  <2>3. CASE EndFirstSweep
    BY <2>3 DEF EndFirstSweep
  <2> QED
    BY <1>2, <2>1, <2>2, <2>3
<1>3. ASSUME NEW c \in Node, SkipCall(c) \/ ExpandCall(c) PROVE Sweeps'
  BY <1>3 DEF SkipCall, ExpandCall
<1>4. CASE EndRound \/ EndFreshSweep \/ EndRounds
  BY <1>4 DEF EndRound, BeginSweep, EndFreshSweep, EndRounds
<1>5. ASSUME NEW c \in Node, SkipSite(c) \/ ExpandSite(c) PROVE Sweeps'
  BY <1>5 DEF SkipSite, ExpandSite
<1>6. CASE EndPass \/ EndFullSweep \/ EndPasses
  BY <1>6 DEF EndPass, BeginSweep, EndFullSweep, EndPasses
<1>7. CASE Report \/ UNCHANGED vars
  BY <1>7 DEF Report
<1> QED
  BY <1>1, <1>2, <1>3, <1>4, <1>5, <1>6, <1>7 DEF Next

LEMMA NextClean == Sweeps /\ Clean /\ [Next]_vars => Clean'
<1> SUFFICES ASSUME Sweeps, Clean, [Next]_vars PROVE Clean'
  OBVIOUS
<1> USE DEF Clean, vars, engine, sweep, work
<1>1. UNCHANGED program => UNCHANGED <<Sanitizers, Resolved, program.sources>>
  BY DEF Sanitizers, Resolved
<1>2. CASE Level
  <2>1. NextWave \cap Sanitizers = {}
    BY DEF NextWave
  <2> QED
    BY <1>1, <1>2, <2>1 DEF Level
<1>3. CASE NoEndpoints \/ Start \/ EndFirstSweep
  BY <1>1, <1>3 DEF NoEndpoints, Start, BeginSweep, EndFirstSweep
<1>4. ASSUME NEW c \in Node, SkipCall(c) \/ SkipSite(c) PROVE Clean'
  BY <1>1, <1>4 DEF SkipCall, SkipSite
<1>5. ASSUME NEW c \in Node, ExpandCall(c) PROVE Clean'
  <2>1. c \notin Sanitizers
    BY <1>5 DEF ExpandCall, Expandable
  <2> QED
    BY <1>1, <1>5, <2>1 DEF ExpandCall
<1>6. ASSUME NEW c \in Node, ExpandSite(c) PROVE Clean'
  <2>1. c \in Resolved
    BY <1>6 DEF ExpandSite, Resolved
  <2> QED
    BY <1>1, <1>6, <2>1 DEF ExpandSite
<1>7. CASE EndRound
  BY <1>1, <1>7 DEF EndRound, BeginSweep, Sweeps
<1>8. CASE EndFreshSweep \/ EndRounds
  BY <1>1, <1>8 DEF EndFreshSweep, EndRounds
<1>9. CASE EndPass \/ EndFullSweep \/ EndPasses
  BY <1>1, <1>9 DEF EndPass, BeginSweep, EndFullSweep, EndPasses
<1>10. CASE Report \/ UNCHANGED vars
  BY <1>1, <1>10 DEF Report
<1> QED
  BY <1>2, <1>3, <1>4, <1>5, <1>6, <1>7, <1>8, <1>9, <1>10 DEF Next

LEMMA NextTold == Told /\ [Next]_vars => Told'
<1> SUFFICES ASSUME Told, [Next]_vars PROVE Told'
  OBVIOUS
<1> USE DEF Told, vars, engine, sweep, work
<1>1. CASE phase' \notin {"start", "done"}
  BY <1>1
<1>2. CASE NoEndpoints
  BY <1>2 DEF NoEndpoints
<1>3. CASE Report
  <2>1. UNCHANGED <<program, tainted, extra>>
    BY <1>3 DEF Report
  <2>2. Reported' = Reported
    BY <2>1 DEF Reported, ReachesWithPropagators, Reach, Closed, Edges, Sanitizers
  <2>3. findings' = Reported /\ phase' = "done"
    BY <1>3 DEF Report, Reported
  <2> QED
    BY <2>2, <2>3
<1>4. CASE UNCHANGED vars
  <2>1. Reported' = Reported
    BY <1>4 DEF Reported, ReachesWithPropagators, Reach, Closed, Edges, Sanitizers
  <2> QED
    BY <1>4, <2>1
<1>5. ASSUME Next, ~NoEndpoints, ~Report PROVE phase' \notin {"start", "done"}
  BY <1>5 DEF Next, Level, Sweeping, Start, BeginSweep, EndFirstSweep, SkipCall, ExpandCall,
     EndRound, EndFreshSweep, EndRounds, SkipSite, ExpandSite, EndPass, EndFullSweep, EndPasses
<1> QED
  BY <1>1, <1>2, <1>3, <1>4, <1>5

----------------------------------------------------------------------------
(* Soundness *)

\* A step keeps Sound when what it adds is in every set that is closed after it.
LEMMA SoundStep ==
  ASSUME Sound, UNCHANGED program, extra \subseteq extra',
         ASSUME SitesUnsanitized,
                NEW X \in SUBSET Node,
                program.sources \subseteq X,
                Closed(X, Edges \cup extra'),
                tainted \cup swept \subseteq X
         PROVE  tainted' \cup swept' \subseteq X
  PROVE  Sound'
<1>1. SitesUnsanitized' = SitesUnsanitized
  BY DEF SitesUnsanitized, Resolved, Sanitizers
<1>2. SUFFICES ASSUME SitesUnsanitized,
                      NEW X \in SUBSET Node,
                      program.sources \subseteq X,
                      Closed(X, Edges \cup extra)'
               PROVE  tainted' \cup swept' \subseteq X
  BY <1>1 DEF Sound, InEveryClosedSet
<1>3. Closed(X, Edges \cup extra')
  BY <1>2 DEF Closed, Edges, Sanitizers
<1>4. Edges \cup extra \subseteq Edges \cup extra'
  OBVIOUS
<1>5. Closed(X, Edges \cup extra)
  BY <1>3, <1>4, ClosedAntitone
<1>6. tainted \cup swept \subseteq X
  BY <1>2, <1>5 DEF Sound, InEveryClosedSet
<1> QED
  BY <1>2, <1>3, <1>6

LEMMA NextSound == TypeOK /\ Sweeps /\ Sound /\ [Next]_vars => Sound'
<1> SUFFICES ASSUME TypeOK, Sweeps, Sound, [Next]_vars PROVE Sound'
  OBVIOUS
<1>0. ASSUME UNCHANGED <<program, extra>>,
             tainted' \cup swept' \subseteq tainted \cup swept \cup program.sources
      PROVE  Sound'
  BY <1>0, SoundStep
<1>1. CASE Level
  <2>1. UNCHANGED <<program, extra, tainted>> /\ swept' = swept \cup NextWave
    BY <1>1 DEF Level, engine
  <2>2. ASSUME NEW X \in SUBSET Node, Closed(X, Edges \cup extra'), swept \subseteq X
        PROVE  NextWave \subseteq X
    BY <2>2 DEF NextWave, Closed, Sweeps
  <2>3. ASSUME NEW X \in SUBSET Node, Closed(X, Edges \cup extra'), tainted \cup swept \subseteq X
        PROVE  tainted' \cup swept' \subseteq X
    BY <2>1, <2>2, <2>3
  <2> QED
    BY <2>1, <2>3, SoundStep
<1>2. CASE NoEndpoints \/ Start \/ EndFirstSweep
  BY <1>0, <1>2 DEF NoEndpoints, Start, BeginSweep, EndFirstSweep, engine, sweep
<1>3. ASSUME NEW c \in Node, SkipCall(c) \/ SkipSite(c) PROVE Sound'
  BY <1>0, <1>3 DEF SkipCall, SkipSite, engine, sweep
<1>4. ASSUME NEW c \in Node, ExpandCall(c) PROVE Sound'
  \* The call is one of the edges the step records away from a tainted argument.
  <2>1. UNCHANGED <<program, swept>> /\ extra \subseteq extra' /\ tainted' = tainted \cup {c}
    BY <1>4 DEF ExpandCall, sweep
  <2>2. c \notin Sanitizers
    BY <1>4 DEF ExpandCall, Expandable
  <2>3. PICK i \in TaintedArgs(c) : <<program.args[c][i], c>> \in extra'
    BY <1>4 DEF ExpandCall, Expandable
  <2>4. program.args[c][i] \in tainted
    BY <2>3 DEF TaintedArgs
  <2>5. ASSUME NEW X \in SUBSET Node, Closed(X, Edges \cup extra'), tainted \cup swept \subseteq X
        PROVE  tainted' \cup swept' \subseteq X
    BY <2>1, <2>2, <2>3, <2>4, <2>5 DEF Closed
  <2> QED
    BY <2>1, <2>5, SoundStep
<1>5. ASSUME NEW c \in Node, ExpandSite(c) PROVE Sound'
  <2>1. UNCHANGED <<program, swept>> /\ extra \subseteq extra' /\ tainted' = tainted \cup {c}
    BY <1>5 DEF ExpandSite, sweep
  <2>2. SitesUnsanitized => c \notin Sanitizers
    BY <1>5 DEF ExpandSite, SitesUnsanitized, Resolved
  <2>3. PICK k \in DOMAIN program.callees[c] :
          /\ ReturnsTaint(c, program.callees[c][k])
          /\ extra' = extra \cup {<<program.children[c][i], c>> :
                                    i \in CrossArgs(c, program.callees[c][k])}
    BY <1>5 DEF ExpandSite, FirstReturning
  <2>4. PICK i \in CrossArgs(c, program.callees[c][k]) : <<program.children[c][i], c>> \in extra'
    BY <2>3 DEF ReturnsTaint
  <2>5. program.children[c][i] \in tainted
    BY <2>4 DEF CrossArgs
  <2>6. ASSUME SitesUnsanitized,
               NEW X \in SUBSET Node, Closed(X, Edges \cup extra'), tainted \cup swept \subseteq X
        PROVE  tainted' \cup swept' \subseteq X
    BY <2>1, <2>2, <2>4, <2>5, <2>6 DEF Closed
  <2> QED
    BY <2>1, <2>6, SoundStep
<1>6. CASE EndRound
  BY <1>0, <1>6 DEF EndRound, BeginSweep, Sweeps, engine
<1>7. CASE EndFreshSweep \/ EndRounds
  BY <1>0, <1>7 DEF EndFreshSweep, EndRounds, engine, sweep
<1>8. CASE EndPass \/ EndFullSweep \/ EndPasses
  BY <1>0, <1>8 DEF EndPass, BeginSweep, EndFullSweep, EndPasses, engine, sweep
<1>9. CASE Report \/ UNCHANGED vars
  BY <1>0, <1>9 DEF Report, vars, engine, sweep
<1> QED
  BY <1>1, <1>2, <1>3, <1>4, <1>5, <1>6, <1>7, <1>8, <1>9 DEF Next

----------------------------------------------------------------------------
(* Reach is the least closed set around its base *)

LEMMA ReachBase ==
  ASSUME NEW S \in SUBSET Node, NEW E
  PROVE  S \subseteq Reach(S, E) /\ Reach(S, E) \in SUBSET Node
BY DEF Reach

LEMMA ReachStep ==
  ASSUME NEW S \in SUBSET Node, NEW E, NEW m \in Reach(S, E), NEW n \in Node \ Sanitizers,
         <<m, n>> \in E
  PROVE  n \in Reach(S, E)
BY DEF Reach, Closed

----------------------------------------------------------------------------
(* Justification *)

LEMMA NextJustified == TypeOK /\ Sweeps /\ Justified /\ [Next]_vars => Justified'
<1> SUFFICES ASSUME TypeOK, Sweeps, Justified, [Next]_vars PROVE Justified'
  OBVIOUS
<1> DEFINE S == program.sources
           Far == Expected(S)
<1>1. S \in SUBSET Node
  BY DEF TypeOK, ProgramType
<1>2. S \subseteq Local /\ Local \subseteq Node
  BY <1>1, ReachBase DEF Local
<1>3. Local \subseteq Far
  BY <1>2, ReachBase DEF Local, Expected
<1>4. ASSUME UNCHANGED program
      PROVE  UNCHANGED <<SitesUnsanitized, Local, Far, S>>
  BY <1>4 DEF SitesUnsanitized, Resolved, Sanitizers, Local, Expected, Reach, Closed, Edges,
     SummaryEdges, CrossEdges
<1>5. ASSUME UNCHANGED program, phase' \in Early => phase \in Early,
             tainted' \cup swept' \subseteq tainted \cup swept \cup S
      PROVE  Justified'
  BY <1>2, <1>3, <1>4, <1>5 DEF Justified
<1> HIDE DEF S, Far
<1>6. CASE Level
  <2>1. UNCHANGED <<program, tainted, phase>> /\ swept' = swept \cup NextWave
    BY <1>6 DEF Level, engine
  <2>2. ASSUME wave \subseteq Local PROVE NextWave \subseteq Local
    BY <1>1, <2>2, ReachStep DEF NextWave, Local, S
  <2>3. ASSUME wave \subseteq Far PROVE NextWave \subseteq Far
    BY <1>2, <2>3, ReachStep DEF NextWave, Far, Expected, Local, S
  <2>4. UNCHANGED <<SitesUnsanitized, Local, Far>>
    BY <1>4, <2>1
  <2> QED
    BY <2>1, <2>2, <2>3, <2>4 DEF Justified, Sweeps, Far, S
<1>7. CASE NoEndpoints \/ Start \/ EndFirstSweep
  BY <1>5, <1>7 DEF NoEndpoints, Start, BeginSweep, EndFirstSweep, engine, sweep, S, Early
<1>8. ASSUME NEW c \in Node, SkipCall(c) \/ SkipSite(c) PROVE Justified'
  BY <1>5, <1>8 DEF SkipCall, SkipSite, engine, sweep
<1>9. ASSUME NEW c \in Node, ExpandCall(c) PROVE Justified'
  <2>1. /\ UNCHANGED <<program, swept, phase>> /\ tainted' = tainted \cup {c}
        /\ phase \in Early
    BY <1>9 DEF ExpandCall, sweep, Early
  <2>2. c \in program.summarised \ Sanitizers
    BY <1>9 DEF ExpandCall, Expandable
  <2>3. PICK i \in TaintedArgs(c) : i \in program.returns[c]
    BY <1>9 DEF ExpandCall, Expandable
  <2>4. i \in DOMAIN program.args[c] /\ program.args[c][i] \in tainted
    BY <2>3 DEF TaintedArgs
  <2>5. <<program.args[c][i], c>> \in Edges \cup SummaryEdges
    BY <2>2, <2>3, <2>4 DEF SummaryEdges, TypeOK
  <2>6. program.args[c][i] \in Local => c \in Local
    BY <1>1, <2>2, <2>5, ReachStep DEF Local, S
  <2>7. UNCHANGED <<SitesUnsanitized, Local>>
    BY <1>4, <2>1
  <2> QED
    BY <2>1, <2>4, <2>6, <2>7 DEF Justified
<1>10. ASSUME NEW c \in Node, ExpandSite(c) PROVE Justified'
  <2>1. /\ UNCHANGED <<program, swept, phase>> /\ tainted' = tainted \cup {c}
        /\ phase \notin Early
    BY <1>10 DEF ExpandSite, sweep, Early
  <2>2. SitesUnsanitized => c \notin Sanitizers
    BY <1>10 DEF ExpandSite, SitesUnsanitized, Resolved
  <2>3. PICK k \in DOMAIN program.callees[c] : ReturnsTaint(c, program.callees[c][k])
    BY <1>10 DEF ExpandSite, FirstReturning
  <2>4. PICK i \in CrossArgs(c, program.callees[c][k]) : i \in program.callees[c][k].returns
    BY <2>3 DEF ReturnsTaint
  <2>5. /\ i \in DOMAIN program.children[c] /\ i <= program.callees[c][k].params
        /\ program.children[c][i] \in tainted
    BY <2>4 DEF CrossArgs
  <2>6. <<program.children[c][i], c>> \in Edges \cup CrossEdges
    BY <2>4, <2>5 DEF CrossEdges, TypeOK
  <2>7. program.children[c][i] \in Far /\ c \notin Sanitizers => c \in Far
    BY <1>2, <2>6, ReachStep DEF Far, Expected, Local, S
  <2>8. UNCHANGED <<SitesUnsanitized, Far>>
    BY <1>4, <2>1
  <2> QED
    BY <2>1, <2>2, <2>5, <2>7, <2>8 DEF Justified, Far, S
<1>11. CASE EndRound
  BY <1>5, <1>11 DEF EndRound, BeginSweep, Sweeps, engine, Early
<1>12. CASE EndFreshSweep \/ EndRounds
  BY <1>5, <1>12 DEF EndFreshSweep, EndRounds, engine, sweep, Early
<1>13. CASE EndPass \/ EndFullSweep \/ EndPasses
  BY <1>5, <1>13 DEF EndPass, BeginSweep, EndFullSweep, EndPasses, engine, sweep, Early
<1>14. CASE Report \/ UNCHANGED vars
  BY <1>5, <1>14 DEF Report, vars, engine, sweep, Early
<1> QED
  BY <1>6, <1>7, <1>8, <1>9, <1>10, <1>11, <1>12, <1>13, <1>14 DEF Next

----------------------------------------------------------------------------
(* Theorems *)

LEMMA Inductive == Spec => []IInv
<1>1. IInv /\ [Next]_vars => IInv'
  BY NextType, NextSweeps, NextSound, NextClean, NextTold, NextJustified DEF IInv
<1> QED
  BY InitIInv, <1>1, PTL DEF Spec

\* The variables keep their types; in particular no sweep goes deeper than
\* max_depth (taint_cfg in run).
THEOREM TypeCorrect == Spec => []TypeOK
<1>1. IInv => TypeOK
  BY DEF IInv
<1> QED
  BY Inductive, <1>1, PTL

\* run, the sweeps of propagate_taint and both expansions never taint a sanitizer,
\* unless it is itself a source or a call site resolved in another file.
THEOREM SanitizersAreKept == Spec => []SanitizersHold
<1>1. IInv => SanitizersHold
  BY DEF IInv, Clean, SanitizersHold
<1> QED
  BY Inductive, <1>1, PTL

\* Whatever the order in which run takes the calls and wherever the depth bound
\* cuts, it taints only what flows, summaries and callees in other files carry
\* from the sources.
THEOREM NothingElseIsTainted == Spec => []TaintIsJustified
<1>1. IInv => TaintIsJustified
  BY DEF IInv, Justified, Early, TaintIsJustified
<1> QED
  BY Inductive, <1>1, PTL

LEMMA SinkOfASource == IInv => TaintedSinkReported
<1> SUFFICES ASSUME IInv, phase = "done", SitesUnsanitized,
                    NEW k \in program.sinks \cap tainted,
                    program.sources \X {k} \subseteq program.kept
             PROVE  \E s \in program.sources : <<s, k>> \in findings
  BY DEF TaintedSinkReported
<1> DEFINE E == Edges \cup extra
           X == {n \in Node : \E s \in program.sources : n \in Reach({s}, E)}
<1>1. program.sources \subseteq Node
  BY DEF IInv, TypeOK, ProgramType
<1>2. program.sources \subseteq X
  BY <1>1, ReachBase
<1>3. Closed(X, E)
  <2> SUFFICES ASSUME NEW n \in Node \ Sanitizers, NEW m \in X, <<m, n>> \in E
               PROVE  n \in X
    BY DEF Closed
  <2>1. PICK s \in program.sources : m \in Reach({s}, E)
    OBVIOUS
  <2>2. {s} \in SUBSET Node
    BY <1>1
  <2>3. n \in Reach({s}, E)
    BY <2>1, <2>2, ReachStep
  <2> QED
    BY <2>3
<1>4. k \in X
  BY <1>2, <1>3 DEF IInv, Sound, InEveryClosedSet
<1>5. PICK s \in program.sources : k \in Reach({s}, E)
  BY <1>4
<1>6. findings = Reported
  BY DEF IInv, Told
<1>7. <<s, k>> \in Reported
  BY <1>5 DEF Reported, ReachesWithPropagators
<1> QED
  BY <1>6, <1>7

\* reaches_with_propagators, asked at the end of run, never disagrees with the
\* expansions: each tainted sink is reported for one of the sources.
THEOREM TaintedSinksAreReported == Spec => []TaintedSinkReported
BY Inductive, SinkOfASource, PTL

-----------------------------------------------------------------------------
(* Completeness. *)

\* Every node that is swept and not in the wave has its successors swept.
Frontier ==
  \A m \in swept \ wave, n \in Node \ Sanitizers : <<m, n>> \in Edges => n \in swept

\* Each depth has brought a node, so a sweep that is cut off has all the nodes.
Counted == phase \in Sweeping /\ wave # {} => Cardinality(swept) > steps

\* The tainted nodes whose successors may be missing.
Unswept ==
  IF phase \in {"round", "fresh"} THEN fresh
  ELSE IF phase \in {"pass", "all"} /\ changed THEN tainted
  ELSE {}
Flowed ==
  \A m \in tainted \ Unswept, n \in Node \ Sanitizers : <<m, n>> \in Edges => n \in tainted

\* A call that a summary expands is yet to be examined, in this round or the next.
Pending ==
  /\ phase \in {"round", "fresh"} => \A c \in Node : Expandable(c) => c \in todo \cup next
  /\ phase = "fresh" => todo = {} /\ fresh \subseteq swept
  /\ phase \in {"start", "sources", "round"} /\ fresh = {} => next = {}

\* A call site that a callee returns taint to is yet to be examined, in this pass or the next.
SitesPending ==
  /\ phase = "pass" =>
       \A c \in Node \ tainted :
         (\E k \in DOMAIN program.callees[c] : ReturnsTaint(c, program.callees[c][k]))
           => c \in todo \/ changed
  /\ phase = "all" => changed /\ tainted \subseteq swept

\* What each phase has completed.
Completed ==
  /\ phase = "start" => tainted = {}
  /\ phase = "sources" => program.sources \subseteq swept /\ tainted = {}
  /\ phase \in {"round", "fresh"} => program.sources \subseteq tainted
  /\ phase \in {"pass", "all"} => Local \subseteq tainted
  /\ phase \in {"report", "done"} => Expected(program.sources) \subseteq tainted

Complete == Exact => Flowed /\ Pending /\ SitesPending /\ Completed

CInv == Frontier /\ Counted /\ Complete

----------------------------------------------------------------------------
(* Sets of nodes *)

LEMMA NodesFinite ==
  ASSUME NEW S \in SUBSET Node
  PROVE  /\ IsFiniteSet(S) /\ Cardinality(S) \in Nat
         /\ Cardinality(S) <= Cardinality(Node) /\ Cardinality(Node) \in Nat
<1>1. IsFiniteSet(Node) /\ S \subseteq Node
  BY NodeAssumption
<1>2. IsFiniteSet(S) /\ Cardinality(S) <= Cardinality(Node)
  BY <1>1, FS_Subset
<1> QED
  BY <1>1, <1>2, FS_CardinalityType

LEMMA Grows ==
  ASSUME NEW S \in SUBSET Node, NEW T \in SUBSET Node, T \cap S = {}, T # {}
  PROVE  Cardinality(S \cup T) > Cardinality(S)
<1>1. IsFiniteSet(S \cup T) /\ Cardinality(S \cup T) \in Nat /\ Cardinality(S) \in Nat
  BY NodesFinite
<1>2. S \subseteq S \cup T /\ S # S \cup T
  OBVIOUS
<1>3. Cardinality(S) <= Cardinality(S \cup T) /\ Cardinality(S) # Cardinality(S \cup T)
  BY <1>1, <1>2, FS_Subset
<1> QED
  BY <1>1, <1>3

\* A closed set around the base holds all that is reached.
LEMMA ReachLeast ==
  ASSUME NEW E, NEW S, NEW X \in SUBSET Node, S \subseteq X, Closed(X, E)
  PROVE  Reach(S, E) \subseteq X
BY DEF Reach

\* The callees of a call site are searched in order: if one returns taint, one is the first.
LEMMA FirstExists ==
  ASSUME TypeOK, NEW c \in Node,
         NEW k \in DOMAIN program.callees[c], ReturnsTaint(c, program.callees[c][k])
  PROVE  \E j \in DOMAIN program.callees[c] : FirstReturning(c, j)
<1> DEFINE returning == {j \in Nat : j \in DOMAIN program.callees[c]
                                      /\ ReturnsTaint(c, program.callees[c][j])}
<1>1. program.callees[c] \in Seq(Callee)
  BY DEF TypeOK, ProgramType
<1>2. DOMAIN program.callees[c] = 1..Len(program.callees[c]) /\ Len(program.callees[c]) \in Nat
  BY <1>1
<1>3. k \in returning
  BY <1>2
<1>4. PICK j \in returning : \A i \in returning : <<i, j>> \notin OpToRel(<, Nat)
  <2>1. IsWellFoundedOn(OpToRel(<, Nat), Nat)
    BY NatLessThanWellFounded
  <2>2. returning \subseteq Nat /\ returning # {}
    BY <1>3
  <2> HIDE DEF returning
  <2> QED
    BY <2>1, <2>2, WFMin
<1>5. ASSUME NEW i \in 1..j-1, ReturnsTaint(c, program.callees[c][i]) PROVE FALSE
  <2>1. i \in returning /\ i < j /\ i \in Nat /\ j \in Nat
    BY <1>2, <1>5
  <2> QED
    BY <1>4, <2>1 DEF OpToRel
<1> QED
  BY <1>4, <1>5 DEF FirstReturning

----------------------------------------------------------------------------
(* The sweep *)

LEMMA NextFrontier == Frontier /\ [Next]_vars => Frontier'
<1> SUFFICES ASSUME Frontier, [Next]_vars PROVE Frontier'
  OBVIOUS
<1>1. UNCHANGED program
  BY DEF Next, vars, Level, NoEndpoints, Start, EndFirstSweep, SkipCall, ExpandCall, EndRound,
     EndFreshSweep, EndRounds, SkipSite, ExpandSite, EndPass, EndFullSweep, EndPasses, Report
<1>2. UNCHANGED <<Edges, Sanitizers>>
  BY <1>1 DEF Edges, Sanitizers
<1>3. CASE Level
  <2>1. swept' = swept \cup NextWave /\ wave' = NextWave
    BY <1>3 DEF Level
  <2>2. swept' \ wave' = swept
    BY <2>1 DEF NextWave
  <2>3. ASSUME NEW m \in swept, NEW n \in Node \ Sanitizers, <<m, n>> \in Edges
        PROVE  n \in swept'
    BY <2>1, <2>3 DEF Frontier, NextWave
  <2> QED
    BY <1>2, <2>2, <2>3 DEF Frontier
<1>4. CASE Start \/ EndRound \/ EndPass
  BY <1>4 DEF Start, EndRound, EndPass, BeginSweep, Frontier
<1>5. CASE ~(Level \/ Start \/ EndRound \/ EndPass)
  <2>1. UNCHANGED <<swept, wave>>
    BY <1>5 DEF Next, vars, sweep, NoEndpoints, EndFirstSweep, SkipCall, ExpandCall,
       EndFreshSweep, EndRounds, SkipSite, ExpandSite, EndFullSweep, EndPasses, Report
  <2> QED
    BY <1>2, <2>1 DEF Frontier
<1> QED
  BY <1>3, <1>4, <1>5

LEMMA NextCounted == TypeOK /\ Sweeps /\ Counted /\ [Next]_vars => Counted'
<1> SUFFICES ASSUME TypeOK, Sweeps, Counted, [Next]_vars PROVE Counted'
  OBVIOUS
<1>1. CASE Level
  <2>1. /\ phase \in Sweeping /\ wave # {}
        /\ swept' = swept \cup NextWave /\ wave' = NextWave /\ steps' = steps + 1
    BY <1>1 DEF Level, SweepDone
  <2>2. NextWave \in SUBSET Node /\ NextWave \cap swept = {} /\ swept \in SUBSET Node
    BY DEF NextWave, TypeOK
  <2>3. Cardinality(swept) > steps
    BY <2>1 DEF Counted
  <2>4. NextWave # {} => Cardinality(swept \cup NextWave) > Cardinality(swept)
    BY <2>2, Grows
  <2>5. swept \cup NextWave \in SUBSET Node
    BY <2>2
  <2>6. Cardinality(swept) \in Nat /\ Cardinality(swept \cup NextWave) \in Nat
    BY <2>2, <2>5, NodesFinite
  <2>7. steps \in Int
    BY DepthType DEF TypeOK
  <2> QED
    BY <2>1, <2>3, <2>4, <2>6, <2>7 DEF Counted
<1>2. ASSUME NEW S \in SUBSET Node, swept' = S, wave' = S, steps' = 0 PROVE Counted'
  <2>1. IsFiniteSet(S) /\ Cardinality(S) \in Nat
    BY NodesFinite
  <2>2. S # {} => Cardinality(S) > 0
    BY <2>1, FS_EmptySet
  <2> QED
    BY <1>2, <2>2 DEF Counted
<1>3. CASE Start
  BY <1>2, <1>3 DEF Start, BeginSweep, TypeOK, ProgramType
<1>4. CASE EndRound
  BY <1>2, <1>4 DEF EndRound, BeginSweep, TypeOK
<1>5. CASE EndPass
  BY <1>2, <1>5 DEF EndPass, BeginSweep, TypeOK
<1>6. CASE UNCHANGED vars
  BY <1>6 DEF vars, sweep, Counted
<1>7. ASSUME Next, ~(Level \/ Start \/ EndRound \/ EndPass) PROVE phase' \notin Sweeping
  BY <1>7 DEF Next, NoEndpoints, EndFirstSweep, SkipCall, ExpandCall,
     EndFreshSweep, EndRounds, SkipSite, ExpandSite, EndFullSweep, EndPasses, Report, Sweeping
<1> QED
  BY <1>1, <1>3, <1>4, <1>5, <1>6, <1>7 DEF Counted

\* A sweep ends for want of nodes, not for want of depth, so what it swept is closed.
LEMMA SweepIsClosed ==
  ASSUME TypeOK, Sweeps, Frontier, Counted, Ample, phase \in Sweeping, SweepDone
  PROVE  \A m \in swept, n \in Node \ Sanitizers : <<m, n>> \in Edges => n \in swept
<1>1. swept \in SUBSET Node
  BY DEF TypeOK
<1>2. /\ Cardinality(swept) \in Nat /\ Cardinality(Node) \in Nat
      /\ Cardinality(swept) <= Cardinality(Node)
  BY <1>1, NodesFinite
<1>3. MaxDepth \in Nat /\ MaxDepth >= Cardinality(Node)
  BY DepthType DEF TypeOK, Ample
<1>4. ASSUME wave # {} PROVE FALSE
  <2>1. steps = MaxDepth /\ Cardinality(swept) > steps
    BY <1>4 DEF SweepDone, Counted
  <2> QED
    BY <1>2, <1>3, <2>1
<1> QED
  BY <1>4 DEF Frontier

----------------------------------------------------------------------------
(* The worklists *)

LEMMA SameProgram ==
  ASSUME UNCHANGED program
  PROVE  /\ Exact' <=> Exact
         /\ UNCHANGED <<Edges, Sanitizers, Resolved, Local, Expected(program.sources)>>
BY DEF Exact, Ran, Ample, MaxDepth, SitesUnsanitized, Resolved, Sanitizers, Edges, Local, Expected,
   Reach, Closed, SummaryEdges, CrossEdges

LEMMA ProgramFixed == [Next]_vars => UNCHANGED program
BY DEF Next, vars, Level, NoEndpoints, Start, EndFirstSweep, SkipCall, ExpandCall, EndRound,
   EndFreshSweep, EndRounds, SkipSite, ExpandSite, EndPass, EndFullSweep, EndPasses, Report

\* What an expandable call needs: a tainted argument whose taint its callee returns.
LEMMA ExpandableArg ==
  ASSUME NEW c \in Node
  PROVE  Expandable(c) <=>
           /\ c \in program.summarised \ (Sanitizers \cup tainted)
           /\ \E i \in DOMAIN program.args[c] \cap program.returns[c] : program.args[c][i] \in tainted
BY DEF Expandable, TaintedArgs

\* The rounds end with a set that is closed under summaries.
LEMMA RoundsClose ==
  ASSUME TypeOK, Flowed, Pending, Completed, phase = "round", todo = {}, fresh = {}
  PROVE  Local \subseteq tainted
<1>1. tainted \in SUBSET Node /\ program.sources \subseteq tainted
  BY DEF TypeOK, Completed
<1>2. Closed(tainted, Edges \cup SummaryEdges)
  <2> SUFFICES ASSUME NEW n \in Node \ Sanitizers, NEW m \in tainted,
                      <<m, n>> \in Edges \cup SummaryEdges, n \notin tainted
               PROVE  FALSE
    BY DEF Closed
  <2>1. <<m, n>> \notin Edges
    BY DEF Flowed, Unswept
  <2>2. <<m, n>> \in SummaryEdges
    BY <2>1
  <2>3. /\ n \in program.summarised
        /\ \E i \in DOMAIN program.args[n] \cap program.returns[n] : program.args[n][i] = m
    BY <2>2 DEF SummaryEdges
  <2>4. Expandable(n)
    BY <2>3, ExpandableArg
  <2>5. next = {}
    BY DEF Pending
  <2> QED
    BY <2>4, <2>5 DEF Pending
<1> QED
  BY <1>1, <1>2, ReachLeast DEF Local

\* The passes end with a set that is closed under the call sites of other files.
LEMMA PassesClose ==
  ASSUME TypeOK, Flowed, SitesPending, Completed, phase = "pass", todo = {}, ~changed
  PROVE  Expected(program.sources) \subseteq tainted
<1>1. tainted \in SUBSET Node /\ Local \subseteq tainted
  BY DEF TypeOK, Completed
<1>2. Closed(tainted, Edges \cup CrossEdges)
  <2> SUFFICES ASSUME NEW n \in Node \ Sanitizers, NEW m \in tainted,
                      <<m, n>> \in Edges \cup CrossEdges, n \notin tainted
               PROVE  FALSE
    BY DEF Closed
  <2>1. <<m, n>> \notin Edges
    BY DEF Flowed, Unswept
  <2>2. <<m, n>> \in CrossEdges
    BY <2>1
  <2>3. PICK k \in DOMAIN program.callees[n] :
          \E i \in DOMAIN program.children[n] \cap program.callees[n][k].returns :
            i <= program.callees[n][k].params /\ program.children[n][i] = m
    BY <2>2 DEF CrossEdges
  <2>4. ReturnsTaint(n, program.callees[n][k])
    BY <2>3 DEF ReturnsTaint, CrossArgs
  <2> QED
    BY <2>4 DEF SitesPending
<1> QED
  BY <1>1, <1>2, ReachLeast DEF Expected, Local

LEMMA InitCInv == Init => CInv
BY DEF Init, CInv, Frontier, Counted, Complete, Flowed, Unswept, Pending, SitesPending, Completed

LEMMA NextComplete == IInv /\ CInv /\ [Next]_vars => Complete'
<1> SUFFICES ASSUME IInv, CInv, [Next]_vars, Exact
             PROVE  (Flowed /\ Pending /\ SitesPending /\ Completed)'
  BY ProgramFixed, SameProgram DEF Complete
<1> USE DEF vars, engine, sweep, work
<1>0. UNCHANGED <<program, Edges, Sanitizers, Resolved, Local, Expected(program.sources)>>
  BY ProgramFixed, SameProgram
<1>1. /\ TypeOK /\ Sweeps /\ Frontier /\ Counted
      /\ Flowed /\ Pending /\ SitesPending /\ Completed
      /\ Ran /\ program.deep /\ Ample
  BY DEF IInv, CInv, Complete, Exact
\* Steps that leave the engine and its worklists alone.
<1>2. ASSUME UNCHANGED <<phase, tainted, todo, fresh, next, changed>>, swept \subseteq swept'
      PROVE  (Flowed /\ Pending /\ SitesPending /\ Completed)'
  <2>1. Flowed'
    BY <1>0, <1>1, <1>2 DEF Flowed, Unswept
  <2>2. ASSUME NEW c \in Node PROVE Expandable(c)' <=> Expandable(c)
    BY <1>0, <1>2 DEF Expandable, TaintedArgs
  <2>3. Pending'
    BY <1>1, <1>2, <2>2 DEF Pending
  <2>4. SitesPending'
    BY <1>0, <1>1, <1>2 DEF SitesPending, ReturnsTaint, CrossArgs
  <2>5. Completed'
    BY <1>0, <1>1, <1>2 DEF Completed
  <2> QED
    BY <2>1, <2>3, <2>4, <2>5
<1>3. CASE Level \/ UNCHANGED vars
  BY <1>2, <1>3 DEF Level
<1>4. CASE NoEndpoints
  BY <1>1, <1>4 DEF NoEndpoints, Ran
<1>5. CASE Start
  BY <1>0, <1>1, <1>5 DEF Start, BeginSweep, Sweeps, Flowed, Unswept, Pending, SitesPending, Completed
<1>6. CASE EndFirstSweep
  <2>1. /\ phase = "sources" /\ SweepDone /\ phase' = "round" /\ todo' = Readers(swept)
        /\ tainted' = swept /\ UNCHANGED <<program, fresh, next>>
    BY <1>1, <1>6 DEF EndFirstSweep
  <2>2. fresh = {} /\ next = {}
    BY <1>1, <2>1 DEF Sweeps, Pending
  <2>3. Flowed'
    BY <1>0, <1>1, <2>1, SweepIsClosed DEF Flowed, Sweeping
  <2>4. ASSUME NEW c \in Node, Expandable(c)' PROVE c \in todo'
    BY <2>1, <2>4 DEF Expandable, TaintedArgs, Readers
  <2>5. Pending'
    BY <2>1, <2>2, <2>4 DEF Pending
  <2> QED
    BY <1>0, <1>1, <2>1, <2>3, <2>5 DEF SitesPending, Completed
<1>7. ASSUME NEW c \in Node, SkipCall(c)
      PROVE  (Flowed /\ Pending /\ SitesPending /\ Completed)'
  <2>1. /\ phase = "round" /\ ~Expandable(c) /\ todo' = todo \ {c}
        /\ UNCHANGED <<program, phase, tainted, fresh, next, changed>>
    BY <1>7 DEF SkipCall
  <2>2. ASSUME NEW d \in Node PROVE Expandable(d)' <=> Expandable(d)
    BY <2>1 DEF Expandable, TaintedArgs, Sanitizers
  <2>3. Pending'
    BY <1>1, <2>1, <2>2 DEF Pending
  <2>4. Flowed' /\ Completed'
    BY <1>0, <1>1, <2>1 DEF Flowed, Unswept, Completed
  <2> QED
    BY <2>1, <2>3, <2>4 DEF SitesPending
<1>8. ASSUME NEW c \in Node, ExpandCall(c)
      PROVE  (Flowed /\ Pending /\ SitesPending /\ Completed)'
  <2>1. /\ phase = "round" /\ todo' = todo \ {c} /\ tainted' = tainted \cup {c}
        /\ fresh' = fresh \cup {c} /\ next' = next \cup Readers({c})
        /\ UNCHANGED <<program, phase>>
    BY <1>8 DEF ExpandCall
  <2>2. Flowed'
    BY <1>0, <1>1, <2>1 DEF Flowed, Unswept
  <2>3. ASSUME NEW d \in Node, Expandable(d)' PROVE d \in todo' \cup next'
    <3>1. /\ d \in program.summarised \ (Sanitizers \cup tainted) /\ d # c
          /\ \E i \in DOMAIN program.args[d] \cap program.returns[d] :
               program.args[d][i] \in tainted \cup {c}
      BY <2>1, <2>3 DEF Expandable, TaintedArgs, Sanitizers
    <3>2. PICK i \in DOMAIN program.args[d] \cap program.returns[d] :
            program.args[d][i] \in tainted \cup {c}
      BY <3>1
    <3>3. CASE program.args[d][i] \in tainted
      <4>1. Expandable(d)
        BY <3>1, <3>2, <3>3, ExpandableArg
      <4> QED
        BY <1>1, <2>1, <3>1, <4>1 DEF Pending
    <3>4. CASE program.args[d][i] = c
      BY <2>1, <3>2, <3>4 DEF Readers
    <3> QED
      BY <3>2, <3>3, <3>4
  <2>4. Pending'
    BY <2>1, <2>3 DEF Pending
  <2> QED
    BY <1>0, <1>1, <2>1, <2>2, <2>4 DEF SitesPending, Completed
<1>9. CASE EndRound
  <2>1. /\ phase = "round" /\ phase' = "fresh" /\ todo = {} /\ swept' = fresh
        /\ UNCHANGED <<program, tainted, todo, fresh, next>>
    BY <1>9 DEF EndRound, BeginSweep
  <2>2. Flowed' /\ Completed'
    BY <1>0, <1>1, <2>1 DEF Flowed, Unswept, Completed
  <2>3. ASSUME NEW d \in Node PROVE Expandable(d)' <=> Expandable(d)
    BY <2>1 DEF Expandable, TaintedArgs, Sanitizers
  <2>4. Pending'
    BY <1>1, <2>1, <2>3 DEF Pending
  <2> QED
    BY <2>1, <2>2, <2>4 DEF SitesPending
<1>10. CASE EndFreshSweep
  <2>1. /\ phase = "fresh" /\ SweepDone /\ phase' = "round" /\ tainted' = tainted \cup swept
        /\ todo' = next \cup Readers(swept \ tainted) /\ fresh' = {} /\ next' = {}
        /\ UNCHANGED program
    BY <1>10 DEF EndFreshSweep
  <2>2. todo = {} /\ fresh \subseteq swept
    BY <1>1, <2>1 DEF Pending
  <2>3. \A m \in tainted \ fresh, n \in Node \ Sanitizers : <<m, n>> \in Edges => n \in tainted
    BY <1>1, <2>1 DEF Flowed, Unswept
  <2>4. \A m \in swept, n \in Node \ Sanitizers : <<m, n>> \in Edges => n \in swept
    BY <1>1, <2>1, SweepIsClosed DEF Sweeping
  <2>5. Flowed'
    BY <1>0, <2>1, <2>2, <2>3, <2>4 DEF Flowed
  <2>6. ASSUME NEW d \in Node, Expandable(d)' PROVE d \in todo'
    <3>1. /\ d \in program.summarised \ (Sanitizers \cup tainted)
          /\ \E i \in DOMAIN program.args[d] \cap program.returns[d] :
               program.args[d][i] \in tainted \cup swept
      BY <2>1, <2>6 DEF Expandable, TaintedArgs, Sanitizers
    <3>2. PICK i \in DOMAIN program.args[d] \cap program.returns[d] :
            program.args[d][i] \in tainted \cup swept
      BY <3>1
    <3>3. CASE program.args[d][i] \in tainted
      <4>1. Expandable(d)
        BY <3>1, <3>2, <3>3, ExpandableArg
      <4> QED
        BY <1>1, <2>1, <2>2, <4>1 DEF Pending
    <3>4. CASE program.args[d][i] \in swept \ tainted
      BY <2>1, <3>2, <3>4 DEF Readers
    <3> QED
      BY <3>2, <3>3, <3>4
  <2>7. Pending'
    BY <2>1, <2>6 DEF Pending
  <2> QED
    BY <1>0, <1>1, <2>1, <2>5, <2>7 DEF SitesPending, Completed
<1>11. CASE EndRounds
  <2>1. /\ phase = "round" /\ todo = {} /\ fresh = {} /\ phase' = "pass"
        /\ todo' = Resolved /\ changed' = FALSE /\ UNCHANGED <<program, tainted, fresh>>
    BY <1>11 DEF EndRounds
  <2>2. Flowed'
    BY <1>0, <1>1, <2>1 DEF Flowed, Unswept
  <2>3. ASSUME NEW d \in Node, NEW k \in DOMAIN program.callees[d] PROVE d \in Resolved
    BY <2>3 DEF Resolved
  <2>4. SitesPending'
    BY <2>1, <2>3 DEF SitesPending
  <2>5. Local \subseteq tainted
    BY <1>1, <2>1, RoundsClose
  <2> QED
    BY <1>0, <2>1, <2>2, <2>4, <2>5 DEF Pending, Completed
<1>12. ASSUME NEW c \in Node, SkipSite(c)
       PROVE  (Flowed /\ Pending /\ SitesPending /\ Completed)'
  <2>1. /\ phase = "pass" /\ todo' = todo \ {c}
        /\ c \in tainted \/ \A k \in DOMAIN program.callees[c] : ~FirstReturning(c, k)
        /\ UNCHANGED <<program, phase, tainted, changed>>
    BY <1>12 DEF SkipSite
  <2>2. ASSUME c \notin tainted, NEW k \in DOMAIN program.callees[c]
        PROVE  ~ReturnsTaint(c, program.callees[c][k])
    BY <1>1, <2>1, <2>2, FirstExists
  <2>3. ASSUME NEW d \in Node, NEW k \in DOMAIN program.callees[d]
        PROVE  ReturnsTaint(d, program.callees[d][k])' <=> ReturnsTaint(d, program.callees[d][k])
    BY <2>1 DEF ReturnsTaint, CrossArgs
  <2>4. SitesPending'
    BY <1>1, <2>1, <2>2, <2>3 DEF SitesPending
  <2>5. Flowed' /\ Completed'
    BY <1>0, <1>1, <2>1 DEF Flowed, Unswept, Completed
  <2> QED
    BY <2>1, <2>4, <2>5 DEF Pending
<1>13. ASSUME NEW c \in Node, ExpandSite(c)
       PROVE  (Flowed /\ Pending /\ SitesPending /\ Completed)'
  <2>1. /\ phase = "pass" /\ tainted' = tainted \cup {c} /\ changed' = TRUE
        /\ UNCHANGED <<program, phase>>
    BY <1>13 DEF ExpandSite
  <2> QED
    BY <1>0, <1>1, <2>1 DEF Flowed, Unswept, Pending, SitesPending, Completed
<1>14. CASE EndPass
  <2>1. /\ phase = "pass" /\ changed /\ phase' = "all" /\ swept' = tainted
        /\ UNCHANGED <<program, tainted, changed>>
    BY <1>14 DEF EndPass, BeginSweep
  <2> QED
    BY <1>0, <1>1, <2>1 DEF Flowed, Unswept, Pending, SitesPending, Completed
<1>15. CASE EndFullSweep
  <2>1. /\ phase = "all" /\ SweepDone /\ phase' = "pass" /\ tainted' = tainted \cup swept
        /\ todo' = Resolved /\ changed' = FALSE /\ UNCHANGED program
    BY <1>15 DEF EndFullSweep
  <2>2. tainted' = swept
    BY <1>1, <2>1 DEF SitesPending
  <2>3. Flowed'
    BY <1>0, <1>1, <2>1, <2>2, SweepIsClosed DEF Flowed, Sweeping
  <2>4. ASSUME NEW d \in Node, NEW k \in DOMAIN program.callees[d] PROVE d \in Resolved
    BY <2>4 DEF Resolved
  <2>5. SitesPending'
    BY <2>1, <2>4 DEF SitesPending
  <2> QED
    BY <1>0, <1>1, <2>1, <2>3, <2>5 DEF Pending, Completed
<1>16. CASE EndPasses
  <2>1. /\ phase = "pass" /\ todo = {} /\ ~changed /\ phase' = "report"
        /\ UNCHANGED <<program, tainted>>
    BY <1>16 DEF EndPasses
  <2>2. Expected(program.sources) \subseteq tainted
    BY <1>1, <2>1, PassesClose
  <2>3. Flowed'
    BY <1>0, <1>1, <2>1 DEF Flowed, Unswept
  <2> QED
    BY <1>0, <2>1, <2>2, <2>3 DEF Pending, SitesPending, Completed
<1>17. CASE Report
  <2>1. phase = "report" /\ phase' = "done" /\ UNCHANGED <<program, tainted>>
    BY <1>17 DEF Report
  <2>2. Flowed'
    BY <1>0, <1>1, <2>1 DEF Flowed, Unswept
  <2> QED
    BY <1>0, <1>1, <2>1, <2>2 DEF Pending, SitesPending, Completed
<1> QED
  BY <1>3, <1>4, <1>5, <1>6, <1>7, <1>8, <1>9, <1>10, <1>11, <1>12, <1>13, <1>14, <1>15, <1>16,
     <1>17 DEF Next

----------------------------------------------------------------------------
(* Theorems *)

LEMMA CompleteInductive == Spec => [](IInv /\ CInv)
<1>1. IInv /\ CInv /\ [Next]_vars => (IInv /\ CInv)'
  BY NextType, NextSweeps, NextSound, NextClean, NextTold, NextJustified,
     NextFrontier, NextCounted, NextComplete DEF IInv, CInv
<1> QED
  BY InitIInv, InitCInv, <1>1, PTL DEF Spec

\* In whatever order run takes the calls of a round or pass, its worklists miss
\* nothing: when the depth bound cuts no path, it ends with exactly the closure.
THEOREM OrderDoesNotMatter == Spec => []OrderIndependent
<1>1. IInv /\ CInv => OrderIndependent
  BY DEF IInv, Justified, Early, CInv, Complete, Exact, Completed, OrderIndependent
<1> QED
  BY CompleteInductive, <1>1, PTL

LEMMA OneSource == IInv /\ CInv => OneSourceExact
<1> SUFFICES ASSUME IInv, CInv, NEW s \in Node, phase = "done", Exact, program.sources = {s}
             PROVE  findings = {p \in {s} \X program.sinks :
                                  p[2] \in Expected({s}) /\ p \in program.kept}
  BY DEF OneSourceExact
<1>1. tainted = Expected({s})
  BY DEF IInv, Justified, Early, CInv, Complete, Exact, Completed
<1>2. s \in tainted
  <2>1. {s} \in SUBSET Node
    OBVIOUS
  <2>2. Local \in SUBSET Node /\ s \in Local
    BY <2>1, ReachBase DEF Local
  <2>3. Local \subseteq Expected({s})
    BY <2>2, ReachBase DEF Expected, Local
  <2> QED
    BY <1>1, <2>2, <2>3
<1>3. findings = Reported
  BY <1>2 DEF IInv, Told
\* What one source reaches is closed, so all that is tainted is in it.
<1>4. tainted \subseteq Reach({s}, Edges \cup extra)
  <2> DEFINE X == Reach({s}, Edges \cup extra)
  <2>1. {s} \in SUBSET Node
    OBVIOUS
  <2>2. X \in SUBSET Node /\ program.sources \subseteq X
    BY <2>1, ReachBase
  <2>3. Closed(X, Edges \cup extra)
    BY <2>1, ReachStep DEF Closed
  <2> HIDE DEF X
  <2>4. tainted \subseteq X
    BY <2>2, <2>3 DEF IInv, Sound, InEveryClosedSet, Exact
  <2> QED
    BY <2>4 DEF X
<1>5. \A k \in program.sinks : k \in tainted => ReachesWithPropagators(s, k)
  BY <1>4 DEF ReachesWithPropagators
<1> QED
  BY <1>1, <1>3, <1>5 DEF Reported

\* With one source, run reports exactly the sinks that flows, summaries and other
\* files connect to it, as far as the function and the guards allow.
THEOREM OneSourceIsExact == Spec => []OneSourceExact
BY CompleteInductive, OneSource, PTL

=============================================================================
