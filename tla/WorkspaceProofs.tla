--------------------------- MODULE WorkspaceProofs ---------------------------
(***************************************************************************)
(* Proofs about Workspace for any paths, CPGs, rule sets and HashMap       *)
(* iteration orders.                                                       *)
(***************************************************************************)
EXTENDS Workspace, TLAPS

\* An evaluation of an indexed file is an Evaluation, hence never None.
LEMMA EvaluateType ==
  ASSUME TypeOK, NEW f \in Indexed, NEW r \in RuleSet
  PROVE  Evaluate(f, r) \in Evaluation /\ Evaluate(f, r) # None
<1>1. files[f] \in Cpg /\ files[f].called \in SUBSET Name
  BY CpgAssumption DEF TypeOK, Indexed, CpgShape
<1>2. {<<n, summaries[n]>> : n \in {m \in files[f].called : summaries[m] # None}}
        \in SUBSET (Name \X Summary)
  BY <1>1 DEF TypeOK
<1>3. {<<t.call, t.params, crossDfgs[t.callee]>> :
         t \in {u \in calleeParams : u.caller = f /\ crossDfgs[u.callee] # None}}
        \in SUBSET (CallSite \X Params \X Cpg)
  <2> SUFFICES ASSUME NEW t \in calleeParams, crossDfgs[t.callee] # None
               PROVE  <<t.call, t.params, crossDfgs[t.callee]>>
                        \in CallSite \X Params \X Cpg
    OBVIOUS
  <2>1. t.call \in CallSite /\ t.params \in Params /\ t.callee \in File
    BY DEF TypeOK, CalleeParam
  <2> QED BY <2>1 DEF TypeOK
<1>4. Evaluate(f, r) \in Evaluation
  BY <1>1, <1>2, <1>3 DEF Evaluate, Evaluation
<1> QED BY <1>4, NoneAssumption DEF Evaluation

\* Evicting a file's summaries, and merging those of a CPG, keep the types.
LEMMA EvictType ==
  ASSUME TypeOK, NEW f \in File
  PROVE  /\ Evict(summaries, f) \in [Name -> Summary \cup {None}]
         /\ Evict(summarySource, f) \in [Name -> File \cup {None}]
BY DEF TypeOK, Evict

LEMMA MergeType ==
  ASSUME TypeOK, NEW f \in File, NEW c \in Cpg
  PROVE  /\ MergeSummaries(Evict(summaries, f), c) \in [Name -> Summary \cup {None}]
         /\ MergeSources(Evict(summarySource, f), c, f) \in [Name -> File \cup {None}]
<1>1. c.summaries \in [Name -> Summary \cup {None}]
  BY CpgAssumption DEF CpgShape
<1> QED BY <1>1, EvictType DEF MergeSummaries, MergeSources

\* Where an edge that some file's method can win leads: the key is a name, and
\* the winner registers it, with the overwrite flag if any file does.
LEMMA WinnerRegisters ==
  ASSUME TypeOK, NEW f \in Indexed, NEW e \in files[f].calls,
         NEW o \in FileOrders, NEW g \in Indexed,
         Wins(g, ResolvedKey(e), o)
  PROVE  /\ e \in CallEdge
         /\ ResolvedKey(e) \in Name
         /\ g \in Registering(ResolvedKey(e))
         /\ Overwriting(ResolvedKey(e)) # {} => g \in Overwriting(ResolvedKey(e))
         /\ files[g].defs[ResolvedKey(e)].params \in Params
<1>1. e \in CallEdge
  BY CpgAssumption DEF TypeOK, Indexed, CpgShape
<1>2. ResolvedKey(e) \in Name
  BY <1>1 DEF ResolvedKey, CallEdge
<1>3. /\ g \in Registering(ResolvedKey(e))
      /\ Overwriting(ResolvedKey(e)) # {} => g \in Overwriting(ResolvedKey(e))
  BY DEF Wins, Overwriting
<1>4. files[g].defs \in [Name -> Def \cup {None}]
  BY CpgAssumption DEF TypeOK, Indexed, CpgShape
<1>5. files[g].defs[ResolvedKey(e)] \in Def
  BY <1>2, <1>3, <1>4 DEF Registering
<1> QED BY <1>1, <1>2, <1>3, <1>5 DEF Def

\* Every edge a build resolves comes from a call of an indexed file to an
\* indexed file that may win the call's key.
LEMMA ResolvedCall ==
  ASSUME NEW o \in FileOrders, NEW t \in ResolvedCalls(o)
  PROVE  \E f \in Indexed, g \in Indexed : \E e \in files[f].calls :
           /\ Wins(g, ResolvedKey(e), o)
           /\ t = [caller |-> f, call |-> e.call, callee |-> g,
                   params |-> files[g].defs[ResolvedKey(e)].params]
<1>1. PICK y \in CallsFrom \X Indexed :
        /\ Wins(y[2], ResolvedKey(y[1][2]), o)
        /\ t = [caller |-> y[1][1], call |-> y[1][2].call, callee |-> y[2],
                params |-> files[y[2]].defs[ResolvedKey(y[1][2])].params]
  BY DEF ResolvedCalls
<1>2. PICK f \in Indexed : y[1] \in {f} \X files[f].calls
  BY <1>1 DEF CallsFrom
<1>3. y[1][1] = f /\ y[1][2] \in files[f].calls /\ y[2] \in Indexed
  BY <1>1, <1>2
<1> QED BY <1>1, <1>3

\* Each variable always has its type.
THEOREM TypeCorrect == Spec => []TypeOK
<1>1. Init => TypeOK
  BY DEF Init, TypeOK
<1>2. TypeOK /\ [Next]_vars => TypeOK'
  <2> SUFFICES ASSUME TypeOK, [Next]_vars PROVE TypeOK'
    OBVIOUS
  <2>1. ASSUME NEW f \in File, NEW c \in Cpg, UpsertFile(f, c)
        PROVE  TypeOK'
    BY <2>1, MergeType DEF UpsertFile, TypeOK
  <2>2. ASSUME NEW f \in File, RemoveFile(f)
        PROVE  TypeOK'
    BY <2>2, EvictType DEF RemoveFile, TypeOK, Indexed
  <2>3. CASE BuildCrossFileEdges
    <3>1. PICK o \in FileOrders :
            /\ calleeParams' = ResolvedCalls(o)
            /\ crossDfgs' = [f \in File |->
                  IF \E t \in ResolvedCalls(o) : t.callee = f
                  THEN files[f] ELSE None]
      BY <2>3 DEF BuildCrossFileEdges
    <3>2. ResolvedCalls(o) \subseteq CalleeParam
      <4> SUFFICES ASSUME NEW t \in ResolvedCalls(o) PROVE t \in CalleeParam
        OBVIOUS
      <4>1. PICK f \in Indexed, g \in Indexed : \E e \in files[f].calls :
              /\ Wins(g, ResolvedKey(e), o)
              /\ t = [caller |-> f, call |-> e.call, callee |-> g,
                      params |-> files[g].defs[ResolvedKey(e)].params]
        BY ResolvedCall
      <4>2. PICK e \in files[f].calls :
              /\ Wins(g, ResolvedKey(e), o)
              /\ t = [caller |-> f, call |-> e.call, callee |-> g,
                      params |-> files[g].defs[ResolvedKey(e)].params]
        BY <4>1
      <4>3. e.call \in CallSite /\ files[g].defs[ResolvedKey(e)].params \in Params
        BY <4>2, WinnerRegisters DEF CallEdge
      <4> QED BY <4>2, <4>3 DEF CalleeParam, Indexed
    <3> QED BY <2>3, <3>1, <3>2 DEF BuildCrossFileEdges, TypeOK
  <2>4. ASSUME NEW r \in RuleSet, ScanIncremental(r)
        PROVE  TypeOK'
    <3>1. cache' \in [File -> Evaluation \cup {None}]
      BY <2>4, EvaluateType DEF ScanIncremental, TypeOK
    <3> QED BY <2>4, <3>1, SigAssumption DEF ScanIncremental, TypeOK
  <2>5. CASE UNCHANGED vars
    BY <2>5 DEF vars, TypeOK
  <2> QED BY <2>1, <2>2, <2>3, <2>4, <2>5 DEF Next
<1> QED BY <1>1, <1>2, PTL DEF Spec

----------------------------------------------------------------------------

\* No summary of a replaced or removed version of a file stays merged: evicting
\* by contributor before the merge is enough, because every name a file still
\* owns is one its current version defines.
THEOREM SummariesStayCurrent == Spec => []SummariesCurrent
<1>1. Init => SummariesCurrent
  BY DEF Init, SummariesCurrent
<1>2. TypeOK /\ SummariesCurrent /\ [Next]_vars => SummariesCurrent'
  <2> SUFFICES ASSUME TypeOK, SummariesCurrent, [Next]_vars
               PROVE  SummariesCurrent'
    OBVIOUS
  <2>1. ASSUME NEW f \in File, NEW c \in Cpg, UpsertFile(f, c)
        PROVE  SummariesCurrent'
    <3> SUFFICES ASSUME NEW n \in Name
                 PROVE  /\ summaries'[n] = None <=> summarySource'[n] = None
                        /\ summarySource'[n] # None =>
                             /\ summarySource'[n] \in Indexed'
                             /\ summaries'[n] = files'[summarySource'[n]].summaries[n]
      BY DEF SummariesCurrent
    <3>1. /\ files' = [files EXCEPT ![f] = c]
          /\ f \in Indexed' /\ files'[f] = c /\ Indexed \subseteq Indexed'
      BY <2>1, NoneAssumption DEF UpsertFile, TypeOK, Indexed
    <3>2. CASE c.summaries[n] # None
      <4>1. summaries'[n] = c.summaries[n] /\ summarySource'[n] = f
        BY <2>1, <3>2 DEF UpsertFile, MergeSummaries, MergeSources
      <4> QED BY <3>1, <3>2, <4>1, NoneAssumption
    <3>3. CASE c.summaries[n] = None /\ summarySource[n] = f
      <4>1. summaries'[n] = None /\ summarySource'[n] = None
        BY <2>1, <3>3 DEF UpsertFile, MergeSummaries, MergeSources, Evict
      <4> QED BY <4>1
    <3>4. CASE c.summaries[n] = None /\ summarySource[n] # f
      <4>1. summaries'[n] = summaries[n] /\ summarySource'[n] = summarySource[n]
        BY <2>1, <3>4 DEF UpsertFile, MergeSummaries, MergeSources, Evict
      <4>2. summarySource[n] # None => files'[summarySource[n]] = files[summarySource[n]]
        BY <3>1, <3>4 DEF TypeOK
      <4> QED BY <3>1, <4>1, <4>2 DEF SummariesCurrent
    <3> QED BY <3>2, <3>3, <3>4
  <2>2. ASSUME NEW f \in File, RemoveFile(f)
        PROVE  SummariesCurrent'
    <3> SUFFICES ASSUME NEW n \in Name
                 PROVE  /\ summaries'[n] = None <=> summarySource'[n] = None
                        /\ summarySource'[n] # None =>
                             /\ summarySource'[n] \in Indexed'
                             /\ summaries'[n] = files'[summarySource'[n]].summaries[n]
      BY DEF SummariesCurrent
    <3>1. /\ summaries'[n] = IF summarySource[n] = f THEN None ELSE summaries[n]
          /\ summarySource'[n] = IF summarySource[n] = f THEN None ELSE summarySource[n]
      BY <2>2 DEF RemoveFile, Evict
    <3>2. \A g \in File : g # f => files'[g] = files[g]
      BY <2>2 DEF RemoveFile, TypeOK
    <3> QED BY <3>1, <3>2 DEF SummariesCurrent, TypeOK, Indexed
  <2>3. CASE UNCHANGED <<files, summaries, summarySource>>
    BY <2>3 DEF SummariesCurrent, Indexed
  <2> QED
    BY <2>1, <2>2, <2>3 DEF Next, BuildCrossFileEdges, ScanIncremental, vars
<1> QED BY <1>1, <1>2, TypeCorrect, PTL DEF Spec

\* Cross-file edges and snapshots never outlive the versions they were built
\* from, and an overwriting registration of a key always beats the others,
\* for every order in which the files may be merged.
EdgeInv == EdgesCurrent /\ QualifiedNameWins

THEOREM EdgesStayCurrent == Spec => [](EdgesCurrent /\ QualifiedNameWins)
<1>1. Init => EdgeInv
  BY DEF Init, EdgeInv, EdgesCurrent, QualifiedNameWins
<1>2. TypeOK /\ EdgeInv /\ [Next]_vars => EdgeInv'
  <2> SUFFICES ASSUME TypeOK, EdgeInv, [Next]_vars PROVE EdgeInv'
    OBVIOUS
  <2>1. ASSUME NEW f \in File, NEW c \in Cpg, UpsertFile(f, c)
        PROVE  EdgeInv'
    BY <2>1 DEF UpsertFile, EdgeInv, EdgesCurrent, QualifiedNameWins
  <2>2. ASSUME NEW f \in File, RemoveFile(f)
        PROVE  EdgeInv'
    <3>1. calleeParams' = {}
      BY <2>2 DEF RemoveFile
    <3>2. \A g \in File : crossDfgs'[g] # None => crossDfgs'[g] = files'[g]
      BY <2>2 DEF RemoveFile, TypeOK, EdgeInv, EdgesCurrent
    <3> QED BY <3>1, <3>2 DEF EdgeInv, EdgesCurrent, QualifiedNameWins
  <2>3. CASE BuildCrossFileEdges
    <3>1. PICK o \in FileOrders :
            /\ calleeParams' = ResolvedCalls(o)
            /\ crossDfgs' = [f \in File |->
                  IF \E t \in ResolvedCalls(o) : t.callee = f
                  THEN files[f] ELSE None]
            /\ UNCHANGED files
      BY <2>3 DEF BuildCrossFileEdges
    <3>2. \A f \in File : crossDfgs'[f] # None => crossDfgs'[f] = files'[f]
      BY <3>1
    <3>3. ASSUME NEW t \in calleeParams'
          PROVE  \E e \in files'[t.caller].calls :
                   /\ e.call = t.call
                   /\ t.caller \in Indexed'
                   /\ crossDfgs'[t.callee] # None
                   /\ \E n \in Name : /\ files'[t.callee].defs[n] # None
                                      /\ files'[t.callee].defs[n].params = t.params
                   /\ t.callee \in Registering(ResolvedKey(e))'
                   /\ Overwriting(ResolvedKey(e))' # {} =>
                        t.callee \in Overwriting(ResolvedKey(e))'
      <4>1. t \in ResolvedCalls(o)
        BY <3>1, <3>3
      <4>2. PICK f \in Indexed, g \in Indexed : \E e \in files[f].calls :
              /\ Wins(g, ResolvedKey(e), o)
              /\ t = [caller |-> f, call |-> e.call, callee |-> g,
                      params |-> files[g].defs[ResolvedKey(e)].params]
        BY <4>1, ResolvedCall
      <4>3. PICK e \in files[f].calls :
              /\ Wins(g, ResolvedKey(e), o)
              /\ t = [caller |-> f, call |-> e.call, callee |-> g,
                      params |-> files[g].defs[ResolvedKey(e)].params]
        BY <4>2
      <4>4. /\ ResolvedKey(e) \in Name
            /\ g \in Registering(ResolvedKey(e))
            /\ Overwriting(ResolvedKey(e)) # {} => g \in Overwriting(ResolvedKey(e))
        BY <4>3, WinnerRegisters
      <4>5. /\ Indexed' = Indexed
            /\ Registering(ResolvedKey(e))' = Registering(ResolvedKey(e))
            /\ Overwriting(ResolvedKey(e))' = Overwriting(ResolvedKey(e))
        BY <3>1 DEF Indexed, Registering, Overwriting, ResolvedKey
      <4>6. t.caller = f /\ t.callee = g /\ t.call = e.call
            /\ t.params = files[g].defs[ResolvedKey(e)].params
        BY <4>3
      <4>7. crossDfgs'[g] # None
        BY <3>1, <4>1, <4>6 DEF Indexed
      <4>8. files'[g].defs[ResolvedKey(e)] # None
        BY <3>1, <4>4 DEF Registering
      <4> QED BY <3>1, <4>4, <4>5, <4>6, <4>7, <4>8
    <3>4. EdgesCurrent'
      BY <3>2, <3>3 DEF EdgesCurrent
    <3>5. QualifiedNameWins'
      BY <3>3 DEF QualifiedNameWins
    <3> QED BY <3>4, <3>5 DEF EdgeInv
  <2>4. CASE UNCHANGED <<files, calleeParams, crossDfgs>>
    <3>1. Indexed' = Indexed
      BY <2>4 DEF Indexed
    <3>2. EdgesCurrent'
      BY <2>4, <3>1 DEF EdgeInv, EdgesCurrent
    <3>3. ASSUME NEW t \in calleeParams'
          PROVE  \E e \in files'[t.caller].calls :
                   /\ e.call = t.call
                   /\ t.callee \in Registering(ResolvedKey(e))'
                   /\ Overwriting(ResolvedKey(e))' # {} =>
                        t.callee \in Overwriting(ResolvedKey(e))'
      <4>1. PICK e \in files[t.caller].calls :
              /\ e.call = t.call
              /\ t.callee \in Registering(ResolvedKey(e))
              /\ Overwriting(ResolvedKey(e)) # {} =>
                   t.callee \in Overwriting(ResolvedKey(e))
        BY <2>4, <3>3 DEF EdgeInv, QualifiedNameWins
      <4>2. /\ Registering(ResolvedKey(e))' = Registering(ResolvedKey(e))
            /\ Overwriting(ResolvedKey(e))' = Overwriting(ResolvedKey(e))
        BY <2>4, <3>1 DEF Registering, Overwriting, ResolvedKey
      <4> QED BY <2>4, <4>1, <4>2
    <3> QED BY <3>2, <3>3 DEF EdgeInv, QualifiedNameWins
  <2> QED BY <2>1, <2>2, <2>3, <2>4 DEF Next, ScanIncremental, vars
<1> QED BY <1>1, <1>2, TypeCorrect, PTL DEF Spec, EdgeInv

\* A call is never resolved to a file that registers its key plainly while another file
\* registers it as a fully qualified name.
THEOREM QualifiedNamesWin == Spec => []QualifiedNameWins
BY EdgesStayCurrent, PTL

----------------------------------------------------------------------------

\* All cached findings were computed under rule sets of the one signature that
\* the cache is recorded for.
CacheHasOneSig ==
  \A f \in File : cache[f] # None => RuleSig[cache[f].rules] = cacheSig

CacheInv == CleanFilesCached /\ CacheHasOneSig

LEMMA CacheInvInit == Init => CacheInv
BY NoneAssumption DEF Init, CacheInv, CleanFilesCached, CacheHasOneSig, Indexed

\* A scan leaves every indexed file cached, about its current content and under
\* the signature it was asked for: reusing an entry is only possible for a clean
\* file and only when the signature has not changed.
LEMMA ScanResults ==
  ASSUME TypeOK, CacheInv, NEW r \in RuleSet, ScanIncremental(r)
  PROVE  \A f \in File :
           /\ f \in Indexed => /\ cache'[f] # None
                               /\ cache'[f].cpg = files[f]
                               /\ RuleSig[cache'[f].rules] = RuleSig[r]
           /\ f \notin Indexed => cache'[f] = None
<1> SUFFICES ASSUME NEW f \in File
             PROVE  /\ f \in Indexed => /\ cache'[f] # None
                                        /\ cache'[f].cpg = files[f]
                                        /\ RuleSig[cache'[f].rules] = RuleSig[r]
                    /\ f \notin Indexed => cache'[f] = None
  OBVIOUS
<1>1. f \in Indexed => /\ Evaluate(f, r) # None
                       /\ Evaluate(f, r).cpg = files[f]
                       /\ Evaluate(f, r).rules = r
  BY EvaluateType DEF Evaluate
<1>2. CASE cacheSig # RuleSig[r]
  <2>1. cache'[f] = IF f \in Indexed THEN Evaluate(f, r) ELSE None
    BY <1>2 DEF ScanIncremental
  <2> QED BY <1>1, <2>1
<1>3. CASE cacheSig = RuleSig[r]
  <2>1. cache'[f] = IF f \notin Indexed THEN cache[f]
                    ELSE IF f \notin dirty /\ cache[f] # None THEN cache[f]
                                                              ELSE Evaluate(f, r)
    BY <1>3 DEF ScanIncremental
  <2>2. cache[f] # None => /\ f \in Indexed
                           /\ cache[f].cpg = files[f]
                           /\ RuleSig[cache[f].rules] = RuleSig[r]
    BY <1>3 DEF CacheInv, CleanFilesCached, CacheHasOneSig
  <2> QED BY <1>1, <2>1, <2>2
<1> QED BY <1>2, <1>3

LEMMA CacheInvNext == TypeOK /\ CacheInv /\ [Next]_vars => CacheInv'
<1> SUFFICES ASSUME TypeOK, CacheInv, [Next]_vars PROVE CacheInv'
  OBVIOUS
<1>1. ASSUME NEW f \in File, NEW c \in Cpg, UpsertFile(f, c)
      PROVE  CacheInv'
  <2>1. \A g \in File : /\ cache'[g] = IF g = f THEN None ELSE cache[g]
                        /\ files'[g] = IF g = f THEN c ELSE files[g]
    BY <1>1 DEF UpsertFile, TypeOK
  <2>2. dirty' = dirty \cup {f} /\ cacheSig' = cacheSig
    BY <1>1 DEF UpsertFile
  <2> QED BY <2>1, <2>2 DEF CacheInv, CleanFilesCached, CacheHasOneSig, Indexed
<1>2. ASSUME NEW f \in File, RemoveFile(f)
      PROVE  CacheInv'
  <2>1. \A g \in File : /\ cache'[g] = IF g = f THEN None ELSE cache[g]
                        /\ files'[g] = IF g = f THEN None ELSE files[g]
    BY <1>2 DEF RemoveFile, TypeOK
  <2>2. dirty' = dirty \cup (Indexed \ {f}) /\ cacheSig' = cacheSig
    BY <1>2 DEF RemoveFile
  <2> QED BY <2>1, <2>2 DEF CacheInv, CleanFilesCached, CacheHasOneSig, Indexed
<1>3. CASE UNCHANGED <<files, dirty, cache, cacheSig>>
  BY <1>3 DEF CacheInv, CleanFilesCached, CacheHasOneSig, Indexed
<1>4. ASSUME NEW r \in RuleSet, ScanIncremental(r)
      PROVE  CacheInv'
  <2>1. Indexed' = Indexed /\ files' = files /\ cacheSig' = RuleSig[r]
    BY <1>4 DEF ScanIncremental, Indexed
  <2>2. \A f \in File :
          /\ f \in Indexed => /\ cache'[f] # None
                              /\ cache'[f].cpg = files[f]
                              /\ RuleSig[cache'[f].rules] = RuleSig[r]
          /\ f \notin Indexed => cache'[f] = None
    BY <1>4, ScanResults
  <2>3. Indexed \subseteq File
    BY DEF Indexed
  <2> QED BY <2>1, <2>2, <2>3 DEF CacheInv, CleanFilesCached, CacheHasOneSig
<1> QED BY <1>1, <1>2, <1>3, <1>4 DEF Next, BuildCrossFileEdges, vars

\* A file that the next incremental scan would skip has findings about its
\* current content, and the whole cache is of one rule-set signature.
THEOREM CacheStaysValid == Spec => [](CleanFilesCached /\ CacheHasOneSig)
<1>1. Spec => []CacheInv
  BY CacheInvInit, CacheInvNext, TypeCorrect, PTL DEF Spec
<1> QED BY <1>1, PTL DEF CacheInv

\* scan_incremental implements ScanContract: each step of the workspace is a
\* step of the contract or leaves its variables alone.
THEOREM RefinesContract == Spec => ImplementsContract
<1>1. Init => Contract!Init
  BY DEF Init, Contract!Init, Reported
<1>2. TypeOK /\ CacheInv /\ [Next]_vars => [Contract!Next]_(Contract!vars)
  <2> SUFFICES ASSUME TypeOK, CacheInv, [Next]_vars
               PROVE  Contract!Next \/ UNCHANGED <<files, Reported>>
    BY DEF Contract!vars
  <2>1. ASSUME NEW f \in File, NEW c \in Cpg \cup {None},
               files' = [files EXCEPT ![f] = c],
               cache' = [cache EXCEPT ![f] = None]
        PROVE  Contract!Change(f, c)
    <3>1. Reported' = [Reported EXCEPT ![f] = None]
      BY <2>1 DEF Reported, TypeOK
    <3> QED BY <2>1, <3>1 DEF Contract!Change
  <2>2. ASSUME NEW r \in RuleSet, ScanIncremental(r)
        PROVE  RuleSig[r] \in Sig /\ Contract!Scan(RuleSig[r])
    <3>1. \A f \in File :
            /\ files[f] = None => cache'[f] = None
            /\ files[f] # None => /\ cache'[f] # None
                                  /\ cache'[f].cpg = files[f]
                                  /\ RuleSig[cache'[f].rules] = RuleSig[r]
      BY <2>2, ScanResults DEF Indexed
    <3>2. Reported' = [f \in File |-> IF files[f] = None THEN None
                         ELSE [cpg |-> files[f], sig |-> RuleSig[r]]]
      BY <3>1 DEF Reported
    <3>3. files' = files
      BY <2>2 DEF ScanIncremental
    <3> QED BY <3>2, <3>3, SigAssumption DEF Contract!Scan
  <2>3. CASE UNCHANGED <<files, cache>>
    BY <2>3 DEF Reported
  <2>4. ASSUME NEW f \in File, NEW c \in Cpg, UpsertFile(f, c)
        PROVE  Contract!Next
    BY <2>1, <2>4 DEF UpsertFile, Contract!Next
  <2>5. ASSUME NEW f \in File, RemoveFile(f)
        PROVE  Contract!Next
    BY <2>1, <2>5 DEF RemoveFile, Contract!Next
  <2> QED
    BY <2>2, <2>3, <2>4, <2>5 DEF Next, BuildCrossFileEdges, vars, Contract!Next
<1>3. Spec => []CacheInv
  BY CacheInvInit, CacheInvNext, TypeCorrect, PTL DEF Spec
<1> QED
  BY <1>1, <1>2, <1>3, TypeCorrect, PTL DEF Spec, ImplementsContract, Contract!Spec

=============================================================================
