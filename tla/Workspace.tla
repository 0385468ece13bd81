----------------------------- MODULE Workspace -----------------------------
(***************************************************************************)
(* The scanning workspace of web-ql (web-ql/src/workspace.rs): the file    *)
(* index, the function summaries merged over all files, the cross-file     *)
(* call edges resolved between them, and the findings cache that           *)
(* scan_incremental keeps per file.                                        *)
(*                                                                         *)
(* A CPG is abstracted to what the workspace reads of it: its function     *)
(* summaries, the names it registers its methods under, the calls that     *)
(* leave the file, and the names it calls.  The findings of a file are     *)
(* abstracted to the inputs they are computed from (Evaluation): two       *)
(* evaluations with the same inputs give the same findings.                *)
(***************************************************************************)
EXTENDS Naturals

CONSTANTS
  File,              \* paths
  Name,              \* function names and the keys methods register under
  CallSite,          \* node ids of call nodes
  Params,            \* lists of parameter node ids
  Summary,           \* FunctionSummary values
  Cpg,               \* the CPGs a path may be given
  Hash, ContentHash, \* ContentHash[c]: the content hash upserted with CPG c
  RuleSet,           \* the rule sets scans are asked for
  Sig, RuleSig,      \* RuleSig[r]: rule_set_signature of rule set r
  Position,          \* positions of files in a HashMap's iteration order
  None               \* Rust's Option::None, and "no entry" in a map

\* A method's registration under one key.  `strong` is the overwrite flag that
\* fully qualified names carry.
Def == [strong : BOOLEAN, params : Params]

\* CrossFileCallEdge: qualified_callee is optional.
CallEdge == [call : CallSite, qualified : Name \cup {None}, callee : Name]

\* BTreeMaps make the order within one file deterministic, so of several
\* methods of one file under one key (or summaries under one name) the same
\* one always wins: a CPG has at most one entry for each.
CpgShape == [summaries : [Name -> Summary \cup {None}],
             defs      : [Name -> Def \cup {None}],
             calls     : SUBSET CallEdge,
             called    : SUBSET Name]

ASSUME CpgAssumption == Cpg \subseteq CpgShape
ASSUME HashAssumption == ContentHash \in [Cpg -> Hash]
ASSUME SigAssumption == RuleSig \in [RuleSet -> Sig]
ASSUME NoneAssumption ==
  /\ None \notin File /\ None \notin Name /\ None \notin Summary
  /\ None \notin Cpg  /\ None \notin Def  /\ None \notin Sig
  /\ None \notin [cpg   : Cpg,
                  sums  : SUBSET (Name \X Summary),
                  flows : SUBSET (CallSite \X Params \X Cpg),
                  rules : RuleSet]
ASSUME PositionAssumption == Position \subseteq Nat

VARIABLES
  files,          \* path -> CPG of the indexed version (FileIndex)
  summaries,      \* name -> merged function summary
  summarySource,  \* name -> the file that contributed it
  calleeParams,   \* cross_file_callee_params, one record per vector element
  crossDfgs,      \* cross_file_dfgs: path -> the shared (DfgIndex, Cpg)
  dirty,          \* dirty_files
  cache,          \* findings_cache
  cacheSig        \* findings_cache_rule_set_sig

vars == <<files, summaries, summarySource, calleeParams, crossDfgs, dirty,
          cache, cacheSig>>

Indexed == {f \in File : files[f] # None}

CalleeParam == [caller : File, call : CallSite, callee : File, params : Params]

Evaluation == [cpg   : Cpg,
               sums  : SUBSET (Name \X Summary),
               flows : SUBSET (CallSite \X Params \X Cpg),
               rules : RuleSet]

TypeOK ==
  /\ files \in [File -> Cpg \cup {None}]
  /\ summaries \in [Name -> Summary \cup {None}]
  /\ summarySource \in [Name -> File \cup {None}]
  /\ calleeParams \in SUBSET CalleeParam
  /\ crossDfgs \in [File -> Cpg \cup {None}]
  /\ dirty \in SUBSET File
  /\ cache \in [File -> Evaluation \cup {None}]
  /\ cacheSig \in Sig \cup {None}

Init ==
  /\ files = [f \in File |-> None]
  /\ summaries = [n \in Name |-> None]
  /\ summarySource = [n \in Name |-> None]
  /\ calleeParams = {}
  /\ crossDfgs = [f \in File |-> None]
  /\ dirty = {}
  /\ cache = [f \in File |-> None]
  /\ cacheSig = None

----------------------------------------------------------------------------
(* Indexing *)

\* Variant: nothing is evicted.
EvictNothing(m, f) == m

\* evict_summaries_for_file: m without the names that file f contributed.
Evict(m, f) == [n \in Name |-> IF summarySource[n] = f THEN None ELSE m[n]]

\* The summaries of c laid over m: an insert under a name replaces whatever
\* any file contributed under it before.
MergeSummaries(m, c) ==
  [n \in Name |-> IF c.summaries[n] # None THEN c.summaries[n] ELSE m[n]]

MergeSources(m, c, f) ==
  [n \in Name |-> IF c.summaries[n] # None THEN f ELSE m[n]]

\* upsert_file returns false, and changes nothing, when the hash is the same.
Unchanged(f, c) ==
  /\ files[f] # None
  /\ ContentHash[files[f]] = ContentHash[c]

\* Variant: the cached findings of the file survive its change.
UpsertKeepsFindings(f, c) ==
  /\ ~Unchanged(f, c)
  /\ summaries' = MergeSummaries(Evict(summaries, f), c)
  /\ summarySource' = MergeSources(Evict(summarySource, f), c, f)
  /\ calleeParams' = {}
  /\ crossDfgs' = [g \in File |-> None]
  /\ files' = [files EXCEPT ![f] = c]
  /\ dirty' = dirty \cup {f}
  /\ UNCHANGED <<cache, cacheSig>>

UpsertFile(f, c) ==
  /\ ~Unchanged(f, c)
  /\ summaries' = MergeSummaries(Evict(summaries, f), c)
  /\ summarySource' = MergeSources(Evict(summarySource, f), c, f)
  /\ calleeParams' = {}
  /\ crossDfgs' = [g \in File |-> None]
  /\ cache' = [cache EXCEPT ![f] = None]
  /\ files' = [files EXCEPT ![f] = c]
  /\ dirty' = dirty \cup {f}
  /\ UNCHANGED cacheSig

\* Variant: the edges other files have into the removed one are kept.
RemoveKeepsEdges(f) ==
  /\ files' = [files EXCEPT ![f] = None]
  /\ crossDfgs' = [crossDfgs EXCEPT ![f] = None]
  /\ summaries' = Evict(summaries, f)
  /\ summarySource' = Evict(summarySource, f)
  /\ cache' = [cache EXCEPT ![f] = None]
  /\ dirty' = dirty \cup (Indexed \ {f})
  /\ UNCHANGED <<calleeParams, cacheSig>>

\* Variant: the findings of the removed file stay cached.
RemoveKeepsFindings(f) ==
  /\ files' = [files EXCEPT ![f] = None]
  /\ crossDfgs' = [crossDfgs EXCEPT ![f] = None]
  /\ calleeParams' = {}
  /\ summaries' = Evict(summaries, f)
  /\ summarySource' = Evict(summarySource, f)
  /\ dirty' = dirty \cup (Indexed \ {f})
  /\ UNCHANGED <<cache, cacheSig>>

\* remove_file may be called for a path that is not indexed.
RemoveFile(f) ==
  /\ files' = [files EXCEPT ![f] = None]
  /\ crossDfgs' = [crossDfgs EXCEPT ![f] = None]
  /\ calleeParams' = {}
  /\ summaries' = Evict(summaries, f)
  /\ summarySource' = Evict(summarySource, f)
  /\ cache' = [cache EXCEPT ![f] = None]
  /\ dirty' = dirty \cup (Indexed \ {f})
  /\ UNCHANGED cacheSig

----------------------------------------------------------------------------
(* Cross-file edges *)

\* The order in which one build happens to iterate the files HashMap.
FileOrders == {o \in [File -> Position] :
                 \A f, g \in File : o[f] = o[g] => f = g}

Registering(k) == {f \in Indexed : files[f].defs[k] # None}
Overwriting(k) == {f \in Registering(k) : files[f].defs[k].strong}

\* Variant: no precedence for fully qualified names.
FirstWins(f, k, o) ==
  f \in Registering(k) /\ \A g \in Registering(k) : o[f] <= o[g]

\* File f's method is the one fn_to_params holds under key k after the merge in
\* order o: the last overwriting registration, or else the first one.
Wins(f, k, o) ==
  \/ /\ f \in Overwriting(k)
     /\ \A g \in Overwriting(k) : o[g] <= o[f]
  \/ /\ f \in Registering(k)
     /\ Overwriting(k) = {}
     /\ \A g \in Registering(k) : o[f] <= o[g]

\* The key an edge is resolved by: the qualified name if some file registers
\* it, else the simple one (which no file may register: then no edge).
ResolvedKey(e) ==
  IF e.qualified # None /\ Registering(e.qualified) # {} THEN e.qualified
                                                         ELSE e.callee

CallsFrom == UNION {{f} \X files[f].calls : f \in Indexed}

ResolvedCalls(o) ==
  {[caller |-> x[1][1],
    call   |-> x[1][2].call,
    callee |-> x[2],
    params |-> files[x[2]].defs[ResolvedKey(x[1][2])].params] :
     x \in {y \in CallsFrom \X Indexed : Wins(y[2], ResolvedKey(y[1][2]), o)}}

BuildCrossFileEdges ==
  \E o \in FileOrders :
    /\ calleeParams' = ResolvedCalls(o)
    /\ crossDfgs' =
         [f \in File |-> IF \E t \in ResolvedCalls(o) : t.callee = f
                         THEN files[f] ELSE None]
    /\ UNCHANGED <<files, summaries, summarySource, dirty, cache, cacheSig>>

----------------------------------------------------------------------------
(* Scanning *)

\* What evaluating the rules on file f depends on: the file's own index, the
\* merged summaries of the names it calls (expand_call_with_summary), and for
\* each of its resolved calls the callee's DFG and CPG (expand_cross_file).
Evaluate(f, r) ==
  [cpg   |-> files[f],
   sums  |-> {<<n, summaries[n]>> :
                n \in {m \in files[f].called : summaries[m] # None}},
   flows |-> {<<t.call, t.params, crossDfgs[t.callee]>> :
                t \in {u \in calleeParams :
                         u.caller = f /\ crossDfgs[u.callee] # None}},
   rules |-> r]

\* scan: every indexed file is evaluated and nothing is remembered.
Scan(r) == [f \in File |-> IF f \in Indexed THEN Evaluate(f, r) ELSE None]

ScanIncremental(r) ==
  LET newRules == cacheSig # RuleSig[r]
      stale    == IF newRules THEN dirty \cup Indexed ELSE dirty
      cached   == IF newRules THEN [f \in File |-> None] ELSE cache
  IN
  /\ cache' = [f \in File |-> IF f \notin Indexed THEN cached[f]
                              ELSE IF f \notin stale /\ cached[f] # None
                                     THEN cached[f]
                                     ELSE Evaluate(f, r)]
  /\ cacheSig' = RuleSig[r]
  /\ dirty' = {}
  /\ UNCHANGED <<files, summaries, summarySource, calleeParams, crossDfgs>>

Next ==
  \/ \E f \in File, c \in Cpg : UpsertFile(f, c)
  \/ \E f \in File : RemoveFile(f)
  \/ BuildCrossFileEdges
  \/ \E r \in RuleSet : ScanIncremental(r)

Spec == Init /\ [][Next]_vars

----------------------------------------------------------------------------
(* Properties *)

\* Every merged summary is the one its recorded contributor's current version
\* has under that name, and the contributor is indexed: neither upsert_file nor
\* remove_file leaves a summary of a replaced or removed version behind.
SummariesCurrent ==
  \A n \in Name :
    /\ summaries[n] = None <=> summarySource[n] = None
    /\ summarySource[n] # None =>
         /\ summarySource[n] \in Indexed
         /\ summaries[n] = files[summarySource[n]].summaries[n]

\* A cross-file edge, and the DFG/CPG snapshot it leads to, always belong to the
\* current versions of an indexed caller and an indexed callee, whatever has
\* been replaced or removed since build_cross_file_edges last ran.
EdgesCurrent ==
  /\ \A f \in File : crossDfgs[f] # None => crossDfgs[f] = files[f]
  /\ \A t \in calleeParams :
       /\ t.caller \in Indexed
       /\ \E e \in files[t.caller].calls : e.call = t.call
       /\ crossDfgs[t.callee] # None
       /\ \E n \in Name : /\ files[t.callee].defs[n] # None
                          /\ files[t.callee].defs[n].params = t.params

\* A call is never resolved to a file that only registers its key without the
\* overwrite flag while another file registers the key as a fully qualified
\* name, whatever order the files are merged in.
QualifiedNameWins ==
  \A t \in calleeParams :
    \E e \in files[t.caller].calls :
      /\ e.call = t.call
      /\ t.callee \in Registering(ResolvedKey(e))
      /\ Overwriting(ResolvedKey(e)) # {} =>
           t.callee \in Overwriting(ResolvedKey(e))

\* Every indexed file that the next incremental scan would not re-evaluate has
\* cached findings, and no cached findings describe an earlier content of the
\* file or a file that is gone.
CleanFilesCached ==
  /\ \A f \in Indexed : f \notin dirty => cache[f] # None
  /\ \A f \in File : cache[f] # None =>
       f \in Indexed /\ cache[f].cpg = files[f]

\* The findings cache seen as the results of ScanContract.
Reported ==
  [f \in File |-> IF cache[f] = None THEN None
                  ELSE [cpg |-> cache[f].cpg, sig |-> RuleSig[cache[f].rules]]]

Contract == INSTANCE ScanContract WITH
  content <- files, results <- Reported

\* scan_incremental keeps the promise of ScanContract: although it re-evaluates
\* only dirty files, what it returns is about the current content of every file
\* and the requested rule-set signature.
ImplementsContract == Contract!Spec
=============================================================================
