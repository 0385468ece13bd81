---------------------------- MODULE IncrementalCpg ----------------------------
(***************************************************************************)
(* IncrementalCpgGenerator (web-sitter/src/incremental.rs): the CPG of one *)
(* file, kept across edits, full reparses, lazy generation and a save and  *)
(* reload.  The state is the source, the CPG and what later updates are    *)
(* computed from: the next ids, the deleted ids, the cached call           *)
(* expressions and the functions whose CFG topology has a signature.       *)
(*                                                                         *)
(* A function or method has one basic block, whose control flow is the set *)
(* of its calls after which it does not continue; each of its calls passes *)
(* an argument to a parameter.  No function uses a file-scope variable.    *)
(***************************************************************************)
EXTENDS StableIds

CONSTANTS
  Files,             \* the files a generator can be given
  NewTexts,          \* the sequences of items one edit can put in
  MaxFile,           \* bound: entries of a file
  MaxEdits,          \* bound: edits of a history
  MaxSwallow,        \* bound: entries the text of an edit swallows
  OpenEnded,         \* a function has no closing token (Python)
  CachedFlows,       \* the functions are function_definition nodes (C, C++, Python)
  Persistent,        \* the CPG is saved and loaded
  Lazy,              \* the generator is used through parse_lightweight
  SmallFile,         \* 4: up to here no edit is too large for a targeted update
  CompactThreshold   \* 1000

ASSUME TextAssumption ==
  /\ \A file \in Files : file \in Seq(Item) /\ DistinctNames(file)
  /\ \A text \in NewTexts : text \in Seq(Item)
  /\ MaxSwallow \in Nat

VARIABLES
  source,     \* state.source_code, as the items it parses to
  cpg,        \* state.cpg: None, or [ast, at, blocks, calls, flows, cross]
  nextId,
  deleted,    \* deleted_ids
  nextBB,     \* next_bb_id
  callCache,  \* call_expressions: <<containing function, called name>>
  sigs,       \* cfg_topology_sigs: the functions with a signature
  disk,       \* the file of save_state
  edits       \* edits so far

vars == <<source, cpg, nextId, deleted, nextBB, callCache, sigs, disk, edits>>

Max0(S) == IF S = {} THEN 0 ELSE CHOOSE x \in S : \A y \in S : y <= x
ById(methods) ==
  [k \in 1 .. Cardinality(methods) |->
     CHOOSE m \in methods : Cardinality({x \in methods : x.id <= m.id}) = k]

-----------------------------------------------------------------------------
(* What the builders make of an AST.                                       *)

Noreturn(ast) == {ast[i].item.name : i \in {k \in DOMAIN ast : ast[k].item.kind = "declaration"}}

\* build_cfg_for_functions_with_start: one block for each method of the sequence,
\* numbered from `start`; create_bb overwrites a block that has the number already.
NewBlocks(ast, methods, start) ==
  [b \in start .. start + Len(methods) - 1 |->
     LET m == methods[b - start + 1]
     IN [function |-> m.id, ends |-> m.item.calls \cap Noreturn(ast)]]
NewAt(methods, start) ==
  [i \in {m.id : m \in ToSet(methods)} |->
     start - 1 + CHOOSE k \in DOMAIN methods : methods[k].id = i]

\* build_call_graph_impl over the functions in scope, which are also the only ones
\* whose names a call resolves to.
Resolve(methods, name) ==
  IF \E m \in methods : m.item.name = name
  THEN (CHOOSE m \in methods : m.item.name = name).id ELSE None
CallGraph(methods) ==
  [i \in {m.id : m \in methods} |->
     LET m == CHOOSE x \in methods : x.id = i
     IN [name |-> m.item.name, to |-> [n \in m.item.calls |-> Resolve(methods, n)]]]

\* add_interprocedural_edges over the whole file, and its unresolved calls.
FlowsIn(methods) ==
  {p \in {m.id : m \in methods} \X {m.id : m \in methods} :
     \E m \in methods : m.id = p[1] /\ \E n \in m.item.calls : Resolve(methods, n) = p[2]}
CrossCalls(methods) ==
  {m.id : m \in {x \in methods : \E n \in x.item.calls : Resolve(methods, n) = None}}

\* refresh_incremental_analysis_caches: the calls in the given methods.
CallsIn(methods) == UNION {{m.id} \X m.item.calls : m \in methods}

\* get_node_graph_artifacts with every option on; `raw` has the ids of the fresh tree,
\* `ast` those it is remapped to (apply_cpg_remap), which leaves the cross-file calls.
FullCpg(ast, raw) ==
  LET methods == Methods(ast) IN
  [ast |-> ast,
   at |-> NewAt(FileOrder(ast), 0),
   blocks |-> NewBlocks(ast, FileOrder(ast), 0),
   calls |-> CallGraph(methods),
   flows |-> FlowsIn(methods),
   cross |-> CrossCalls(Methods(raw))]

\* parse_lightweight: no CFG, no dataflow.
LightCpg(ast) ==
  [ast |-> ast, at |-> [i \in MethodIds(ast) |-> None], blocks |-> <<>>,
   calls |-> CallGraph(Methods(ast)), flows |-> {}, cross |-> {}]

NextIdAfter(ast) == Max0(Ids(ast)) + 1

\* refresh_incremental_indexes: one more than the largest block number.
BlocksAfter(blocks) == IF DOMAIN blocks = {} THEN 0 ELSE Max0(DOMAIN blocks) + 1

-----------------------------------------------------------------------------
(* The scope of a targeted update.                                         *)

CommonLength(a, b) == Len(LongestCommonPrefix({a, b}))

\* collect_method_ids_in_range: the methods of an overlapped specifier that the edit
\* overlaps, which is what lies between the longest common prefix and suffix of its
\* methods; none when the edit is not inside the specifier or is between its methods.
TouchedMethods(e, new) ==
  IF Len(new) # 1 \/ new[1].kind # "specifier" THEN {}
  ELSE LET a == e.item.methods
           b == new[1].methods
           p == CommonLength(a, b)
           s == CommonLength(Reverse(SubSeq(a, p + 1, Len(a))),
                             Reverse(SubSeq(b, p + 1, Len(b))))
       IN {e.ids[i] : i \in p + 1 .. Len(a) - s}

OverlappedOf(ast, edit, kind) == {ast[i] : i \in {k \in Overlapped(edit) : ast[k].item.kind = kind}}

AffectedOld(ast, edit) ==
  {e.id : e \in OverlappedOf(ast, edit, "function")} \cup
  UNION {TouchedMethods(e, edit.new) : e \in OverlappedOf(ast, edit, "specifier")}

Reshaped(ast, edit) ==
  {e \in OverlappedOf(ast, edit, "specifier") : TouchedMethods(e, edit.new) = {}}

RequiresFullDfg(ast, edit) == OverlappedOf(ast, edit, "declaration") \cup Reshaped(ast, edit) # {}
HasGlobalChanges(ast, edit) ==
  \/ RequiresFullDfg(ast, edit)
  \/ OverlappedOf(ast, edit, "class") # {}
  \/ \E i \in DOMAIN edit.new : edit.new[i].kind # "function"

TooLarge(ast, edit) ==
  LET total == Cardinality({i \in DOMAIN ast : ast[i].item.kind = "function"})
      threshold == IF total <= SmallFile THEN total + 1
                   ELSE IF total \div 2 > 2 THEN total \div 2 ELSE 2
  IN Cardinality(AffectedOld(ast, edit)) > threshold

\* The functions that a function of the frontier is called by: in the call graph of
\* the old tree, or in the new tree by the name the old call graph has for it.
CallersOf(frontier, old, methods) ==
  {c \in DOMAIN old : \E n \in DOMAIN old[c].to : old[c].to[n] \in frontier} \cup
  {m.id : m \in {x \in methods : \E f \in frontier \cap DOMAIN old : old[f].name \in x.item.calls}}

\* Tier 1 of expand_incremental_function_targets: all transitive callers.
Closure(targets, frontier, old, methods) ==
  LET all == targets \cup DOMAIN old \cup {m.id : m \in methods}
      f[k \in 0 .. Cardinality(all)] ==
        IF k = 0 THEN [targets |-> targets, frontier |-> frontier]
        ELSE LET prev == f[k - 1]
                 new == CallersOf(prev.frontier, old, methods) \ prev.targets
             IN [targets |-> prev.targets \cup new, frontier |-> new]
  IN f[Cardinality(all)].targets

Part(f, S) == Restrict(f, DOMAIN f \cap S)

\* A map that entries are inserted into, overwriting those it has.
Insert(new, f) == [x \in DOMAIN new \cup DOMAIN f |-> IF x \in DOMAIN new THEN new[x] ELSE f[x]]

\* Mutant: entries of functions that are gone stay.
MergedOverOld(old, methods, targets) ==
  Insert(CallGraph({m \in methods : m.id \in targets}), old)

\* build_call_graph_for_functions: the entries of the functions in scope are replaced.
MergedCalls(old, methods, targets) ==
  LET scope == {m \in methods : m.id \in targets}
  IN Insert(CallGraph(scope), Part(old, DOMAIN old \ targets))

\* Mutant: the calls a function had before the edit stay cached.
CacheOnTop(cache, methods, targets) ==
  cache \cup CallsIn({m \in methods : m.id \in targets})

\* refresh_incremental_analysis_caches for the functions in scope.
MergedCache(cache, methods, targets) ==
  {c \in cache : c[1] \notin targets} \cup CallsIn({m \in methods : m.id \in targets})

\* The blocks of the functions that are not rebuilt.
OtherBlocks(blocks, affected) ==
  Part(blocks, {b \in DOMAIN blocks : blocks[b].function \notin affected})

\* apply_cached_interprocedural_edges: the edges of the cached calls whose caller or
\* callee is in scope, where the callee is a function_definition.
CachedEdges(cache, methods, targets) ==
  IF ~ CachedFlows THEN {}
  ELSE {<<c[1], Resolve(methods, c[2])>> :
          c \in {q \in cache : LET callee == Resolve(methods, q[2]) IN
                    callee # None /\ (q[1] \in targets \/ callee \in targets)}}

-----------------------------------------------------------------------------
(* The operations.                                                         *)

Init ==
  /\ source = <<>> /\ cpg = None
  /\ nextId = 0 /\ deleted = {} /\ nextBB = 0 /\ callCache = {} /\ sigs = {}
  /\ disk = None /\ edits = 0

\* parse_initial and parse_full: reset_incremental_state, then rebuild_cpg with no old CPG.
ParseFull(file) ==
  LET raw == Fresh(file) IN
  /\ source' = file
  /\ cpg' = FullCpg(raw.ast, raw.ast)
  /\ nextId' = raw.next
  /\ deleted' = {}
  /\ nextBB' = BlocksAfter(cpg'.blocks)
  /\ callCache' = CallsIn(Methods(raw.ast))
  /\ sigs' = {}

\* parse_lightweight: the same without CFG, dataflow and analysis caches.
ParseLightweight(file) ==
  LET raw == Fresh(file) IN
  /\ source' = file
  /\ cpg' = LightCpg(raw.ast)
  /\ nextId' = raw.next
  /\ deleted' = {}
  /\ nextBB' = 0
  /\ callCache' = {}
  /\ sigs' = {}

Open(file) ==
  /\ cpg = None
  /\ IF Lazy THEN ParseLightweight(file) ELSE ParseFull(file)
  /\ UNCHANGED <<disk, edits>>

Reparse(file) == cpg # None /\ ParseFull(file) /\ UNCHANGED <<disk, edits>>

\* generate_function_cpg for a set of methods: next_bb_id is read and not moved on.
GenerateFunctionCpg(ids) ==
  LET methods == {m \in Methods(cpg.ast) : m.id \in ids} IN
  /\ cpg' = [cpg EXCEPT
       !.blocks = Insert(NewBlocks(cpg.ast, ById(methods), nextBB), @),
       !.at = Insert(NewAt(ById(methods), nextBB), @),
       !.flows = {p \in @ : p[1] \notin ids /\ p[2] \notin ids},
       !.calls = MergedCalls(@, Methods(cpg.ast), ids)]
  /\ UNCHANGED <<source, nextId, deleted, nextBB, callCache, sigs, disk, edits>>

Generate ==
  /\ Lazy /\ cpg # None
  /\ \E ids \in SUBSET MethodIds(cpg.ast) : ids # {} /\ GenerateFunctionCpg(ids)

\* Mutant: dropping the deleted ids above the largest id frees them.
CompactToLargest(ast, next, gone) ==
  LET max == Max0(Ids(ast)) IN
  IF Cardinality(gone) < CompactThreshold
  THEN nextId' = next /\ deleted' = gone
  ELSE deleted' = {d \in gone : d < max} /\ nextId' = max + 1

\* compact_deleted_ids, with the ids of the new tree.
Compact(ast, next, gone) ==
  LET max == Max0(Ids(ast)) IN
  IF Cardinality(gone) < CompactThreshold
  THEN nextId' = next /\ deleted' = gone
  ELSE /\ deleted' = {d \in gone : d < max}
       /\ nextId' = IF next <= max THEN max + 1 ELSE next

\* rebuild_cpg over an old CPG: the fresh tree is remapped to the ids that survive.
Rebuild(file) ==
  LET new == Rebuilt(cpg.ast, file, nextId, deleted) IN
  /\ cpg' = FullCpg(new.ast, Fresh(file).ast)
  /\ nextBB' = BlocksAfter(cpg'.blocks)
  /\ callCache' = CallsIn(Methods(new.ast))
  /\ Compact(new.ast, new.next, deleted \cup new.gone)
  /\ UNCHANGED sigs

\* The functions a targeted update looks at again: the edited ones, all transitive
\* callers of those that may have changed for a caller, the functions that did not
\* survive the edit, and from the delta tier some of the callers of functions whose CFG
\* kept its topology, those that use a variable the function returned.
Scopes(edit, methods, affected) ==
  LET live == {m.id : m \in methods}
      frontier == IF HasGlobalChanges(cpg.ast, edit) THEN affected
                  ELSE {i \in affected : i \notin sigs \cap live}
      surviving == {cpg.ast[i].id : i \in Kept(cpg.ast, edit)}
  IN {Closure(affected, frontier, cpg.calls, methods) \cup extra \cup (live \ surviving) :
        extra \in SUBSET CallersOf(affected \ frontier, cpg.calls, {})}

\* The blocks of the rebuilt entries before their functions get blocks of the new tree.
LocalAt(fresh) ==
  [i \in MethodIds(fresh) |->
     LET e == CHOOSE x \in ToSet(fresh) : i \in IdsOf(x) IN NewAt(MethodsOf(e), 0)[i]]

\* The CPG after an update, with the calls that are cached by then.
UpdatedCpg(edit, new, methods, affected, targets, cache) ==
  LET live == {m.id : m \in methods}
      rebuilt == ById({m \in methods : m.id \in affected})
      flows == IF targets = {} /\ ~ RequiresFullDfg(cpg.ast, edit) THEN FlowsIn(methods)
               ELSE {p \in cpg.flows : /\ p[1] \notin targets /\ p[2] \notin targets
                                       /\ p[1] \in live /\ p[2] \in live}
  IN
  [ast |-> new.ast,
   at |-> Insert(NewAt(rebuilt, nextBB),
            Insert([i \in live \cap affected |-> None],
              Insert(LocalAt(new.fresh), Part(cpg.at, live)))),
   blocks |-> Insert(NewBlocks(new.ast, rebuilt, nextBB), OtherBlocks(cpg.blocks, affected)),
   calls |-> IF targets = {} THEN cpg.calls ELSE MergedCalls(cpg.calls, methods, targets),
   flows |-> flows \cup CachedEdges(cache, methods, targets),
   cross |-> {}]    \* the old ones are not carried over, and none are found

\* try_targeted_update.
TargetedUpdate(edit) ==
  \E new \in {Targeted(cpg.ast, edit, nextId, deleted)} :
  \E methods \in {Methods(new.ast)} :
  \E affected \in {AffectedOld(cpg.ast, edit) \cup
                   {e.id : e \in {x \in ToSet(new.fresh) : x.item.kind = "function"}}} :
  \E targets \in Scopes(edit, methods, affected) :
  /\ callCache' = MergedCache(callCache, methods, targets)
  /\ cpg' = UpdatedCpg(edit, new, methods, affected, targets, callCache')
  /\ nextBB' = BlocksAfter(cpg'.blocks)
  /\ sigs' = (sigs \cup affected) \ (DOMAIN cpg.calls \ DOMAIN cpg'.calls)
  /\ Compact(new.ast, IF new.next > NextIdAfter(new.ast) THEN new.next ELSE NextIdAfter(new.ast),
             deleted \cup new.removed)

\* apply_edit, and parse_incremental with one edit.
ApplyEdit(edit) ==
  /\ source' = Applied(source, edit)
  /\ IF TooLarge(cpg.ast, edit) THEN Rebuild(source')
     ELSE TargetedUpdate(edit)
  /\ edits' = edits + 1
  /\ UNCHANGED disk

\* parse_incremental with several edits.
ApplyEdits(file) ==
  /\ source' = file
  /\ Rebuild(file)
  /\ edits' = edits + 1
  /\ UNCHANGED disk

\* An edit at the end of a function that has no closing token changes its text but
\* does not overlap it: the function keeps its kind, name and start, and so is preserved.
Extend(i, item) ==
  LET edit == [lo |-> i + 1, hi |-> i, swallow |-> 0, new |-> <<>>] IN
  /\ source' = [source EXCEPT ![i] = item]
  /\ TargetedUpdate(edit)
  /\ edits' = edits + 1
  /\ UNCHANGED disk

SaveState ==
  /\ Persistent /\ cpg # None
  /\ disk' = [source |-> source, cpg |-> cpg, nextId |-> nextId, deleted |-> deleted]
  /\ UNCHANGED <<source, cpg, nextId, deleted, nextBB, callCache, sigs, edits>>

\* Mutants: the call expressions are not collected; blocks are numbered from 0.
DeriveUncached(c) ==
  cpg' = c /\ nextBB' = BlocksAfter(c.blocks) /\ callCache' = {} /\ sigs' = {}
DeriveFromZero(c) ==
  cpg' = c /\ nextBB' = 0 /\ callCache' = CallsIn(Methods(c.ast)) /\ sigs' = {}

\* What a new generator derives from a CPG it is given.
Derive(c) ==
  /\ cpg' = c
  /\ nextBB' = BlocksAfter(c.blocks)
  /\ callCache' = CallsIn(Methods(c.ast))
  /\ sigs' = {}

\* load_state in a generator of a new process.  A file without items may be empty, and
\* then the generator starts over.
LoadState ==
  /\ disk # None
  /\ \/ /\ Derive(disk.cpg)
        /\ source' = disk.source /\ nextId' = disk.nextId /\ deleted' = disk.deleted
     \/ /\ disk.source = <<>>
        /\ source' = <<>> /\ cpg' = None
        /\ nextId' = 0 /\ deleted' = {} /\ nextBB' = 0 /\ callCache' = {} /\ sigs' = {}
  /\ UNCHANGED <<disk, edits>>

\* init_from_cache, which is given only the source and the CPG.
InitFromCache ==
  /\ disk # None
  /\ Derive(disk.cpg)
  /\ source' = disk.source /\ nextId' = NextIdAfter(disk.cpg.ast) /\ deleted' = {}
  /\ UNCHANGED <<disk, edits>>

-----------------------------------------------------------------------------
\* The edits of a file: an edit that overlaps a specifier overlaps only that.
Edits(file) ==
  {e \in [lo : 1 .. Len(file) + 1, hi : 0 .. Len(file), swallow : 0 .. MaxSwallow, new : NewTexts] :
     /\ e.hi \in e.lo - 1 .. Len(file)
     /\ e.hi + e.swallow <= Len(file)
     /\ Applied(file, e) # file
     /\ Len(Applied(file, e)) <= MaxFile
     /\ DistinctNames(Applied(file, e))
     /\ (\E i \in Overlapped(e) : file[i].kind = "specifier") => e.lo = e.hi}

Edit == cpg # None /\ edits < MaxEdits /\ \E e \in Edits(source) : ApplyEdit(e)
EditTwice == cpg # None /\ edits < MaxEdits /\ \E file \in Files : ApplyEdits(file)
ExtendLast ==
  /\ OpenEnded /\ cpg # None /\ edits < MaxEdits
  /\ \E i \in DOMAIN source : \E new \in NewTexts :
       /\ Len(new) = 1 /\ new[1] # source[i]
       /\ new[1].kind = source[i].kind /\ new[1].name = source[i].name
       /\ DistinctNames([source EXCEPT ![i] = new[1]])
       /\ Extend(i, new[1])

Next ==
  \/ \E file \in Files : Open(file)
  \/ \E file \in Files : Reparse(file)
  \/ Generate
  \/ Edit
  \/ EditTwice
  \/ ExtendLast
  \/ SaveState
  \/ LoadState
  \/ InitFromCache

Spec == Init /\ [][Next]_vars

-----------------------------------------------------------------------------
(* Properties.                                                             *)

\* After any edit the AST is the tree of the new source: the entries kept by kind and
\* start, those rebuilt on the ids of old ones and those rebuilt on fresh ids are in the
\* order of the file, and no node the edit kept is swept away with the removed ones.
AstIsSource == cpg # None => [i \in DOMAIN cpg.ast |-> cpg.ast[i].item] = source

\* No two nodes share an id, no node has a deleted id, and ids to come are above all.
IdsDistinct ==
  cpg # None =>
    /\ \A i, j \in DOMAIN cpg.ast : i # j => IdsOf(cpg.ast[i]) \cap IdsOf(cpg.ast[j]) = {}
    /\ \A i \in DOMAIN cpg.ast : /\ IsInjective(cpg.ast[i].ids)
                                 /\ cpg.ast[i].id \notin Range(cpg.ast[i].ids)
    /\ Ids(cpg.ast) \cap deleted = {}
    /\ \A i \in Ids(cpg.ast) : i < nextId

\* Across an edit an id never comes to mean another function: a node that keeps its id
\* keeps its text, and a node that is new has an id that was not handed out before; the
\* next free id never falls, also when deleted ids are compacted.
IdsAreStable ==
  [][edits' = edits + 1 =>
       /\ nextId' >= nextId
       /\ \A m \in Methods(cpg.ast), n \in Methods(cpg'.ast) : m.id = n.id => m.item = n.item
       /\ \A i \in Ids(cpg'.ast) \ Ids(cpg.ast) : i >= nextId]_vars

\* Every function has one basic block, which it is annotated with and which has the
\* control flow a fresh build would give it, and there are no others.
CfgIsFresh ==
  cpg # None =>
    LET methods == Methods(cpg.ast) IN
    /\ {[function |-> cpg.blocks[b].function, ends |-> cpg.blocks[b].ends] : b \in DOMAIN cpg.blocks}
         = {[function |-> m.id, ends |-> m.item.calls \cap Noreturn(cpg.ast)] : m \in methods}
    /\ \A m \in methods : /\ cpg.at[m.id] \in DOMAIN cpg.blocks
                          /\ cpg.blocks[cpg.at[m.id]].function = m.id
    /\ Cardinality(DOMAIN cpg.blocks) = Cardinality(methods)

\* The call graph has an entry for each function and no other, under its name; a call
\* that is resolved leads to a function that is there and has the name that is called.
CallGraphIsLive ==
  cpg # None =>
    LET methods == Methods(cpg.ast) IN
    /\ DOMAIN cpg.calls = {m.id : m \in methods}
    /\ \A m \in methods : cpg.calls[m.id].name = m.item.name /\ DOMAIN cpg.calls[m.id].to = m.item.calls
    /\ \A i \in DOMAIN cpg.calls : \A n \in DOMAIN cpg.calls[i].to :
         cpg.calls[i].to[n] # None =>
           \E m \in methods : m.id = cpg.calls[i].to[n] /\ m.item.name = n

\* The interprocedural dataflow edges are those of a fresh build, whichever functions
\* the update rebuilt.
FlowsAreFresh == cpg # None => cpg.flows = FlowsIn(Methods(cpg.ast))

\* The cached calls that later updates draw edges from are the calls of the tree.
CacheIsFresh == cpg # None => callCache = CallsIn(Methods(cpg.ast))
=============================================================================
