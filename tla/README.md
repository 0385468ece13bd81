# Verification of web-sitter

TLA+ models of web-sitter, checked with TLC and, where "Proofs" says so, proved
with TLAPS. Source paths below are relative to the repository root.

## The system

web-sitter turns source files of nine languages into code property graphs (CPGs:
AST, control flow, call graph, dataflow) and scans them with rules written in
web-ql. Four crates:

| crate | what it is |
|---|---|
| `web-sitter` | CPG generation, from scratch and incrementally |
| `web-ql` | the rule language, its engine, the analyses rules ask for, and the workspace of all files |
| `web-profiler` | counters, spans and reports, shared by all threads |
| `web-scan` | the command that puts them together |

A scan discovers files, builds their CPGs in parallel (`build_cpg`), puts each
into a `Workspace` (`upsert_file`), resolves the calls between files
(`build_cross_file_edges`), compiles the rules, evaluates them on all files in
parallel (`scan`), renders the findings. An editor holds an
`IncrementalCpgGenerator` per file and a `Workspace`, hands edits to the first,
CPGs to the second, and asks for `scan_incremental`. Within one file's evaluation
`RuleRunner` runs rule plans, and `TaintEngine::run` for taint rules. All
threads report to one global `Profiler`.

### Inventory

State, operations and what is hard, component by component. "Properties" is what
makes the component correct; the modules state those of them that are modelled.

**Workspace** (`web-ql/src/workspace.rs`). State: the file index, merged
summaries and who contributed each, resolved cross-file call edges and shared
CPGs, dirty files, findings cache and the signature it is for. Operations:
`upsert_file`, `remove_file`, `build_cross_file_edges`, `scan`,
`scan_incremental`. Called by the scanner and by editors in any order. Hard:
five caches derived from one index, each with its own invalidation; resolution
depends on a HashMap's order. Properties: nothing served is about content,
edges, summaries or rules that are no longer there. *Modelled: `Workspace`,
`ScanContract`.*

**Taint engine** (`web-ql/src/taint.rs`, `dfg.rs`). State: the tainted nodes, the
edges recorded while calls are expanded, worklists, the registry of endpoints.
Reads the workspace's summaries and cross-file edges. Hard: two fixpoints over
unordered sets, under a depth bound, and a final reachability check that must
agree with them. Properties: it ends; what is tainted is justified, complete and
independent of the order; findings agree with it; a name of a clause stands for
its definition. *Modelled: `TaintExpansion`; guards in `Guards`, endpoints in
`Queries`. The shortest path of a finding is not.*

**Incremental CPG generator** (`web-sitter/src/incremental.rs`). State: source,
parse tree, CPG, next and deleted ids, next block number, cached calls and
returns, topology signatures. Operations: `parse_initial`, `parse_full`,
`apply_edit`, `parse_incremental`, `parse_lightweight`, `generate_function_cpg`,
`save_state`, `load_state`, `init_from_cache`. Hard: what an update must rebuild,
over any history of edits, and ids that stay with their nodes. Properties: after
every history the CPG is that of a fresh parse up to ids; ids are distinct and
stable. *Modelled: `StableIds`, `IncrementalCpg`.*

**CFG builder** (`web-sitter/src/cfg.rs`). State: blocks, the current block, a
stack of jump targets, labels and gotos not yet resolved, handlers, defers. One
handler per kind of statement, in nine languages. Sequential. Hard: the targets
of jumps out of nested statements, code after a jump, exceptions, noreturn calls.
Property: a path exists in the graph exactly when the statements can execute so.
*Modelled: `CfgBuilder`, against `Execution`.*

**Call graph and dataflow builder** (`web-sitter/src/dfg.rs`, `call_analysis.rs`,
`function_summary.rs`). Definitions, uses and reaching definitions of each
function, pointers, fields, closures, calls and their callees, interprocedural
edges, summaries; each for all functions or for a scope. Hard: a flow exists when
control can go from the definition to the use; a partial rebuild must equal a
whole one. *Modelled: dataflow in `DataflowBuilder` and `Dataflow`, the scope of
rebuilds in `IncrementalCpg`. Not: dispatch through function pointers and virtual
methods, summaries.*

**CPG generator, lifter, type inference, anonymizer**
(`web-sitter/src/cpg_generator.rs`, `lib.rs`, `lifter.rs`, `type_inference.rs`,
`symbol_anonymizer.rs`). Sequential passes over one tree, mostly tables.
*`IncrementalCpg` has the order and the inputs of the builders in
`get_node_graph_artifacts`.*

**CFG analysis** (`web-ql/src/cfg.rs`, `compute_cfg_sccs`). Dominators and
post-dominators, strongly connected components, loops, feasible reachability.
Hard: iterative and recursive graph algorithms over graphs with dead blocks and
several exits. Property: each answer is what it means of the function's
executions. *Modelled: `CfgAnalysis`, with the two component searches, reachability
and the dominator tree step by step in `CfgSccs`, `CfgReach` and `CfgDominators`.*

**Dataflow index, aliases, nullability** (`web-ql/src/dfg.rs`, `alias.rs`,
`nullability.rs`). State: adjacency maps, a memo table behind an `RwLock` shared
by the rules of a file, counters of hits, misses and bytes. Hard: two threads
compute one answer between the read and the write lock. Properties: an answer,
cached or not, is the least closed set. *Modelled: `DataflowIndex`.*

**Guards, folding, sizes** (`web-ql/src/guard.rs`, `symbolic.rs`,
`size_tracking.rs`, `is_guarded` of `taint.rs`). Pure functions that suppress
findings. Hard: comparisons turned round and negated, which branch leads to the
target, offsets, wrapping integers. Property: a suppressed finding is impossible
in every run. *Modelled: `Symbolic`, `Sizes`, `Guards`.*

**Query front end** (`lexer.rs`, `parser.rs`, `planner.rs`, `types.rs`,
`loader.rs`) and **query engine** (`engine.rs`, `ir.rs`, `kind_index.rs`,
`node_ref.rs`, `finding.rs`). A compiler from rule files to plans, the merge of
the rule sets of a directory, and evaluation of plans over environments. Hard:
precedence, scopes of variables in predicates called by position, recursion, the
order in which files are merged. Property: a search finds the assignments its
author's condition holds for. *Modelled: `RuleParser`, `RulePlanner`,
`QueryEngine`, `Queries`, against `QueryMeaning`.*

**Profiler** (`web-profiler/src/profiler.rs`). State: atomic counters, a lock-free
maximum, mutex-protected maps of spans, caches and counters. Operations from all
threads at once: `task_guard` and its drop, spans, counters, `thread_metrics`.
Hard: the compare-exchange loop of the peak, reports while tasks run. Properties:
no count and no peak is lost, a report after the join is exact. *Modelled:
`Profiler`, for the task accounting.*

**Scanner** (`web-scan/src/main.rs`, `output.rs`, `html_report`). A pipeline with
failures per file, an exit code, and renderings. *Loading of rules is modelled in
`Queries`; the rest is not.*

**Security patterns, rules, fixtures**: data. *The shapes of propagators and of
functions that write to their arguments are constants of `DataflowBuilder`.*

## The modules

| module | models | correspondence |
|---|---|---|
| `Workspace` | `workspace.rs` | one action per public operation that changes state; variables named after the fields |
| `ScanContract` | what `scan_incremental` promises | two variables: contents, and what results are about |
| `Profiler` | `task_guard`, its drop, `thread_metrics` | one action per atomic operation, per task |
| `TaintExpansion` | `TaintEngine::run` and what it calls | one action per depth of a sweep and per call examined; variables are its locals |
| `StableIds` | id assignment in `incremental.rs` | operators |
| `IncrementalCpg` | `IncrementalCpgGenerator` | one action per public operation; variables are the fields of `IncrementalCpgState` that later operations read |
| `CfgBuilder` | `cfg.rs` | one action per handler and per step of its body; `todo` is the call stack, `state` the fields of the builder |
| `Execution` | what a function may execute | the reference, by fields of the grammar, without blocks |
| `FlowGraph` | graphs as the analyses see them | what a block leads to, the reference of the next two |
| `CfgSccs` | `compute_cfg_sccs` | one action per step of its three passes over explicit stacks |
| `CfgReach` | `tarjan_sccs`, `CfgReachability::compute` | one action per turn of its loops; variables are its locals |
| `CfgDominators` | `DomTree::compute`, `reverse_postorder`, `intersect` | one action per call and return of the search, per block of a pass and per step up the tree; variables are its locals |
| `CfgAnalysis` | the rest of `web-ql/src/cfg.rs` | operators for the tables and the questions; `ComputeDominators`, `ComputeReach` and `BuildCfg` build a function's |
| `ControlFlow` | composition of all these | builds, executes, analyses; has the properties |
| `DataflowBuilder` | `build_dataflow_impl`, `build_dataflow_for_functions` | one set comprehension per pass |
| `Dataflow` | composition with `CfgBuilder` and `Execution` | parses, builds, edits, renews, executes |
| `DataflowIndex` | `web-ql/src/dfg.rs`, `alias.rs`, `nullability.rs` | one action per queue step and per lock section, per thread |
| `Symbolic`, `Sizes` | `symbolic.rs`, `size_tracking.rs` | operators |
| `Guards` | `guard.rs`, `is_guarded` | the verdicts of a case, then its runs |
| `RuleParser`, `RulePlanner` | `parser.rs`; `planner.rs`, `types.rs`, `RuleSet::merge` | operators named after the functions |
| `QueryEngine` | `engine.rs`, `kind_index.rs` | operators over environments |
| `QueryMeaning` | what `docs/web-ql.md` says a query means | the reference: printing, free variables, answers |
| `Queries` | loading and running | one action per file read and per clause evaluated |
| `MC...` | | instances for TLC |
| `...Proofs` | | theorems |

### Workspace

A CPG is what the workspace reads of it: summaries, keys registered, calls that
leave the file. The evaluation of a file is the record of its inputs, so equal
records mean equal findings, and a stale input shows as a different record.
HashMap orders are chosen anew (`FileOrders`) in every edge build. `ScanContract`
knows contents and results only; the refinement maps the findings cache to
results.

Bounds: three files are needed for a caller and two files competing for a key,
or two contributors of one summary name; two rule sets of different signatures. The state
space is finite without further bounds.

### Profiler

Tasks, not threads, are the processes: a pool thread holds several guards while
it steals. Loads of `peak_in_flight` are `Relaxed`, so the model lets a load, and
the value a failed exchange returns, be any value the atomic has held that is not
older than what the task saw before. That is more than coherence allows, so the
safety results carry over. Task bodies end (`held` is left), which
liveness assumes.

Bounds: two tasks are enough for the races of the peak, which are between a task
that exchanges and one that fails; the theorems are about any number.

### TaintExpansion

A program is what `run` reads: flows, propagators, sources, sinks, sanitizers,
the arguments and children of calls, which argument positions a summary returns,
and for a callee in another file how many parameters it has and which of them its
own sweep carries to a return. Positions are 1-based. Same-function and guard
filters are a set `kept` of pairs that are not removed, chosen freely.

Bounds: seven nodes give a chain source - variable - call - call - sink, nested
and through variables, with a second source; `max_call_depth` 0 cuts paths and 3
does not.

### IncrementalCpg

A file is a sequence of top-level items: functions, classes, C++ specifiers,
noreturn declarations. An item is its kind, name, calls and methods. An AST entry
has the id of its root and one id per method; other nodes share the fate of their
root. A function has one block, whose control flow is the set of its calls after
which it does not go on, and each call passes an argument, so that an
interprocedural edge is a pair of functions. These are the granularity at which
targeted updates decide what to rebuild.

An edit replaces a range of items. `swallow` is how many items after the range
end up inside the new text, as under an opened comment: the generator looks at
overlaps with the edit only. `Extend` is an edit at an item's end in a language
without closing tokens, which leaves the name at its start alone.

What is simplified: names in a file are distinct; no function uses a file-scope
variable; an edit that overlaps a C++ specifier overlaps nothing else; the second
tier of the scope (callers that use a returned variable) is any set of callers of
the functions whose topology did not change; load is into a new generator.
Constants `SmallFile` and `CompactThreshold` are 4 and 1000 in the code and 1 and
2 in the runs, so that the limits are met. What is left out:
`inject_function_cpg_data`, `bootstrap_from_state`, macro aliases, node
generations (which remove nothing at this granularity), and errors of the
builders.

Bounds: two functions that call each other's neighbours plus a third give caller,
edited function and callee; a second edit meets what the first left behind, with
a save and a load before, between or after (`incremental`, two edits). Edits bring
in at most two items, in one go, so that two new functions compete for an old one
(`incremental_ids`, with classes and specifiers of which the methods change).

### CfgBuilder, Execution, CfgSccs, CfgReach, CfgDominators, CfgAnalysis, ControlFlow

The builder recurses over the syntax tree; the model's `todo` is its call stack,
so that each step is one piece of a handler between two recursive calls. Node
types that no handler tells apart are one type. `Execution` says which atoms
(simple statements, jumps, leaves of conditions) may follow which, by the fields
of the grammar; `ControlFlow!WalksAreSteps` compares the two relations, atom by
atom, and the analysis properties compare the answers of `FunctionCfg` with sets of
executions (`Reached`).

`compute_cfg_sccs` numbers the components on the built graph and `tarjan_sccs` finds them
again for the queries. Both keep explicit stacks, so their steps are the turns of their
loops, and `FlowGraphs` lets them be started on every graph: arcs stay inside the graph, as
those of a built one do, so that the guards `w >= n` never bite. `build_for_function` calls
`DomTree::compute` on the graph and on the reversed one with its virtual exit, then
`CfgReachability::compute`, in this order. Of a block's predecessors in `DomTree::compute` a
set is kept: one that is in the list twice meets the result a second time, which is above it
already. `intersect` loops until its two blocks are the same; the model would stop where it
could go neither way, and `ClimbingEnds` says that there is no such place.

What the builder adds to be safe is not counted as a wrong
path: a throw that may be uncaught, a switch without a case that fits.

Bounds: 225 functions. Every loop around every body of at most two statements with
every jump in every branch, loops in loops, conditions of up to three leaves,
constants of known and unknown value, switches with and without default, goto in
both directions, labels, try, SEH, defer, select, match, noreturn calls, dead
code. Deeper nesting repeats: a jump's target depends on the stack's top.
Properties of dominance and reachability are asked of atoms in different blocks
(within a block the builder knows no order) and of functions without exception
edges, which the query graph ignores.

### DataflowBuilder, Dataflow

The tree is that of tree-sitter's named nodes, with its field names; a pass is the
set of edges it adds. The first function of a file is studied: its blocks come from
`CfgBuilder`, and its executions from `Execution` with a set `carry` of the variables
that hold the value of one call. `ValuesHavePaths` asks that each read of the value
is led to by edges, `FlowsAreExecution` that a definition flows to a use in another
block just when control may go there, `EditedIsFresh` that renewing one function
equals building everything.

Bounds: 25 files, each edited in four ways: a helper that returns its
parameter and one that returns what it reads, a global variable, a structure; assignments,
initializers, branches, loops of C, C++, Go, Python and Rust, pointers, elements,
fields, closures, library functions that copy and that fill.
Files avoid the forms listed under "Dataflow" below, of which each fails a property.

### DataflowIndex

A search takes any node of its queue, so results hold for every order of the
queue and of hash tables. The read lock, the search and the write lock are three
steps. Two threads on one graph of four nodes, one of which is a barrier, and two
questions in all: both threads can ask for one source, or for two that reach each
other. The theorems are about any number.

### Symbolic, Sizes, Guards

`Bits` is 4 in the run and 64 in the code, `ExponentBits` 2 and 32: sums, products and
shifts that overflow, the smallest integer, zero divisors and exponents that are cut off are
among the cases. Casts to signed and unsigned types, which the folder looks through, stand
in constants, in bounds and around the value, and some of them change it. `FoldingIsExact`
is asked of values that fit, `ZeroIsExcluded`, `ValueIsBounded` and `SingleTestsAreExact` of
conditions whose casts change no value and do not stand around v; "Guards" below says what
happens otherwise. The types of literals and the operators `<>`, `and`, `or` and `not`,
which are other spellings, are left out. A tree is a function from paths to nodes, so that an ancestor is a
prefix; the folder and the program's values are functions of the same paths. A case is one conditional: a condition in which the value occurs
bare, parenthesised, shifted or under `strlen`; the target before it, in a branch or
behind it; a consequence that leaves or goes on; fifteen declarations of the
buffer. The analysis gives its verdicts, then the program runs from all values.
`Trustworthy` names the cases in which a verdict claims something, and thereby the
forms that the analysis misreads ("Guards" below).

### RuleParser, RulePlanner, QueryEngine, QueryMeaning, Queries

A query is the tree its author intends. `Written` prints it by the documented
precedences, `RuleParser` parses the tokens, `RulePlanner` checks and compiles,
`Merge` joins the files in any order of the directory, `QueryEngine` evaluates.
`QueryMeaning` has the answers of the intended tree, with lexical scoping and the
predicates of the author's own file. The graph has two functions with calls,
definitions and flows, and a field that a name of neither function falls back to; the methods
of nodes are a table over it. `IntHalf` is 8 in the runs and 2^63 in the code; the integers
of the graph and of the rules are close enough for their difference to fit.

Bounds: over a thousand directories of one or two files: every pair of
connectives, negated and parenthesised, around every form of condition; predicates
that call one another, themselves and by the names of their caller; lets and
quantifiers that shadow; endpoints of taint clauses with builtin names, in other
files, in several sections.

## The runs

Passing runs.

| run | cfg | question |
|---|---|---|
| `workspace` | `MCWorkspace.cfg` | Is anything stale served, in any order of operations? Does the incremental scan implement `ScanContract`? |
| `profiler` | `MCProfiler.cfg` | Are counts and peak right for two tasks in every interleaving, with a report at any time? Does every task leave the exchange loop? |
| `taint` | `MCTaintExpansion.cfg` | Is the tainted set the declarative closure, whatever the order of calls? Do findings agree with it? Does `run` end? |
| `incremental` | `MCIncrementalCpg.cfg` | After edits of functions, saves and both ways of loading: are CFG, call cache and interprocedural edges those of a fresh build, the call graph alive? |
| `incremental_ids` | `IncrementalIds.cfg` | With classes and specifiers, edits that swallow, lazy generation and compaction: is the AST that of the source, do ids stay distinct and stable? |
| `control_flow` | `MCControlFlow.cfg` | Does the graph of a function have its paths and no others? Are the answers of the CFG analysis true of its executions? |
| `dataflow` | `MCDataflow.cfg` | Does every value have its path of edges, every definition its uses, and every partial rebuild the result of a whole one? |
| `dataflow_index` | `MCDataflowIndex.cfg` | Are the answers of two threads exact in every interleaving, and is every question answered? |
| `guards` | `MCGuards.cfg` | Is what the guards clear impossible in every run? Do sizes and constants have their values? |
| `queries` | `MCQueries.cfg` | Does a rule find what its author wrote, and does a directory load exactly when it should? |

Two runs show a disagreement between the code and its documentation; their entries
under `findings` in `PROJECT.json` have the quotations.

| run | cfg | the code |
|---|---|---|
| `queries_merge` | `QueriesMerge.cfg` | calls a predicate by its name in the merged directory: the definition of another file takes the place of one's own |
| `dataflow_copies` | `DataflowCopies.cfg` | ends the flow of `memcpy(buf, x, n)` at the argument `buf`: later reads of it hold nothing |

Deadlock is not checked where the system may stop: the taint engine returns, a
generator whose bound on edits is spent has nothing left to do, threads without
questions end, a program runs out, a scan is over.

## Where the code departs from its documents and from the obvious

Found while modelling. The models follow the code; the properties are asked of the
programs that remain, by the constants of the runs and by named conditions in the
properties.

**Workspace.** A file whose cross-file edges changed is not re-evaluated
(`workspace.rs:223`). The signature of a rule set is that of its names: rules edited
in place are answered from the cache. When the file merged last under a name
goes, eviction deletes the summary although another file has one (`workspace.rs:251`
against :150).

**Taint engine.** With several sources, the second source of an expanded call is
not reported. Recorded edges come from all tainted arguments, returned by the
summary or not (`taint.rs:494` against :491); children of a call are matched with
parameters (:571 against :527); a summarised call that the cross-file pass reaches
stays clean (:267 against :438), and one that it taints is tainted although it is a sanitizer
(:597); unknown callees stop taint (:488 against :813);
`max_call_depth` bounds the edges of a sweep, not calls (:239 against
`docs/web-ql.md:598`).

**Incremental generator.** Calls are resolved within the scope of an update only,
and with nothing left to update the old call graph is kept (`incremental.rs:1177`).
Cross-file calls of untouched functions are dropped (:1119). A second
`generate_function_cpg` overwrites the blocks of the first. The methods of an edited
class get no CFG (:802), callers keep their control flow when a function is declared
noreturn (:1137), an open-ended function that grows at its end keeps its AST (:778),
a function that ends up inside the text of an edit, under an opened comment, loses its
node and keeps its block, its entry in the call graph and its cached calls (:777, :1094),
and outside C, C++ and Python an edit drops interprocedural edges (:1920): all
against `README.md:246` and :341. So these are checked for edits that swallow nothing,
`CfgIsFresh` for files without classes and noreturn declarations, `AstIsSource` with
closing tokens, `FlowsAreFresh` for languages whose functions are `function_definition`
nodes.

**Control flow.** Jumps: a labelled break inside its own label is never resolved
(`cfg.rs:703`); a labelled `continue` of a `for` skips the update; `break` in a match
arm of Rust leaves the match. Bodies: the unbraced expression statement of an `if` or
`while` is dropped, as are the bodies of switches in Go, Java and JavaScript and of
Python and Rust conditions of a type not called `..._expression`; expression statements of a
switch go to its first block; `for (i = 0; ...)` and Go's `for ; c; p` swap their parts.
Exceptions: only the first catch gets edges; `finally` is not a block; a throw
inside `synchronized` or `with` does not reach an outer catch; `__leave` skips
`__finally` (:1690). Exits: a switch with a default, and a `for` without a condition,
have an exit edge all the same; defers run after the exit block.

**CFG analysis.** Exception edges are ignored by dominance, post-dominance and
reachability, against `docs/web-ql.md:472` and :478. A loop with a constant condition is
endless although it is left by a break (`web-ql/src/cfg.rs:441`). A constant switch
condition is taken for a Boolean, and `true && false` kills the block of its second
operand.

**Dataflow.** Copies into arguments: see the run `dataflow_copies`. `i++`, `*p = f()`,
`a[i] = f()`, `s.f = y`, `*(p + 1) = x` and `a[i + 1] = x` lose the value or define
nothing; `char *p = g(x)` and `c ? g(a) : 0` lose the result of the call (against
`dfg.rs:3847`); calls whose result is not assigned have no return edge; in Python, Go and
Java `x = read()` has no edge from the call itself; loop variables of Java, Python and
Go get nothing from the iterable. Globals: an assignment in a function reaches uses
in that function only; edges from file-scope definitions are lost by a partial
rebuild; a plain `int v;` counts as a use of v. A definition after a use in one block
gives a `LOOP_CARRY` edge without a loop. Fields are matched by name across functions, and
the declaration of a field is a definition of variables of its name. `POINTS_TO` is also
drawn for dereferences. Enumerators and field designators inside a function belong to
none: a partial rebuild keeps those that are gone and drops new ones (`dfg.rs:1618`,
:2279). Writes in a lambda captured by reference ignore control flow. The token-based
passes see no tokens, as the tree has named nodes only.

**Guards.** A consequence that does not leave counts as one that does
(`guard.rs:115`): `if (d == 0) { log(); } x / d` is cleared. `10 - v < 5` and `v / 2 < 8` are
offsets of v (against :427); values derived from v count as v; `d - 1 != 0`,
`p != NULL || w` and `!(p != NULL)` are misread; `p != NULL && p->ok` is not seen (:308).
`condition_calls_guard` looks into the branches and ignores polarity. Sizes are counts
of elements; `char b[2][3]` has size 3; only the first of several declarators is
sized; `reallocarray` has the size of one element. The folder looks through casts
(`symbolic.rs:89`): `(unsigned char)300` is 300, `v < (unsigned char)-1` bounds v by -1, and
`(unsigned char)v < 3` bounds v. It computes in 64 bits whatever the types are, takes the
exponent of a power modulo 2^32 and a negative one for 0 (:127), so that `0 ** 4294967296` is 1,
panics on the smallest integer divided by -1 and rounds like Rust for Python.

**Rules.** Alternatives of endpoints (`docs/web-ql.md:653`) do not parse. Calls of
predicates check no arity: a missing argument is the caller's variable of that name.
Predicates and endpoints that fail to compile are dropped in silence. A name listed
in two sections of a taint clause has one meaning; of two definitions the last file
read wins. Recursion has no bound and a recursion without end takes the process
down; the plan that is cut off at depth 64 (`engine.rs:370`) is never made. A
quantifier over `NodeType("...")` ranges over all nodes; `arg(i)` past the list falls back
to children; `is_none()` is never true; every node flows to all nodes below it.
Parameters of endpoints are parsed and dropped (`parser.rs:1072`). Integers
are compared by a difference that overflows when they are far apart (`engine.rs:1532`), which
a debug build turns into a panic. `load_rules_dir` does not recurse, so that `scan web-ql-queries/` of `README.md:170` finds no
rules. The level of `let ... in` in the table of precedences
(`docs/web-ql.md:323`) is not the parser's.

**Profiler.** The bytes the reachability cache reports are those that were ever stored
by a thread, also when two store one entry (`web-ql/src/dfg.rs:104`).

## Fairness

`Profiler!FairSpec` has weak fairness for each task's steps (the operating system
schedules threads) and strong fairness for a successful exchange: a weak
compare-exchange may fail spuriously, but not for ever. `TaintExpansion!FairSpec`
is weak fairness of `Next`: `run` is a sequential function. `DataflowIndex` has weak
fairness for each thread: a thread of the pool runs, and the lock is held for a
bounded time. The others promise nothing that must eventually happen.

## Proofs

All theorems hold for every value of the constants under the modules' ASSUMEs,
which say what the constants are: the shape of CPGs and programs, a finite set of
tasks or nodes, `None` being no value of another kind (`NoneIsNoEntry`), the names of a
file being distinct (`TextAssumption`). A hypothesis that is narrower than that is stated
by the theorem, and is one that the instance of some run satisfies.

`WorkspaceProofs`. `TypeOK` and `SummariesCurrent` are inductive (the second needs
the first). The edges need `EdgesCurrent /\ QualifiedNameWins` together: a
resolved edge is current because the winner of its key registers it
(`WinnerRegisters`), and stays so because both upsert and removal clear all edges;
`QualifiedNamesWin` is the other half of the invariant. `CacheInv` is `CleanFilesCached /\ CacheHasOneSig`; from it `ScanResults`
gives that after a scan every indexed file's entry is about its content and the
asked signature, which is the step `RefinesContract` needs; the other operations
map to `Change` or stutter.

`ProfilerProofs`. Counters are the number of tasks in a set of stages (`Counts`);
one operation moves one task, so `CountUp`, `CountDown` and `CountStays` do the
arithmetic of cardinalities. The peak needs `PeakLaw`: a settled task's count is
at most the peak, and a maximum not yet covered is in the hands of a task still
in its loop. `PeakExactWhenSettled` alone is not inductive, since it says nothing
while tasks race. `ReportLaw` remembers that nothing moves after the join.

`TaintProofs`. `Sound`: everything tainted or swept lies in every set that
contains the sources and is closed under the graph with the recorded edges. It is
inductive although edges are added, as more edges leave fewer closed sets
(`ClosedAntitone`). The set of nodes some source reaches at the end is such a
set, which gives `TaintedSinkReported`. `Justified` bounds the tainted set by the
declarative closure, that of summaries alone until the cross-file pass
(`TaintIsJustified`); `Clean` gives `SanitizersHold`.

Its second half is completeness: each worklist holds all that its fixpoint lacks. A
swept node outside the wave has its successors swept (`Frontier`); tainted nodes whose
successors may be missing are the round's new calls, or those of a pass that has tainted
something (`Flowed`); a call that a summary expands is in `todo` or `next` (`Pending`), and
a call site that another file taints is in `todo` unless the pass is repeated anyway
(`SitesPending`). So an empty worklist leaves a closed set. That the depth bound cuts
nothing uses the finite `Node`: each depth brings a node (`Counted`), and a sweep deeper
than there are nodes has no wave left. With the first half this gives `OrderIndependent`;
with one source, what it reaches is closed, which gives `OneSourceExact`.

`DataflowIndexProofs`. A search keeps two bounds: what it has visited is in every
closed set that holds what it began with (`SearchBelow`), and it misses no successor
of a node it has taken from its queue (`SearchAbove`). With an empty queue the visited
set is the least closed set (`AnswersAreExact`), so that a cached set is the same
whichever thread stores it (`CacheIsExact`, `CacheEntriesStay`). Forward and backward
answers agree because the complement of what reaches a node is closed
(`DirectionsAlwaysAgree`); `NullInv` is the same argument for the marking of nulls
(`NullsAreExact`).

`IncrementalIdsProofs`. `IdsInv` has a `GoodTree` in memory and on disk: entries well
made, the ids of different entries apart, none deleted, all below the next one. An entry
that reuses an old one gets ids of it or new ones, and keeps an id only where the text is
the same (`ReuseFacts`). Trees are built entry by entry and no old entry is matched twice;
`Partial` says what holds of the first k entries, and `Recursion` turns the recursive
functions of `StableIds` into an induction over the file, by the well-foundedness of `<`
instead of the library's induction theorems. `RebuiltTree` and `TargetedTree` conclude for
the two ways of updating; the latter needs that the ids swept away are those of no entry
left. Every operation then keeps `IdsInv` (`IdsStep`), which gives `IdsStayDistinct` and
`TreeFollowsSource`. For `IdsStayStable` the same step shows `Stable`: `IdsInv` alone says
nothing of two trees. Nothing is assumed of files or edits, except that
`TreeFollowsSource` is about languages with closing tokens.

`IncrementalCpgProofs`. Three invariants, each on top of the one before, say what is kept
between updates: the call graph is live, in the generator and in the file it was saved in
(`CallsInv`), the cached calls are those of the tree (`CacheInv`), and the edges are fresh
(`FlowsInv`, again with the file). A function that the update does not look at is the same in both trees
(`TargetedScope`, `SameBut`), so that replacing the entries of the others is as good as a
fresh build (`MergedIsLive`, `CacheMerged`, `FlowsMerged`). That a kept entry has no call to a
function that is gone is the point of the transitive callers: their closure has every
caller of what it holds (`ClosureFacts`). `FlowsInv` also needs that a function which keeps
its id keeps its name, also one whose end grows (`NamesFollow`), as a call resolves by name.

Its fourth invariant is `BlocksInv`: each function is annotated with a block of its own,
which has its calls that do not return, and the next block number is above all. Both orders
in which functions get blocks name each of them once (`FileOrderEnumerates`,
`ByIdEnumerates`, with `Flattened` for what a concatenation has and `AfterAll` for the
counting); numbers from the next one on are taken by no function (`Free`), so new blocks
overwrite none that stays (`BlocksMerged`).

The hypotheses of these two modules are where the code is right, and the section on
departures says what goes wrong elsewhere. Functions are at the top level and an edit
swallows nothing: methods of an overlapped class, and functions swallowed by the text of an
edit, are not looked at again. There is no `parse_lightweight`, which leaves the caches
empty (`CallGraphStaysLive` allows it). `FlowsStayFresh` has functions that are
`function_definition` nodes; `CfgStaysFresh` has no declarations of functions that do not
return. The `incremental` run is an instance, with `ExtendLast` and reloads; its cfg
checks the same four invariants.

`CfgProofs`. Theorems for every graph, whether a builder makes it or not. Paths are avoided: b
is on a route from a when every closed set with a has b (`Route`), and that is what the rounds
of `LedTo` compute (`LedToRoutes`, by counting: a round that adds nothing ends it, and there
are only so many blocks). Of `compute_cfg_sccs`: a block
left by the first pass that leads to one not yet left is in the component of one on the stack
(`Pending1`), so that of a component which leads to another some block is left after all of
the other (`LeftLater`); what the second pass takes up is therefore one component at a time,
backwards along the arcs (`Backwards`, `Gathered`), each before those it leads to
(`Components`); the third only arranges their blocks (`Arranged`). Of `tarjan_sccs`: on the stack, a lower
block leads to each higher one and every block leads to an open one no higher (`Ways`);
`lowlink` is the number of a block that the open one leads to, and is as small as
what has been looked at allows (`Lows`). A block left with its own number as lowlink
therefore closes off what is above it, so the components lead to each other in the order found (`Found`):
`ComponentsAreRight` and `ReachNeverPanics` are this, and `United`, that the sets joined so far
are what their members lead to, gives `ReachIsCorrect`. Of `DomTree::compute`: the calls of
`dfs_postorder` are a path (`Callers`), so each block but the entry comes after one of its
predecessors (`Orders`), and a pass always finds a processed one that is earlier
(`EarlierProcessed`). What every path to a block goes through is on every path to its
predecessors (`ForcedBefore`) and to the block above it in the tree (`Climbs`). The block
`intersect` leaves is later than the one it is compared with, so it is on no such path to
that one (`NotLater`): no dominator is lost on the way up (`Meets`). That is one half of
`DominatorsAreRight`, and holds in every pass; the other half needs the last one, which
changed nothing: the block above each is then above all its predecessors (`Passed`), so the
blocks that a given one is not above are closed under the arcs that do not leave it
(`OverIsForced`). `ClimbingAlwaysEnds` is for the inner loops and `DominatorsRise` for the
outer one: a block's dominator only changes to an earlier one, and a pass that changes none
is the last. It needs that what is above all processed predecessors of a block is above the
block above it (`Nearest`), also after a block b further up has been moved. The only danger
is a block whose way up came by b when its predecessors' no longer do; but in the order of a
pass its earlier predecessor has not been visited since, so its way still comes by b too
(`Forward`, `AboveStays`). The run checks `SccsInOrder`, and through `ReachIsExecution` and
`DominanceIsExecution` the results of the two `compute`, on the graphs of its 225 functions.

`GuardsProofs`. What holds of a tree is shown from the operands up (`BottomUp`, by the
greatest depth) or along a path from the condition down to a test (`Step`, `FromTo`):
parentheses keep a value (`ParensKeepValue`); an outcome that decides a test is the test's
(`DecidedTruth`); below a bare truthiness test there is no comparison (`NoComparison`),
so the two halves of `excludes_zero` exclude each other. The search of the condition is a
total order of paths (`SearchIsOrder`, `SearchTransitive`), hence finds an occurrence
when there is one. `ReadRight` has the mirroring and negation of operators, `SideValue` the
constants added to the value; `ComparisonSays` joins them: with the outcome that leads to
the target, value and bound are related as the analysis reads them, and without `&&` and
`||` that is all the condition says. The invariant of a run (`RunInv`) only keeps what the
analysis answered and what the condition was. From there `ZeroStaysExcluded` and
`ValueStaysBounded` are arithmetic, for any width, tree, constant and capacity.
`SingleTestsStayExact` is the converse for variables that take every integer: a finite set
of values may lack the counterexample. The hypothesis `NothingOverflows` is about programs
whose target the condition leads to and whose casts change no value (`CastsHold`): the
constants in them are computed with + - and / and
fit the folder's integers. The folder then follows the program (`FoldingFollows`); beyond it a
wrapped bound is wrong. TLC evaluates the hypothesis on the instance of the `guards` run.
`ValueStaysBounded` also takes `CapacityIsExtent`, which that run checks.

Only model-checked:
- liveness (`TasksEnd`, `Terminates`, `QuestionsAnswered`), which under fairness is beyond
  the prover;
- `ControlFlow` (but for `SccsInOrder`) and `Dataflow`: builders and reference are RECURSIVE operators over syntax
  trees, which the prover cannot unfold, and what they compute for every tree is an
  induction over data. `ReachIsExecution` and `DominanceIsExecution` rest on `ReachIsExact`
  and `DominatorsAreExact`, proved for every graph, and on the graph being right, which is
  checked;
- `FoldingIsExact` and `CapacityIsExtent`: what the recorded values and extents are is data
  of the cases, and shifts, powers and bits are beyond the prover;
- `Queries`, whose meaning and evaluation are recursions over expressions.

## Not modelled

Lifter, type inference and anonymizer: tables and annotation passes without state. Node
texts, macro expansion and the header cache of the CPG generator. Dispatch through
function pointers and virtual methods, callbacks and function summaries of the call
graph builder. `inject_function_cpg_data`, `bootstrap_from_state`, macro aliases and errors
of the incremental generator. Alias sets by field, string values of the folder, the
shortest path of a finding. Inline assembly, `fallthrough` of Go and a `case` outside a
switch. Characters, strings, regular expressions and message templates of rule files; spans, pools and
reports of the profiler; discovery, options, progress, output and exit code of the
scanner; renderings. tree-sitter is external.

What is worth doing next: the call graph's dispatch; the scanner's pipeline as an
implementation of `ScanContract`; the composition of `Workspace` with `TaintExpansion` in
which edges come from the workspace; `CallGraphStaysLive` with classes, for edits that
overlap none.
