------------------------------- MODULE Queries -------------------------------
(***************************************************************************)
(* The life of a query: the rule files of a directory are read in the      *)
(* order of the directory, merged, and their rules evaluated over the      *)
(* graph of a file, web-scan/src/main.rs with web-ql/src/loader.rs and     *)
(* web-ql/src/engine.rs.  The rules run in parallel and share nothing but  *)
(* the graph; a recursion without end takes the process down.              *)
(***************************************************************************)
EXTENDS QueryMeaning

CONSTANTS
  Directories, \* the directories of rule files: sequences of files
  Graph        \* the graph of the scanned file

VARIABLES
  files,       \* the directory of this scan
  unread,      \* the files that are not read yet
  status,      \* "loading", "running", "done", "failed" (to load) or "crashed"
  ruleset,     \* the rule sets of the files read so far, merged
  found        \* of each rule, the results of its clauses so far

Indexes == Indexed(Graph)

vars == <<files, unread, status, ruleset, found>>

Init ==
  /\ files \in Directories
  /\ unread = DOMAIN files
  /\ status = "loading"
  /\ ruleset = NoRules
  /\ found = <<>>

\* load_rules_dir: the first file that is refused ends the scan.
ReadFile(f) ==
  /\ status = "loading" /\ f \in unread
  /\ \E set \in {CompileFile(FileText(files[f]))} :
       IF set.ok
       THEN ruleset' = Merge(ruleset, set) /\ status' = status
       ELSE ruleset' = ruleset /\ status' = "failed"
  /\ unread' = unread \ {f}
  /\ UNCHANGED <<files, found>>

\* load_all_rules: a directory without rules is refused.
Loaded ==
  /\ status = "loading" /\ unread = {}
  /\ status' = IF ruleset.rules = <<>> THEN "failed" ELSE "running"
  /\ found' = [r \in DOMAIN ruleset.rules |-> <<>>]
  /\ UNCHANGED <<files, unread, ruleset>>

\* The next clause of a rule: its matches, or the endpoints handed to the taint engine.
ClauseResult(clause) ==
  IF clause.clause = "search" THEN Search(ruleset.preds, Indexes, clause)
  ELSE Endpoints(Registry(ruleset.preds, Indexes, ruleset, Graph.builtin, clause), clause)

Todo(r) == Applies(ruleset.rules[r], Graph) /\ Len(found[r]) < Len(ruleset.rules[r].clauses)

EvalClause(r) ==
  /\ status = "running" /\ Todo(r)
  /\ \E result \in {ClauseResult(ruleset.rules[r].clauses[Len(found[r]) + 1])} :
       IF result.over THEN status' = "crashed" /\ found' = found
       ELSE status' = status /\ found' = [found EXCEPT ![r] = Append(@, result)]
  /\ UNCHANGED <<files, unread, ruleset>>

Finish ==
  /\ status = "running" /\ \A r \in DOMAIN ruleset.rules : ~Todo(r)
  /\ status' = "done"
  /\ UNCHANGED <<files, unread, ruleset, found>>

Next ==
  \/ \E f \in unread : ReadFile(f)
  \/ Loaded
  \/ \E r \in DOMAIN found : EvalClause(r)
  \/ Finish

Spec == Init /\ [][Next]_vars

-----------------------------------------------------------------------------
(* Properties.                                                             *)

\* The rule a result belongs to, as its author wrote it.
Author(r) ==
  CHOOSE a \in {<<f, i>> : f \in DOMAIN files, i \in 1 .. 9} :
    /\ a[2] \in DOMAIN files[a[1]] /\ files[a[1]][a[2]].item = "rule"
    /\ files[a[1]][a[2]].id = ruleset.rules[r].id

Outcome(r) == [file |-> files[Author(r)[1]], clauses |-> files[Author(r)[1]][Author(r)[2]].clauses]

Elements(s) == {s[i] : i \in DOMAIN s}
IsAnswered(r) ==
  \A c \in DOMAIN found[r] :
    Outcome(r).clauses[c].clause = "search" =>
      /\ Elements(found[r][c].envs) = Answers(Outcome(r).file, Graph, Outcome(r).clauses[c])
      /\ Len(found[r][c].envs) = Cardinality(Elements(found[r][c].envs))

\* The matches of a search are the assignments that satisfy the condition its author wrote,
\* each once: whatever order the directory is read in, however the text has to be taken apart,
\* through predicates that are called by position, call themselves and reuse the names of
\* their caller.  Asked where every name of the directory is defined once and every definition
\* is closed; the integers of the instances are less than IntHalf apart, so that the difference
\* by which numeric_cmp compares them does not wrap.
FindingsAreAnswers ==
  DefinedOnce(files) /\ (\A f \in DOMAIN files : \A i \in DOMAIN files[f] :
                                files[f][i].item # "rule" => DefinitionClosed(files[f], files[f][i]))
  => \A r \in DOMAIN found : IsAnswered(r)

\* A predicate means its definition in the file that calls it, also when another file of the
\* directory defines the name: docs/web-ql.md says that predicates are inlined at call sites
\* during planning, which is done file by file.
PredicatesAreInlined ==
  (\A f \in DOMAIN files : \A i \in DOMAIN files[f] :
     files[f][i].item # "rule" => DefinitionClosed(files[f], files[f][i]))
  => \A r \in DOMAIN found : IsAnswered(r)

\* The nodes that a name of a taint clause stands for: those its definition finds, in whichever
\* file it stands, else the builtin ones.
Stands(section, n) ==
  LET kind == CASE section = "sources" -> "source" [] section = "sinks" -> "sink" [] OTHER -> "sanitizer"
      ds == {<<f, i>> : f \in DOMAIN files, i \in 1 .. 9}
      own == {d \in ds : d[2] \in DOMAIN files[d[1]] /\ files[d[1]][d[2]].item = kind
                         /\ files[d[1]][d[2]].name = n}
  IN IF own = {} THEN IF n \in DOMAIN Graph.builtin THEN Graph.builtin[n] ELSE {}
     ELSE LET d == CHOOSE x \in own : TRUE
              item == files[d[1]][d[2]]
          IN UNION {{env[v][2] : v \in DOMAIN env} : env \in Answers(files[d[1]], Graph, item.alts[1])}

\* The taint engine is handed the nodes that the names of its clause stand for, where a name
\* is defined once and a clause does not list it in two of its sections.
EndpointsAreDefined ==
  DefinedOnce(files) =>
    \A r \in DOMAIN found : \A c \in DOMAIN found[r] :
      LET clause == Outcome(r).clauses[c]
          names(section) == Elements(clause[section])
          all == {"sources", "sinks", "sanitizers"}
      IN clause.clause = "taint" /\ (\A s, t \in all : s # t => names(s) \cap names(t) = {}) =>
           \A s \in all : found[r][c].ends[s] = UNION {Stands(s, n) : n \in names(s)}

RECURSIVE Universally(_)
\* Only methods that every node has are used.
Universally(e) == (e.op = "step" => e.m \in Universal) /\ \A p \in Parts(e) : Universally(p)

\* A directory whose rules run has a rule, and none of its searches meets a variable that is
\* not bound or a call of nothing; conversely a directory is not refused when its searches are
\* closed and use methods that every node has, and its endpoints have one alternative each.
LoadsExactly ==
  LET rules == {<<f, i>> : f \in DOMAIN files, i \in 1 .. 9}
      at(a) == files[a[1]][a[2]]
      of(item) == {a \in rules : a[2] \in DOMAIN files[a[1]] /\ (at(a).item = "rule") = (item = "rule")}
      searches == {<<a, c>> \in of("rule") \X (1 .. 3) : c \in DOMAIN at(a).clauses /\ at(a).clauses[c].clause = "search"}
  IN /\ status \in {"running", "done", "crashed"} =>
          /\ of("rule") # {}
          /\ \A s \in searches :
               LET clause == at(s[1]).clauses[s[2]] file == files[s[1][1]]
               IN /\ Free(clause.cond) \subseteq {clause.binds[i].name : i \in DOMAIN clause.binds}
                  /\ \A c \in Calls(clause.cond) : \E i \in DOMAIN file : file[i].item # "rule" /\ file[i].name = c[1]
     /\ status = "failed" =>
          \/ of("rule") = {}
          \/ \E s \in searches :
               LET clause == at(s[1]).clauses[s[2]]
               IN ~Closed(files[s[1][1]], clause.binds, clause.cond) \/ ~Universally(clause.cond)
          \/ \E a \in of("definition") : at(a).item # "pred" /\ Len(at(a).alts) > 1

=============================================================================
