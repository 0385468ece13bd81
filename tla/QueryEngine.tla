------------------------------ MODULE QueryEngine ------------------------------
(***************************************************************************)
(* The evaluation of rule sets over the graph of one file:                 *)
(* web-ql/src/engine.rs with the indexes of web-ql/src/kind_index.rs and   *)
(* the environments of web-ql/src/ir.rs.                                   *)
(*                                                                         *)
(* A graph is a record: its nodes 1 .. Len(node), each with its kind, raw  *)
(* type, children, parent and function (0 for none), attributes and        *)
(* metadata; its direct dataflow `flows`; its call sites; and the answers  *)
(* of the analyses that other modules describe: `cfg` (CfgAnalysis) and    *)
(* `facts` (Symbolic, Sizes, Guards, DataflowIndex).  An environment maps  *)
(* variables to values; a value is <<sort, datum>>.                        *)
(*                                                                         *)
(* Evaluating a condition has three outcomes: "true", "false", and "over"  *)
(* for a recursion that comes back to the same call, which never returns.  *)
(***************************************************************************)
EXTENDS RulePlanner, FiniteSets, FiniteSetsExt

CONSTANT IntHalf   \* half the range of the evaluator's integers: 2^63

ASSUME IntHalfAssumption == IntHalf \in Nat \ {0}

Null == <<"null", 0>>
NodeVal(n) == <<"node", n>>
Str(s) == <<"str", s>>
Int_(i) == <<"int", i>>
Bool(b) == <<"bool", b>>
NodeOr(n) == IF n = 0 THEN Null ELSE NodeVal(n)

Truth(b) == IF b THEN "true" ELSE "false"
Negation(t) == CASE t = "true" -> "false" [] t = "false" -> "true" [] OTHER -> t

-----------------------------------------------------------------------------
(* The indexes of a file.                                                  *)

Nodes(g) == DOMAIN g.node

\* The nodes of a set in the order of their ids, which is that of the index lists.
InOrder(s) == [i \in 1 .. Cardinality(s) |-> CHOOSE n \in s : Cardinality({m \in s : m <= n}) = i]

RECURSIVE Closure(_, _)
\* What a set reaches along `next`, itself included.
Closure(next, s) ==
  LET t == s \cup UNION {next[n] : n \in s} IN IF t = s THEN s ELSE Closure(next, t)

\* ast_subtree, reachable_from, and the buckets of KindIndex::build, once per file
Indexed(g) ==
  LET ids == DOMAIN g.node
      kids == [n \in ids |-> {g.node[n].kids[i] : i \in DOMAIN g.node[n].kids}]
      next == [n \in ids |-> {e[2] : e \in {f \in g.flows : f[1] = n}}]
  IN [subtree |-> [n \in ids |-> Closure(kids, {n})], reach |-> [n \in ids |-> Closure(next, {n})]] @@ g

\* expand_type: the kinds of an alias; none for a raw type or a name.
Kinds(ty) ==
  IF ty[1] # "alias" THEN {}
  ELSE CASE ty[2] = "Node" -> {"MethodDef", "ParamDef", "LocalDef", "FieldDef", "Block", "Conditional", "Call", "Identifier", "Literal", "Unknown"}
         [] ty[2] = "Expr" -> {"Call", "Identifier", "Literal"}
         [] ty[2] = "Decl" -> {"MethodDef", "ParamDef", "LocalDef", "FieldDef"}
         [] ty[2] = "Stmt" -> {"Block", "Conditional"}
         [] OTHER -> {ty[2]}

\* nodes_of_kinds: without a kind, every node
OfKinds(g, kinds) == InOrder({n \in Nodes(g) : kinds = {} \/ g.node[n].kind \in kinds})

\* candidates_for_binding: a raw type selects by the type of the syntax tree.
Candidates(g, ty) ==
  IF ty[1] = "raw" THEN InOrder({n \in Nodes(g) : g.node[n].raw = ty[2]}) ELSE OfKinds(g, Kinds(ty))

-----------------------------------------------------------------------------
(* Comparisons.                                                            *)

\* values_equal: values of different sorts differ, and so do two lists.
Same(x, y) == x[1] = y[1] /\ x[1] \in {"str", "int", "bool", "node", "null"} /\ x[2] = y[2]

\* numeric_cmp: the difference, which wraps in a release build (a debug build aborts).
Difference(x, y) == ((x[2] - y[2] + IntHalf) % (2 * IntHalf)) - IntHalf

\* str::contains
HasSubstring(s, t) == \E i \in 1 .. Len(s) - Len(t) + 1 : SubSeq(s, i, i + Len(t) - 1) = t

\* `in`: an element of a list, or a part of a string.
Within(x, y) ==
  \/ y[1] = "list" /\ \E i \in DOMAIN y[2] : Same(x, y[2][i])
  \/ y[1] = "str" /\ x[1] = "str" /\ HasSubstring(y[2], x[2])

\* compare_values; the order relations hold between integers only, by the sign of their
\* difference.
Compared(x, rel, y) ==
  LET ints == x[1] = "int" /\ y[1] = "int"
  IN CASE rel = "==" -> Same(x, y)
       [] rel = "!=" -> ~Same(x, y)
       [] rel = "<" -> ints /\ Difference(x, y) < 0
       [] rel = ">" -> ints /\ Difference(x, y) > 0
       [] rel = "<=" -> ints /\ Difference(x, y) <= 0
       [] rel = ">=" -> ints /\ Difference(x, y) >= 0
       [] rel = "in" -> Within(x, y)

-----------------------------------------------------------------------------
(* Methods of nodes.                                                       *)

\* What a node has of an attribute (name, text, line, lit_kind, ...), or Null.
Attribute(g, n, a) ==
  CASE a = "kind" -> Str(g.node[n].kind)
    [] a = "raw_kind" -> Str(g.node[n].raw)
    [] OTHER -> IF a \in DOMAIN g.node[n].attr THEN g.node[n].attr[a] ELSE Null

\* Flags that a node without them does not have.
Flags == {"is_constructor", "is_destructor", "is_virtual"}

\* What an analysis answers about a node, Null where it has no answer.
Fact(g, n, m) == IF n \in DOMAIN g.facts[m] THEN g.facts[m][n] ELSE Null

\* eval_meta_field: the field of the metadata of a language, Null without the metadata.
MetaField(g, n, ns, field) ==
  IF ns \in DOMAIN g.node[n].meta /\ field \in DOMAIN g.node[n].meta[ns] THEN g.node[n].meta[ns][field] ELSE Null

RECURSIVE AncestorMatch(_, _, _), Ancestor(_, _, _), FirstBelow(_, _, _)

\* ancestor_id_match: the parent links above n meet the target.
AncestorMatch(g, n, target) ==
  LET p == g.node[n].parent IN p # 0 /\ (p = target \/ AncestorMatch(g, p, target))

\* A node matches a type filter by its raw type or its kind, in lower case; the filters of the
\* model are kinds, or raw types.
FilterMatches(g, n, filter) == filter = Null \/ filter \in {Str(g.node[n].raw), Str(g.node[n].kind)}

\* find_ancestor
Ancestor(g, n, filter) ==
  LET p == g.node[n].parent
  IN IF p = 0 THEN Null ELSE IF FilterMatches(g, p, filter) THEN NodeVal(p) ELSE Ancestor(g, p, filter)

\* find_descendant: breadth first, by levels
FirstBelow(g, level, filter) ==
  LET hits == SelectSeq(level, LAMBDA n : FilterMatches(g, n, filter))
      RECURSIVE Below(_)
      Below(s) == IF s = <<>> THEN <<>> ELSE g.node[s[1]].kids \o Below(Tail(s))
  IN IF level = <<>> THEN Null ELSE IF hits # <<>> THEN NodeVal(hits[1]) ELSE FirstBelow(g, Below(level), filter)

Index(v) == IF v[1] = "int" THEN v[2] ELSE 0
At(s, i) == IF i + 1 \in DOMAIN s THEN NodeVal(s[i + 1]) ELSE Null

\* arg: in the first list of arguments that has it, else among the children of the call
Argument(g, n, i) ==
  LET kids == g.node[n].kids
      lists == SelectSeq(kids, LAMBDA k : g.node[k].raw \in {"argument_list", "arguments"}
                                          /\ i + 1 \in DOMAIN g.node[k].kids)
  IN IF lists # <<>> THEN At(g.node[lists[1]].kids, i) ELSE At(kids, i)

RECURSIVE Parameters(_, _)
\* collect_param_nodes: of the list of parameters, which C nests in the declarator; `(void)` is
\* none.
Parameters(g, kids) ==
  IF kids = <<>> THEN <<>>
  ELSE LET k == kids[1]
           of == CASE g.node[k].kind = "ParamDef" -> IF "void" \in DOMAIN g.node[k].attr THEN <<>> ELSE <<k>>
                   [] g.node[k].raw \in {"parameter_list", "formal_parameters", "parameters", "function_declarator"} ->
                        Parameters(g, g.node[k].kids)
                   [] OTHER -> <<>>
       IN of \o Parameters(g, Tail(kids))

RECURSIVE EnclosingCondition(_, _, _)
\* find_enclosing_condition: the condition (the first child, in the model) of the nearest
\* branch at or above n
EnclosingCondition(g, n, kinds) ==
  CASE n = 0 -> Null
    [] n # 0 /\ g.node[n].kind \in kinds -> At(g.node[n].kids, 0)
    [] OTHER -> EnclosingCondition(g, g.node[n].parent, kinds)

\* What a declaration declares: its name, or its text when it has none (as an init_declarator).
DeclaredName(g, d) ==
  IF Attribute(g, d, "name") # Null THEN Attribute(g, d, "name") ELSE Attribute(g, d, "text")

\* resolve_var_declaration: a declaration of that name in the function, else the first
Declaration(g, n) ==
  LET text == Attribute(g, n, "text")
      all == {d \in Nodes(g) : g.node[d].kind \in {"LocalDef", "ParamDef", "FieldDef"}
                               /\ text # Null /\ DeclaredName(g, d) = text}
      own == {d \in all : g.node[n].fn # 0 /\ g.node[d].fn = g.node[n].fn}
  IN IF g.node[n].kind # "Identifier" \/ all = {} THEN Null
     ELSE NodeVal(IF own # {} THEN Min(own) ELSE Min(all))

\* callee_name: of the call site, else the name of the node
CalleeName(g, n) == IF n \in DOMAIN g.sites THEN Str(g.sites[n].callee) ELSE Attribute(g, n, "name")

\* A test of one node against another, or against the nodes of a type.
HasAncestor(g, n, arg) == IF arg[1] = "node" THEN AncestorMatch(g, n, arg[2]) ELSE Ancestor(g, n, arg) # Null
HasDescendant(g, n, arg) ==
  IF arg[1] = "node" THEN AncestorMatch(g, arg[2], n) ELSE FirstBelow(g, g.node[n].kids, arg) # Null

\* eval_method_step, tree navigation and calls
Method(g, n, m, args) ==
  LET arg == IF args = <<>> THEN Null ELSE args[1]
      filter == IF arg[1] = "str" THEN arg ELSE Null
  IN CASE m \in {"is_some", "is_none"} -> Bool(m = "is_some")
       [] m \in {"id", "return_value"} -> NodeVal(n)
       [] m = "parent" -> NodeOr(g.node[n].parent)
       [] m = "function_id" -> NodeOr(g.node[n].fn)
       [] m = "child" -> At(g.node[n].kids, Index(arg))
       [] m \in {"children", "receiver"} -> At(g.node[n].kids, 0)
       [] m = "ancestor" -> Ancestor(g, n, filter)
       [] m = "descendant" -> FirstBelow(g, g.node[n].kids, filter)
       [] m = "has_ancestor" -> Bool(HasAncestor(g, n, arg))
       [] m = "has_descendant" -> Bool(HasDescendant(g, n, arg))
       [] m = "arg" -> Argument(g, n, Index(arg))
       [] m = "has_arg" -> Bool(\E i \in DOMAIN g.node[n].kids : NodeVal(g.node[n].kids[i]) = arg)
       [] m = "param" -> At(Parameters(g, g.node[n].kids), Index(arg))
       [] m = "param_count" -> Int_(Len(Parameters(g, g.node[n].kids)))
       [] m = "callee_name" -> CalleeName(g, n)
       [] m = "refers_to" -> IF n \in DOMAIN g.sites /\ g.sites[n].target # 0
                             THEN NodeVal(g.sites[n].target) ELSE Declaration(g, n)
       [] m = "branch_condition" -> EnclosingCondition(g, n, {"Conditional", "Switch"})
       [] m = "loop_condition" -> EnclosingCondition(g, n, {"Loop"})
       [] m = "cpp_meta" -> <<"meta", <<n, "cpp">>>>
       [] m \in DOMAIN g.facts -> Fact(g, n, m)
       [] m \in Flags -> Bool(m \in DOMAIN g.node[n].attr)
       [] OTHER -> Attribute(g, n, m)

RECURSIVE Value(_, _, _)
\* eval_plan_expr: an unbound variable is Null, and so is a method of anything but a node.
Value(g, e, env) ==
  CASE e.op = "ident" -> IF e.name \in DOMAIN env THEN env[e.name] ELSE Null
    [] e.op = "lit" -> e.val
    [] e.op = "paren" -> Value(g, e.a, env)
    [] e.op = "compare" -> Bool(Compared(Value(g, e.lhs, env), e.rel, Value(g, e.rhs, env)))
    [] e.op = "step" ->
         LET of == Value(g, e.of, env)
         IN CASE of[1] = "node" -> Method(g, of[2], e.m, [i \in DOMAIN e.args |-> Value(g, e.args[i], env)])
              [] of[1] = "meta" -> MetaField(g, of[2][1], of[2][2], e.m)
              [] OTHER -> Null

-----------------------------------------------------------------------------
(* Relational predicates.                                                  *)

\* DirectFlow and ReachesFlow: between the nodes, or the nodes below them
Flows(g, m, from, to) ==
  LET next(f) == IF m = "dfg_reaches" THEN g.reach[f] ELSE {e[2] : e \in {x \in g.flows : x[1] = f}}
  IN to \in next(from) \/ \E f \in g.subtree[from] : \E r \in next(f) : r \in g.subtree[to] /\ r # from

\* DfgDef and DfgUse: by the node or one below it
Touches(g, m, n, var) == \E d \in g.subtree[n] : d \in DOMAIN g.vars[m] /\ var \in g.vars[m][d]

\* eval_cfg_predicate and with_cfg_for_node: by the control flow of the function of the receiver
ControlFlow(g, m, ns) ==
  CASE m = "same_function" -> g.node[ns[1]].fn # 0 /\ g.node[ns[1]].fn = g.node[ns[2]].fn
    [] OTHER -> g.node[ns[1]].fn # 0 /\ m \in DOMAIN g.cfg /\ ns \in g.cfg[m]

\* A variable that is not bound to a node makes the predicate false.
Related(g, e, env) ==
  LET bound(x) == x.op = "ident" /\ x.name \in DOMAIN env /\ env[x.name][1] = "node"
      node(x) == env[x.name][2]
  IN CASE e.m \in {"dfg_def", "dfg_use"} ->
            bound(e.of) /\ Touches(g, e.m, node(e.of), IF e.args[1].op = "lit" THEN e.args[1].val[2] ELSE e.args[1].name)
       [] e.m \in {"dfg_reaches", "dfg_flows_to"} ->
            bound(e.of) /\ bound(e.args[1]) /\ Flows(g, e.m, node(e.of), node(e.args[1]))
       [] OTHER ->
            /\ bound(e.of) /\ \A i \in DOMAIN e.args : bound(e.args[i])
            /\ ControlFlow(g, e.m, <<node(e.of)>> \o [i \in DOMAIN e.args |-> node(e.args[i])])

\* eval_matches_pattern: the type, then the fields; a name in the place of a type matches.
MatchesPattern(g, e, env) ==
  LET v == Value(g, e.of, env)
  IN /\ v[1] = "node"
     /\ CASE e.ty[1] = "raw" -> g.node[v[2]].raw = e.ty[2]
          [] e.ty[1] = "alias" -> g.node[v[2]].kind \in Kinds(e.ty)
          [] OTHER -> TRUE
     /\ \A i \in DOMAIN e.fields : Same(Attribute(g, v[2], e.fields[i].field), Value(g, e.fields[i].is, env))

-----------------------------------------------------------------------------
(* Conditions.                                                             *)

\* lit_is_truthy
Truthy(v) == CASE v[1] = "bool" -> v[2] [] v[1] = "null" -> FALSE [] v[1] = "int" -> v[2] # 0 [] OTHER -> TRUE

\* The environment of a predicate call: the caller's, with the parameters bound by position.
Arguments(g, params, args, env) ==
  LET name(i) == IF i \in DOMAIN params THEN params[i].name ELSE "__arg"
      val(i) == LET v == Value(g, args[i], env) IN IF v[1] \in {"node", "str", "int", "bool"} THEN v ELSE Null
  IN [p \in {name(i) : i \in DOMAIN args} |-> val(CHOOSE i \in DOMAIN args : name(i) = p /\ \A j \in DOMAIN args : name(j) = p => j <= i)]
     @@ env

\* A call that is under way already with the same environment never returns.
Entered(name, in, calls, Body(_, _)) ==
  IF <<name, in>> \in calls THEN "over" ELSE Body(in, calls \cup {<<name, in>>})

RECURSIVE Eval(_, _, _, _, _)
\* eval_plan; `calls` are the predicate calls under way.
Eval(preds, g, e, env, calls) ==
  CASE e.op = "paren" -> Eval(preds, g, e.a, env, calls)
    [] e.op = "and" -> LET l == Eval(preds, g, e.a, env, calls) IN IF l = "true" THEN Eval(preds, g, e.b, env, calls) ELSE l
    [] e.op = "or" -> LET l == Eval(preds, g, e.a, env, calls) IN IF l = "false" THEN Eval(preds, g, e.b, env, calls) ELSE l
    [] e.op = "not" -> Negation(Eval(preds, g, e.a, env, calls))
    [] e.op \in {"exists", "forall"} ->
         \* over the kinds of the type, up to the first witness or the first exception
         LET cs == OfKinds(g, Kinds(e.ty))
             of == [i \in DOMAIN cs |-> Eval(preds, g, e.body, Bind(env, e.var, NodeVal(cs[i])), calls)]
             none == Truth(e.op = "forall")
             hits == {i \in DOMAIN cs : of[i] # none}
         IN IF hits = {} THEN none ELSE of[Min(hits)]
    [] e.op = "let" ->
         LET v == Value(g, e.bind, env)
         IN IF v[1] = "node" THEN Eval(preds, g, e.body, Bind(env, e.var, v), calls) ELSE "false"
    [] e.op = "lit" -> Truth(Truthy(e.val))
    [] e.op = "ident" -> Truth(e.name \in DOMAIN env /\ env[e.name][1] = "node")
    [] e.op = "compare" -> Truth(Compared(Value(g, e.lhs, env), e.rel, Value(g, e.rhs, env)))
    [] e.op = "matches" -> Truth(MatchesPattern(g, e, env))
    [] e.op = "step" -> Truth(IF IsRelational(e) THEN Related(g, e, env) ELSE Value(g, e, env) = Bool(TRUE))
    [] e.op = "call" ->
         IF e.name \notin DOMAIN preds THEN "false"
         ELSE Entered(e.name, Arguments(g, preds[e.name].params, e.args, env), calls, LAMBDA in, under :
                Eval(preds, g, preds[e.name].body, in, under))

-----------------------------------------------------------------------------
(* Searches.                                                               *)

RECURSIVE Product(_, _, _)
\* The environments of a list of bindings, in the order of the nested loops.
Product(g, binds, envs) ==
  IF binds = <<>> THEN envs
  ELSE LET cs == Candidates(g, binds[1].ty)
           k == Len(cs)
           next == [i \in 1 .. Len(envs) * k |->
                      Bind(envs[(i - 1) \div k + 1], binds[1].name, NodeVal(cs[((i - 1) % k) + 1]))]
       IN Product(g, Tail(binds), next)

\* The environments for which a condition is true.
Selected(envs, Of(_)) ==
  LET of == [i \in DOMAIN envs |-> Of(envs[i])]
      hits == InOrder({i \in DOMAIN envs : of[i] = "true"})
  IN [over |-> \E i \in DOMAIN envs : of[i] = "over", envs |-> [k \in DOMAIN hits |-> envs[hits[k]]]]

\* eval_search: the condition is evaluated once all bindings are bound.
Search(preds, g, f) ==
  Selected(Product(g, f.binds, <<<<>>>>), LAMBDA env : Eval(preds, g, f.cond, env, {}))

\* The nodes that the bindings of a definition found.
Nodes_(s, binds) ==
  [over |-> s.over, nodes |-> {s.envs[i][binds[j].name][2] : i \in DOMAIN s.envs, j \in DOMAIN binds}]

\* resolve_one: a definition of the rule files goes before the builtin set of the name.
Endpoint(preds, g, plans, builtin, n) ==
  IF n \in DOMAIN plans THEN Nodes_(Search(preds, g, plans[n]), plans[n].binds)
  ELSE [over |-> FALSE, nodes |-> IF n \in DOMAIN builtin THEN builtin[n] ELSE {}]

Listed(clause, section) == {clause[section][i] : i \in DOMAIN clause[section]}
Sections == {"sources", "sinks", "sanitizers"}

\* The section that a name is registered from, when several list it: the last.
RegisteredFrom(clause, n) ==
  CASE n \in Listed(clause, "sanitizers") -> "sanitizers"
    [] n \in Listed(clause, "sinks") \ Listed(clause, "sanitizers") -> "sinks"
    [] OTHER -> "sources"

\* build_taint_registry: one table for the endpoints of all three sections
Registry(preds, g, rs, builtin, clause) ==
  [n \in UNION {Listed(clause, s) : s \in Sections} |-> Endpoint(preds, g, rs[RegisteredFrom(clause, n)], builtin, n)]

\* The nodes that the taint engine starts from, looks for and stops at.
Endpoints(registry, clause) ==
  [over |-> \E n \in DOMAIN registry : registry[n].over,
   ends |-> [s \in Sections |-> UNION {registry[n].nodes : n \in Listed(clause, s)}]]

\* rule_applies_to_language
Applies(rule, g) == rule.langs # <<>> => \E i \in DOMAIN rule.langs[1] : rule.langs[1][i] = g.lang

=============================================================================
