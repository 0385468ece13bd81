----------------------------- MODULE QueryMeaning -----------------------------
(***************************************************************************)
(* What a query means: the reading that docs/web-ql.md gives of rule       *)
(* files, against which QueryEngine is checked.                            *)
(*                                                                         *)
(* A query is the tree its author intends; Written gives its text, with    *)
(* parentheses where the table of precedences (docs/web-ql.md, "Operator   *)
(* Precedence") asks for them.  A variable means what its nearest binder   *)
(* binds, a predicate the definition in its own file, and the graph is     *)
(* read by its edges alone, not through the indexes of the engine.         *)
(***************************************************************************)
EXTENDS QueryEngine, SequencesExt

-----------------------------------------------------------------------------
(* Texts.                                                                  *)

Strength == [or |-> 1, and |-> 2, not |-> 3, let |-> 0]
StrengthOf(e) == IF e.op \in DOMAIN Strength THEN Strength[e.op] ELSE 4

RECURSIVE Written(_, _)

Bracketed(open, items, close) ==
  <<open>> \o FoldLeft(LAMBDA acc, t : acc \o (IF acc = <<>> THEN <<>> ELSE <<<<",", "">>>>) \o t, <<>>, items) \o <<close>>
P(kind) == <<kind, "">>
Name(n) == <<"ident", n>>
TypeText(ty) ==
  CASE ty[1] = "alias" -> <<<<"type", ty[2]>>>>
    [] ty[1] = "raw" -> <<P("NodeType"), P("("), <<"str", ty[2]>>, P(")")>>
    [] OTHER -> <<Name(ty[2])>>
BindingText(b) == <<Name(b.name), P(":")>> \o TypeText(b.ty)
LiteralText(v) ==
  CASE v[1] = "bool" -> <<P(IF v[2] THEN "true" ELSE "false")>>
    [] v[1] = "list" -> Bracketed(P("["), [i \in DOMAIN v[2] |-> <<v[2][i]>>], P("]"))
    [] v[1] = "null" -> <<P("null")>>
    [] OTHER -> <<v>>
ArgumentsText(args) == Bracketed(P("("), [i \in DOMAIN args |-> Written(args[i], 0)], P(")"))

\* The text of an expression in a place that takes operators of at least this strength.
Written(e, least) ==
  LET text ==
        CASE e.op \in {"or", "and"} -> Written(e.a, StrengthOf(e)) \o <<P(e.op)>> \o Written(e.b, StrengthOf(e) + 1)
          [] e.op = "not" -> <<P("not")>> \o Written(e.a, 3)
          [] e.op = "let" -> <<P("let"), Name(e.var), P("=")>> \o Written(e.bind, 4) \o <<P("in")>> \o Written(e.body, 0)
          [] e.op \in {"exists", "forall"} ->
               <<P(e.op), P("(")>> \o BindingText([name |-> e.var, ty |-> e.ty]) \o <<P("|")>> \o Written(e.body, 0) \o <<P(")")>>
          [] e.op = "compare" -> Written(e.lhs, 4) \o <<P(e.rel)>> \o Written(e.rhs, 4)
          [] e.op = "matches" ->
               Written(e.of, 4) \o <<P("matches")>> \o TypeText(e.ty)
               \o (IF e.fields = <<>> THEN <<>>
                   ELSE Bracketed(P("{"), [i \in DOMAIN e.fields |-> <<Name(e.fields[i].field), P(":")>> \o Written(e.fields[i].is, 0)], P("}")))
          [] e.op = "call" -> <<Name(e.name)>> \o ArgumentsText(e.args)
          [] e.op = "step" -> Written(e.of, 4) \o <<P("."), Name(e.m)>> \o ArgumentsText(e.args)
          [] e.op = "ident" -> <<Name(e.name)>>
          [] e.op = "lit" -> LiteralText(e.val)
  IN IF StrengthOf(e) < least THEN <<P("(")>> \o text \o <<P(")")>> ELSE text

FindText(f) ==
  <<P("find")>> \o Tail(Front(Bracketed(P("("), [i \in DOMAIN f.binds |-> BindingText(f.binds[i])], P(")"))))
  \o (IF f.cond = True THEN <<>> ELSE <<P("where")>> \o Written(f.cond, 0))
NamesText(section, names) == <<P(section), P(":")>> \o Bracketed(P("["), [i \in DOMAIN names |-> <<Name(names[i])>>], P("]"))
ClauseText(c) ==
  IF c.clause = "search" THEN FindText(c)
  ELSE <<P("taint"), P("{")>> \o NamesText("sources", c.sources) \o NamesText("sinks", c.sinks)
       \o NamesText("sanitizers", c.sanitizers) \o <<P("}")>>
Joined(texts) == FoldLeft(LAMBDA acc, t : acc \o t, <<>>, texts)
AlternativesText(alts) == Tail(Joined([i \in DOMAIN alts |-> <<P("or")>> \o FindText(alts[i])]))

ItemText(i) ==
  CASE i.item = "rule" ->
         <<P("rule"), <<"str", i.id>>, P("{")>>
         \o (IF i.langs = <<>> THEN <<>> ELSE NamesText("languages", i.langs[1]))
         \o Joined([k \in DOMAIN i.clauses |-> ClauseText(i.clauses[k])]) \o <<P("}")>>
    [] i.item = "pred" ->
         <<P("pred"), Name(i.name)>> \o Bracketed(P("("), [k \in DOMAIN i.params |-> BindingText(i.params[k])], P(")"))
         \o <<P("=")>> \o Written(i.body, 0)
    [] OTHER ->
         <<P(i.item), Name(i.name)>>
         \o (IF i.params = <<>> THEN <<>> ELSE Bracketed(P("("), [k \in DOMAIN i.params |-> BindingText(i.params[k])], P(")")))
         \o <<P("=")>> \o AlternativesText(i.alts)
FileText(items) == Joined([k \in DOMAIN items |-> ItemText(items[k])])

-----------------------------------------------------------------------------
(* Graphs.                                                                 *)

Children(g, n) == {g.node[n].kids[i] : i \in DOMAIN g.node[n].kids}
ParentOf(g, n) == LET ps == {p \in Nodes(g) : n \in Children(g, p)} IN IF ps = {} THEN 0 ELSE CHOOSE p \in ps : TRUE
RECURSIVE Above(_, _)
Above(g, n) == LET p == ParentOf(g, n) IN IF p = 0 THEN {} ELSE {p} \cup Above(g, p)
Below(g, n) == {m \in Nodes(g) : n \in Above(g, m)} \cup {n}
Nearest(s) == IF s = {} THEN 0 ELSE Max(s)      \* nodes are numbered in preorder

IsOf(g, n, ty) == IF ty[1] = "raw" THEN g.node[n].raw = ty[2] ELSE g.node[n].kind \in Kinds(ty)

\* The arguments of a call are what its list of arguments holds.
ArgumentsOf(g, n) ==
  LET lists == {k \in Children(g, n) : g.node[k].raw \in {"argument_list", "arguments"}}
  IN IF lists = {} THEN <<>> ELSE g.node[CHOOSE l \in lists : TRUE].kids

FunctionOf(g, n) == Nearest({f \in Above(g, n) \cup {n} : g.node[f].kind = "MethodDef"})
Called(g, n) == {f \in Nodes(g) : g.node[f].kind = "MethodDef" /\ g.node[f].attr.name = g.node[g.node[n].kids[1]].attr.text}
Declared(g, n) ==
  LET names(d) == {g.node[d].attr[a] : a \in DOMAIN g.node[d].attr \cap {"name", "text"}}
      all == {d \in Nodes(g) : g.node[d].kind \in {"LocalDef", "ParamDef", "FieldDef"} /\ g.node[n].attr.text \in names(d)}
      local == {d \in all : FunctionOf(g, d) = FunctionOf(g, n)}
  IN IF local # {} THEN local ELSE all

Navigated(g, n, m, args) ==
  CASE m = "parent" -> NodeOr(ParentOf(g, n))
    [] m = "function_id" -> NodeOr(FunctionOf(g, n))
    [] m = "arg" -> LET of == ArgumentsOf(g, n) i == args[1][2] + 1 IN IF i \in DOMAIN of THEN NodeVal(of[i]) ELSE Null
    [] m = "callee_name" -> g.node[g.node[n].kids[1]].attr.text
    [] m = "refers_to" -> LET ds == IF g.node[n].kind = "Call" THEN Called(g, n) ELSE Declared(g, n)
                          IN NodeOr(IF ds = {} THEN 0 ELSE Min(ds))
    [] m = "has_ancestor" -> Bool(IF args[1][1] = "node" THEN args[1][2] \in Above(g, n)
                                  ELSE \E a \in Above(g, n) : args[1] \in {Str(g.node[a].kind), Str(g.node[a].raw)})
    [] m = "has_descendant" -> Bool(args[1][1] = "node" /\ n \in Above(g, args[1][2]))
    [] m = "branch_condition" ->
         LET c == Nearest({a \in Above(g, n) \cup {n} : g.node[a].kind = "Conditional"})
         IN IF c = 0 THEN Null ELSE NodeVal(g.node[c].kids[1])
    [] m = "kind" -> Str(g.node[n].kind)
    [] m = "line" -> g.node[n].attr.line
    [] m = "text" -> IF "text" \in DOMAIN g.node[n].attr THEN g.node[n].attr.text ELSE Null
    [] m = "name" -> IF "name" \in DOMAIN g.node[n].attr THEN g.node[n].attr.name ELSE Null

RECURSIVE Denoted(_, _, _)
Denoted(g, x, env) ==
  CASE x.op = "ident" -> env[x.name]
    [] x.op = "lit" -> x.val
    [] x.op = "step" -> LET of == Denoted(g, x.of, env)
                        IN IF of[1] # "node" THEN Null
                           ELSE Navigated(g, of[2], x.m, [i \in DOMAIN x.args |-> Denoted(g, x.args[i], env)])

RECURSIVE FlowedTo(_, _)
FlowedTo(g, s) ==
  LET t == s \cup {e[2] : e \in {f \in g.flows : f[1] \in s}} IN IF t = s THEN s ELSE FlowedTo(g, t)

\* A value flows from a part of the one to a part of the other.
Relation(g, m, ns) ==
  CASE m = "dfg_reaches" -> FlowedTo(g, {e[2] : e \in {f \in g.flows : f[1] \in Below(g, ns[1])}}) \cap Below(g, ns[2]) # {}
    [] m = "same_function" -> FunctionOf(g, ns[1]) # 0 /\ FunctionOf(g, ns[1]) = FunctionOf(g, ns[2])
    [] OTHER -> ns \in g.cfg[m]

-----------------------------------------------------------------------------
(* Conditions.                                                             *)

Definition(items, n) == items[CHOOSE i \in DOMAIN items : items[i].item # "rule" /\ items[i].name = n]

\* The order of two integers is that of the numbers.
Holds(x, rel, y) ==
  LET ints == x[1] = "int" /\ y[1] = "int"
  IN CASE rel = "<" -> ints /\ x[2] < y[2]
       [] rel = ">" -> ints /\ y[2] < x[2]
       [] rel = "<=" -> ints /\ ~(y[2] < x[2])
       [] rel = ">=" -> ints /\ ~(x[2] < y[2])
       [] OTHER -> Compared(x, rel, y)

RECURSIVE Means(_, _, _, _)
Means(items, g, e, env) ==
  CASE e.op = "and" -> Means(items, g, e.a, env) /\ Means(items, g, e.b, env)
    [] e.op = "or" -> Means(items, g, e.a, env) \/ Means(items, g, e.b, env)
    [] e.op = "not" -> ~Means(items, g, e.a, env)
    [] e.op = "exists" -> \E n \in Nodes(g) : IsOf(g, n, e.ty) /\ Means(items, g, e.body, (e.var :> NodeVal(n)) @@ env)
    [] e.op = "forall" -> \A n \in Nodes(g) : IsOf(g, n, e.ty) => Means(items, g, e.body, (e.var :> NodeVal(n)) @@ env)
    [] e.op = "let" -> LET v == Denoted(g, e.bind, env) IN v[1] = "node" /\ Means(items, g, e.body, (e.var :> v) @@ env)
    [] e.op = "compare" -> Holds(Denoted(g, e.lhs, env), e.rel, Denoted(g, e.rhs, env))
    [] e.op = "matches" -> LET v == Denoted(g, e.of, env)
                           IN /\ v[1] = "node" /\ IsOf(g, v[2], e.ty)
                              /\ \A i \in DOMAIN e.fields : Navigated(g, v[2], e.fields[i].field, <<>>) = Denoted(g, e.fields[i].is, env)
    [] e.op = "lit" -> e.val = Bool(TRUE)
    [] e.op = "ident" -> env[e.name][1] = "node"
    [] e.op = "step" -> IF e.m \in DOMAIN Relational
                        THEN Relation(g, e.m, <<env[e.of.name][2]>> \o [i \in DOMAIN e.args |-> env[e.args[i].name][2]])
                        ELSE Denoted(g, e, env) = Bool(TRUE)
    [] e.op = "call" -> LET d == Definition(items, e.name)
                        IN Means(items, g, d.body, [p \in {d.params[i].name : i \in DOMAIN d.params} |->
                             Denoted(g, e.args[CHOOSE i \in DOMAIN d.params : d.params[i].name = p], env)])

\* The assignments of nodes to the bindings of a search that satisfy its condition.
Answers(items, g, f) ==
  LET names == {f.binds[i].name : i \in DOMAIN f.binds}
  IN {env \in [names -> {NodeVal(n) : n \in Nodes(g)}] :
        /\ \A i \in DOMAIN f.binds : IsOf(g, env[f.binds[i].name][2], f.binds[i].ty)
        /\ Means(items, g, f.cond, env)}

-----------------------------------------------------------------------------
(* Well-formed files.                                                      *)

RECURSIVE Free(_), Calls(_)
Parts(e) ==
  CASE e.op \in {"and", "or"} -> {e.a, e.b}
    [] e.op = "not" -> {e.a}
    [] e.op \in {"exists", "forall"} -> {e.body}
    [] e.op = "let" -> {e.bind, e.body}
    [] e.op = "compare" -> {e.lhs, e.rhs}
    [] e.op = "matches" -> {e.of} \cup {e.fields[i].is : i \in DOMAIN e.fields}
    [] e.op = "call" -> {e.args[i] : i \in DOMAIN e.args}
    [] e.op = "step" -> {e.of} \cup {e.args[i] : i \in DOMAIN e.args}
    [] OTHER -> {}

\* The variables an expression takes from outside, and the predicates it calls with the number
\* of their arguments.
Free(e) ==
  CASE e.op = "ident" -> {e.name}
    [] e.op \in {"exists", "forall"} -> Free(e.body) \ {e.var}
    [] e.op = "let" -> Free(e.bind) \cup (Free(e.body) \ {e.var})
    [] OTHER -> UNION {Free(p) : p \in Parts(e)}
Calls(e) == (IF e.op = "call" THEN {<<e.name, Len(e.args)>>} ELSE {}) \cup UNION {Calls(p) : p \in Parts(e)}

Closed(items, binds, e) ==
  /\ Free(e) \subseteq {binds[i].name : i \in DOMAIN binds}
  /\ \A c \in Calls(e) : \E i \in DOMAIN items :
       items[i].item = "pred" /\ items[i].name = c[1] /\ Len(items[i].params) = c[2]

DefinitionClosed(items, d) ==
  IF d.item = "pred" THEN Closed(items, d.params, d.body)
  ELSE \A i \in DOMAIN d.alts : Closed(items, d.alts[i].binds, d.alts[i].cond)

\* Every name that is defined in a directory is defined once.
DefinedOnce(files) ==
  \A f, h \in DOMAIN files : \A i \in DOMAIN files[f], j \in DOMAIN files[h] :
    files[f][i].item # "rule" /\ files[h][j].item # "rule" /\ files[f][i].name = files[h][j].name => f = h /\ i = j

=============================================================================
