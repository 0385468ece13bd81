------------------------------ MODULE MCQueries ------------------------------
(* Instances of Queries.                                                   *)
EXTENDS Queries

-----------------------------------------------------------------------------
(* The graph of
     int f(int p) { int x = src(p); if (x) { sink(x); } g(); }
     int h(int x) { use(x); put(s); }
     struct t { int s; };
   in lines 1 and 2; the declarator of the local x has a text and no name. *)

Node(kind, raw, kids, parent, fn) ==
  [kind |-> kind, raw |-> raw, kids |-> kids, parent |-> parent, fn |-> fn, attr |-> <<>>, meta |-> <<>>]
Named_(node, n) == [node EXCEPT !.attr = [name |-> Str(n), text |-> Str(n)]]
Id(n, parent, fn) == [Node("Identifier", "identifier", <<>>, parent, fn) EXCEPT !.attr = [text |-> Str(n)]]
Call_(n, kids, parent, fn) ==
  [Node("Call", "call_expression", kids, parent, fn) EXCEPT
     !.attr = [name |-> Str(n), text |-> Str(n), line |-> Int_(IF fn = 1 THEN 1 ELSE 2)]]
Arguments_(kids, parent, fn) == Node("Unknown", "argument_list", kids, parent, fn)

Tree ==
  << Named_(Node("MethodDef", "function_definition", <<2, 4>>, 0, 1), "f"),
     Node("Unknown", "function_declarator", <<3>>, 1, 1),
     Named_(Node("ParamDef", "parameter_declaration", <<>>, 2, 1), "p"),
     Node("Block", "compound_statement", <<5, 10, 16>>, 1, 1),
     [Node("LocalDef", "init_declarator", <<6>>, 4, 1) EXCEPT !.attr = [text |-> Str("x")]],
     Call_("src", <<7, 8>>, 5, 1), Id("src", 6, 1), Arguments_(<<9>>, 6, 1), Id("p", 8, 1),
     Node("Conditional", "if_statement", <<11, 12>>, 4, 1), Id("x", 10, 1),
     Call_("sink", <<13, 14>>, 10, 1), Id("sink", 12, 1), Arguments_(<<15>>, 12, 1), Id("x", 14, 1),
     Call_("g", <<17, 18>>, 4, 1), Id("g", 16, 1), Arguments_(<<>>, 16, 1),
     Named_(Node("MethodDef", "function_definition", <<20, 22>>, 0, 19), "h"),
     Node("Unknown", "function_declarator", <<21>>, 19, 19),
     Named_(Node("ParamDef", "parameter_declaration", <<>>, 20, 19), "x"),
     Node("Block", "compound_statement", <<23, 27>>, 19, 19),
     Call_("use", <<24, 25>>, 22, 19), Id("use", 23, 19), Arguments_(<<26>>, 23, 19), Id("x", 25, 19),
     Call_("put", <<28, 29>>, 22, 19), Id("put", 27, 19), Arguments_(<<30>>, 27, 19), Id("s", 29, 19),
     Named_(Node("FieldDef", "field_declaration", <<>>, 0, 0), "s") >>

MCGraph ==
  [lang |-> "c", node |-> Tree,
   flows |-> {<<3, 9>>, <<6, 5>>, <<5, 11>>, <<5, 15>>, <<9, 6>>, <<21, 26>>},
   sites |-> [n \in {6, 12, 16, 23, 27} |-> [callee |-> Tree[n].attr.name[2], target |-> 0]],
   cfg |-> [dominates |-> {<<6, 6>>, <<6, 12>>, <<6, 16>>, <<12, 12>>, <<16, 16>>, <<23, 23>>, <<23, 27>>, <<27, 27>>,
                           <<6, 9>>, <<6, 11>>, <<6, 15>>, <<12, 15>>, <<23, 26>>, <<23, 30>>, <<27, 30>>},
            in_loop |-> {}],
   facts |-> <<>>, vars |-> <<>>,
   builtin |-> [stdin |-> {6}, exec |-> {12}]]

-----------------------------------------------------------------------------
(* Conditions.                                                             *)

n == Ident("n")
m == Ident("m")
Quote(s) == Lit(Str(s))
CalleeIs(x, s) == Compare(Step(x, "callee_name", <<>>), "==", Quote(s))
Alias(t) == <<"alias", t>>
Arg0(x) == Step(x, "arg", <<Lit(Int_(0))>>)

OfOne ==
  { CalleeIs(n, "sink"),
    Compare(Step(n, "callee_name", <<>>), "in", Lit(<<"list", <<Str("g"), Str("use")>>>>)),
    Compare(Step(n, "line", <<>>), "<", Lit(Int_(2))),
    Compare(Quote("s"), "in", Step(n, "callee_name", <<>>)),
    LetIn("d", Step(Arg0(n), "refers_to", <<>>), Compare(Step(Ident("d"), "kind", <<>>), "in", Lit(<<"list", <<Str("FieldDef")>>>>))),
    Step(n, "has_ancestor", <<Quote("Conditional")>>),
    Compare(Step(Arg0(n), "text", <<>>), "==", Quote("x")),
    LetIn("d", Step(Arg0(n), "refers_to", <<>>), Compare(Step(Ident("d"), "kind", <<>>), "==", Quote("ParamDef"))),
    LetIn("f", Step(n, "function_id", <<>>), Compare(Step(Ident("f"), "name", <<>>), "==", Quote("h"))),
    LetIn("c", Step(n, "branch_condition", <<>>), Compare(Step(Ident("c"), "text", <<>>), "==", Step(Arg0(n), "text", <<>>))),
    Quantified("exists", "d", Alias("LocalDef"), Step(Ident("d"), "dfg_reaches", <<n>>)),
    Quantified("forall", "k", Alias("Call"), Both("or", Not(Step(Ident("k"), "dominates", <<n>>)), CalleeIs(Ident("k"), "src"))),
    PredCall("guarded", <<n>>) }

OfTwo ==
  { Step(n, "dominates", <<m>>), Step(m, "has_ancestor", <<n>>), Step(n, "same_function", <<m>>),
    Compare(Step(m, "text", <<>>), "==", Quote("x")),
    PredCall("inside", <<m, n>>), PredCall("flows", <<m, n>>),
    Matches(n, Alias("Call"), <<[field |-> "name", is |-> Quote("sink")]>>) }

Shapes(as, bs) ==
  UNION {{a, Not(a), Both("and", a, b), Both("or", a, b), Both("and", Not(a), b), Both("or", Not(a), b),
          Not(Both("and", a, b))} : a \in as, b \in bs}
Deep(as, bs) ==
  UNION {{Both("or", a, Both("and", b, c)), Both("and", Both("or", a, b), c), Both("and", a, Both("or", Not(b), c))} :
           a \in as, b \in bs, c \in as}
Some(s, k) == {x \in s : Cardinality({y \in s : y.op = x.op}) <= k}

Param(v, t) == [name |-> v, ty |-> Alias(t)]
Predicate(name, params, body) == [item |-> "pred", name |-> name, params |-> params, body |-> body]
Predicates ==
  << Predicate("inside", <<Param("n", "Node"), Param("m", "Node")>>,
               Both("or", Compare(n, "==", m), LetIn("p", Step(n, "parent", <<>>), PredCall("inside", <<Ident("p"), m>>)))),
     Predicate("flows", <<Param("n", "Node"), Param("m", "Node")>>, Step(m, "dominates", <<n>>)),
     Predicate("guarded", <<Param("k", "Call")>>,
               Quantified("exists", "n", Alias("Conditional"), PredCall("inside", <<Ident("k"), n>>))) >>

Rule(id, langs, clauses) == [item |-> "rule", id |-> id, langs |-> langs, clauses |-> clauses]
SearchFor(binds, cond) == [clause |-> "search", binds |-> binds, cond |-> cond]
One(cond) == SearchFor(<<Param("n", "Call")>>, cond)
Two(cond) == SearchFor(<<Param("n", "Call"), Param("m", "Identifier")>>, cond)

Searches ==
  {<<Rule("r", <<>>, <<One(c)>>)>> : c \in Shapes(OfOne, OfOne)}
  \cup {<<Rule("r", <<<<"c", "go">>>>, <<Two(c)>>)>> : c \in Shapes(OfTwo, OfTwo) \cup Deep(Some(OfTwo, 2), OfTwo)}

-----------------------------------------------------------------------------
(* Directories.                                                            *)

Ends(kind, name, cond) ==
  [item |-> kind, name |-> name, params |-> IF kind = "sink" THEN <<>> ELSE <<Param("k", "Call")>>,
   alts |-> <<Find(<<Param("n", "Call")>>, cond)>>]
TaintFor(src, snk, san) == [clause |-> "taint", sources |-> src, sinks |-> snk, sanitizers |-> san]

Endpoint_ == <<Ends("source", "input", CalleeIs(n, "src")), Ends("sink", "output", PredCall("guarded", <<n>>)),
               Ends("sanitizer", "clean", CalleeIs(n, "g"))>> \o Predicates
Taints ==
  {<<<<Rule("t", <<>>, <<TaintFor(src, snk, <<"clean">>)>>)>>, Endpoint_>> :
     src \in {<<"input">>, <<"stdin", "input">>, <<"other">>}, snk \in {<<"output">>, <<"exec">>, <<"output", "stdin">>, <<>>}}

SameName(body) == Predicate("checked", <<Param("n", "Call")>>, body)
MCDirectories ==
  {<<s \o Predicates>> : s \in Searches} \cup Taints
  \cup { \* a predicate of one name in two files
         <<<<Rule("a", <<>>, <<One(PredCall("checked", <<n>>))>>), SameName(CalleeIs(n, "sink"))>>,
           <<Rule("b", <<>>, <<One(Not(PredCall("checked", <<n>>)))>>), SameName(CalleeIs(n, "src"))>>>>,
         \* a recursion without end, and one that is cut off before it is met
         <<<<Rule("r", <<>>, <<One(Both("and", CalleeIs(n, "g"), PredCall("ever", <<n>>)))>>),
             Predicate("ever", <<Param("n", "Call")>>, PredCall("ever", <<n>>))>>>>,
         \* two clauses, a rule of another language, a rule without a condition, no rule at all
         <<<<Rule("r", <<>>, <<One(CalleeIs(n, "g")), One(True)>>), Rule("go", <<<<"go">>>>, <<One(True)>>)>>>>,
         <<Predicates>>,
         \* a variable of another search, an undefined predicate, a method of other nodes
         <<<<Rule("r", <<>>, <<One(Step(m, "dominates", <<n>>))>>)>>>>,
         <<<<Rule("r", <<>>, <<One(PredCall("nothing", <<n>>))>>)>>>>,
         <<<<Rule("r", <<>>, <<One(Compare(Step(n, "param_count", <<>>), "==", Lit(Int_(1))))>>)>>>>,
         \* alternatives: with a condition they are refused, without one the first takes all
         <<<<Rule("r", <<>>, <<One(True)>>),
             [Ends("source", "input", CalleeIs(n, "src")) EXCEPT !.alts = @ \o @]>>>>,
         <<<<Rule("t", <<>>, <<TaintFor(<<"twice">>, <<>>, <<>>)>>),
             [Ends("source", "twice", True) EXCEPT !.alts = @ \o <<Find(<<Param("n", "Call")>>, CalleeIs(n, "src"))>>]>>>> }

=============================================================================
