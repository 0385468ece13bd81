------------------------------ MODULE MCDataflow ------------------------------
(***************************************************************************)
(* Files for Dataflow: a function in C, C++, Go, Python or Rust, two that  *)
(* it may call, a global variable and a structure.                         *)
(***************************************************************************)
EXTENDS Dataflow

none == None
N(t, d, name, kids) == [t |-> t, f |-> "stmt", d |-> d, name |-> name, kids |-> kids]
In(f, n) == [n EXCEPT !.f = f]

Id(v) == N("name", "identifier", v, <<>>)
FieldId(v) == N("name", "field_identifier", v, <<>>)
TypeId(v) == N("name", "type_identifier", v, <<>>)
IntType == N("name", "primitive_type", none, <<>>)
One == N("name", "number_literal", none, <<>>)
E(d, name, kids) == N("expr", d, name, kids)
Plus(a, b) == E("binary_expression", none, <<a, b>>)
Element(a, i) == E("subscript_expression", none, <<a, i>>)
Deref(p) == E("pointer_expression", "*", <<p>>)
AddressOf(v) == E("pointer_expression", "&", <<v>>)
FieldOf(s, v) == E("field_expression", none, <<s, FieldId(v)>>)
Increment(v) == E("update_expression", none, <<v>>)
Paren(e) == N("paren", "parenthesized_expression", none, <<e>>)
Fn(g, args) == N("call", "call_expression", g, <<Id(g), N("name", "argument_list", none, args)>>)
Set(lhs, e) == E("assignment_expression", "=", <<lhs, e>>)

Stmt1(e) == N("exprstmt", "expression_statement", none, <<e>>)
Do1(e) == Stmt1(e)
Let1(v, e) == Do1(Set(Id(v), e))
Use1(v) == Do1(Fn("sink", <<Id(v)>>))
Init1(v, e) == N("name", "init_declarator", none, <<v, e>>)
Declare(type, v, e) == N("decl", "declaration", none, <<type, Init1(v, e)>>)
Var1(v, e) == Declare(IntType, Id(v), e)
Return1(e) == N("return", "return_statement", none, <<e>>)
Block(ss) == N("compound", "compound_statement", none, ss)
Suite(language, ss) == N("block", "block", language, ss)
C1 == Id("c")
If1(ss) == N("if", "if_statement", none, <<In("cond", Paren(C1)), In("then", Block(ss))>>)
If2(ss, rs) == N("if", "if_statement", none,
                 <<In("cond", Paren(C1)), In("then", Block(ss)),
                   In("else", N("else_clause", "else_clause", none, <<Block(rs)>>))>>)
While1(ss) == N("while", "while_statement", none, <<In("cond", Paren(C1)), In("body", Block(ss))>>)
For1(i, u, ss) == N("for", "for_statement", none,
                    <<In("init", i), In("cond", C1), In("upd", u), In("body", Block(ss))>>)
DoWhile1(ss) == N("do", "do_statement", none, <<In("body", Block(ss)), In("cond", Paren(C1))>>)
Leaf(t) == N(t, t, none, <<>>)
Label1(s) == N("label", "labeled_statement", "L", <<s>>)
GotoL == N("goto", "goto_statement", "L", <<>>)
Case1(ss) == N("case", "case_statement", none, <<In("label", One)>> \o ss)
Switch1(cases) == N("switch", "switch_statement", none, <<In("cond", Paren(C1)), In("body", Block(cases))>>)
Try1(ss, rs) == N("try", "try_statement", none,
                  <<In("body", Block(ss)), In("handler", N("catch_clause", "catch_clause", none, <<In("body", Block(rs))>>))>>)

Param1(v) == N("name", "parameter_declaration", none, <<IntType, Id(v)>>)
Head1(g, params) ==
  N("name", "function_declarator", none, <<Id(g), N("name", "parameter_list", none, params)>>)
Function1(head, body) == N("function", "function_definition", none, <<IntType, head, body>>)

\* int pass(int v) { return v; }   int make() { int t = read(); return t; }   int env = get();
\* struct S { int f; };   enum { A = 1 };
Others == << Function1(Head1("pass", <<Param1("v")>>), Block(<<Return1(Id("v"))>>)),
             Function1(Head1("make", <<>>), Block(<<Var1("t", Fn("read", <<>>)), Return1(Id("t"))>>)),
             Var1("env", Fn("get", <<>>)),
             N("decl", "struct_specifier", none,
               <<TypeId("S"), N("name", "field_declaration_list", none,
                                <<N("name", "field_declaration", none, <<IntType, FieldId("f")>>)>>)>>),
             N("decl", "enum_specifier", none, <<N("name", "enumerator", none, <<Id("A"), One>>)>>) >>

\* The name of the body is its language if it is not C or C++.
Unit(body) ==
  CASE body.name = "go" ->
         << N("function", "function_declaration", none,
              << Id("h"), N("name", "parameter_list", none,
                            <<N("name", "parameter_declaration", none, <<Id("n"), TypeId("T")>>)>>), body >>) >>
    [] body.name \in {"python", "rust"} ->
         << N("function", IF body.name = "rust" THEN "function_item" ELSE "function_definition", none,
              << Id("h"), N("name", "parameters", none, <<>>), body >>) >>
    [] OTHER -> << Function1(Head1("h", <<Param1("n")>>), body) >> \o Others

-----------------------------------------------------------------------------
Read == Fn("read", <<>>)
X == Id("x")
Y == Id("y")

CPrograms ==
  { <<Var1("x", Read), Var1("y", Plus(X, One)), Use1("y"), Let1("y", One), Use1("y")>>,
    <<Var1("x", One), Var1("y", One), While1(<<Use1("x"), Let1("x", Y), Let1("y", Read)>>), Use1("x")>>,
    <<Var1("x", One), If2(<<Let1("x", Read)>>, <<Let1("x", One)>>), Use1("x")>>,
    <<Var1("x", Id("n")), If1(<<Let1("x", Read), Return1(X)>>), Use1("x")>>,
    <<Var1("x", One), Label1(Use1("x")), Let1("x", Read), If1(<<GotoL>>), Use1("n")>>,
    <<Var1("x", One), If1(<<Let1("x", Read), GotoL>>), Let1("x", One), Label1(Use1("x"))>>,
    <<Var1("x", One), Try1(<<Let1("x", Read), Leaf("throw"), Let1("x", One)>>, <<Use1("x")>>)>>,
    <<Var1("x", Id("env")), For1(Var1("i", One), Increment(Id("i")), <<If1(<<Leaf("continue")>>), Let1("x", Read),
                                                                   If1(<<Leaf("break")>>)>>), Use1("x"), Use1("i")>>,
    <<Var1("x", One), DoWhile1(<<Var1("y", X), Let1("x", Read), Use1("y")>>), Use1("x")>>,
    <<Var1("x", One), Switch1(<<Case1(<<Let1("x", Read)>>), Case1(<<Use1("x"), Leaf("break")>>),
                                Case1(<<Let1("x", One)>>)>>), Use1("x")>>,
    <<Var1("x", Fn("pass", <<Id("n")>>)), Var1("y", Fn("make", <<>>)), Use1("x"), Use1("y"),
      While1(<<Let1("x", Fn("pass", <<Plus(Y, Id("env"))>>))>>), Return1(X)>>,
    <<Var1("x", Read), Var1("a", One), Var1("i", One), Do1(Set(Element(Id("a"), Id("i")), X)), Use1("i"),
      Do1(Fn("sink", <<Element(Id("a"), One)>>))>>,
    <<Var1("x", Read), Var1("y", One), Declare(IntType, E("pointer_declarator", "*", <<Id("p")>>), AddressOf(Y)),
      Do1(Set(Deref(Id("p")), X)), Do1(Fn("sink", <<Deref(Id("p"))>>))>>,
    <<Var1("b", One), Do1(Fn("fgets", <<Id("b"), One>>)), While1(<<Use1("b"), Do1(Fn("fgets", <<Id("b"), One>>))>>)>>,
    <<Var1("x", One), While1(<<Do1(E("assignment_expression", "+=", <<X, Read>>)), Do1(Increment(X))>>),
      Var1("y", E("conditional_expression", none, <<C1, X, One>>)), Use1("y")>> }

\* memcpy(b, x, 1), sprintf(b, "", x), strdup(x).
CopyPrograms ==
  { <<Var1("x", Read), Var1("b", One), Do1(Fn("memcpy", <<Id("b"), X, One>>)), Use1("b")>>,
    <<Var1("x", Read), Var1("b", One), Do1(Fn("sprintf", <<Id("b"), One, X>>)), Use1("b")>>,
    <<Var1("x", Fn("strdup", <<Id("n")>>)), Use1("x")>> }

\* Fields, initializers, C++.
FieldPrograms ==
  { <<Declare(TypeId("S"), Id("s"), E("initializer_list", none,
        <<E("initializer_pair", none, <<N("name", "field_designator", none, <<FieldId("f")>>), Id("n")>>)>>)),
      Do1(Set(FieldOf(Id("s"), "f"), One)), Declare(TypeId("S"), Id("q"), FieldOf(Id("s"), "f")),
      Do1(Fn("sink", <<Deref(FieldOf(Id("s"), "f"))>>)), Use1("q")>>,
    <<Var1("x", One), Declare(IntType, E("array_declarator", none, <<Id("a"), Id("n")>>), E("initializer_list", none, <<X>>)),
      Do1(E("delete_expression", none, <<Id("a")>>)),
      Do1(Fn("sink", <<E("compound_literal_expression", none,
        <<TypeId("S"), E("initializer_list", none,
           <<E("initializer_pair", none, <<N("name", "field_designator", none, <<FieldId("f")>>), X>>), X>>)>>)>>))>>,
    <<Var1("x", One), Var1("g", E("lambda_expression", none,
        <<N("name", "lambda_capture_specifier", none, <<N("name", "lambda_default_capture", "&", <<>>)>>),
          Block(<<Use1("x"), Let1("x", Read)>>)>>)), Use1("x")>>,
    <<Return1(E("fold_expression", none, <<Id("A"), Id("n")>>))>> }

\* y := n; y = y; ch <- y; T{y}: Go.  y = n; (z := y); y += z; for: Python.  let y = n: Rust.
Assign1(d, v, e) == N("linear", d, none, <<In("left", Id(v)), In("right", e)>>)
OtherPrograms ==
  { Suite("go", <<Assign1("short_var_declaration", "y", Id("n")),
                  While1(<<Assign1("assignment_statement", "z", Y), Assign1("assignment_statement", "y", Id("z"))>>),
                  N("linear", "send_statement", none, <<Id("ch"), Y>>),
                  Return1(E("composite_literal", none, <<TypeId("T"), N("name", "literal_value", none, <<Id("z")>>)>>))>>),
    Suite("python", <<Assign1("assignment", "y", Id("n")),
                      Stmt1(E("named_expression", none, <<Id("z"), Y>>)),
                      Assign1("augmented_assignment", "y", Id("z")),
                      Stmt1(E("list_comprehension", none, <<Id("w"), N("name", "for_in_clause", none, <<Id("w"), Y>>)>>)),
                      N("suspend", "yield_expression", none, <<Y>>)>>),
    Suite("rust", <<N("linear", "let_declaration", none, <<In("pattern", Id("y")), In("value", Id("n"))>>),
                    N("tryexpr", "try_expression", none, <<Y>>), Return1(Y)>>) }

MCPrograms == {Block(ss) : ss \in CPrograms \cup CopyPrograms \cup FieldPrograms} \cup OtherPrograms

\* What it is edited to: straight, with a loop, with a field.
MCEdits == {Block(ss) : ss \in
  { <<Var1("x", Id("env")), Use1("x")>>,
    <<Var1("x", One), While1(<<Use1("x"), Let1("x", Fn("pass", <<X>>)), Do1(Fn("fgets", <<X, One>>))>>)>>,
    <<Do1(Set(FieldOf(Id("s"), "f"), Id("n"))), Do1(Fn("sink", <<FieldOf(Id("s"), "f")>>))>> }}
  \cup {Suite("go", <<While1(<<Assign1("short_var_declaration", "y", Id("n"))>>), Return1(Y)>>)}

MCPropagators == [v \in {"memcpy", "sprintf", "strdup"} |->
                    CASE v = "memcpy" -> [dst |-> 1, src |-> {2}, rest |-> None]
                      [] v = "sprintf" -> [dst |-> 1, src |-> {2}, rest |-> 2]
                      [] v = "strdup" -> [dst |-> None, src |-> {1}, rest |-> None]]
MCOutputs == [v \in {"fgets"} |-> {1}]
=============================================================================
