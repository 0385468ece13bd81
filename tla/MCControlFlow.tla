---------------------------- MODULE MCControlFlow -----------------------------
(***************************************************************************)
(* Functions for ControlFlow: every loop around every small body, and the  *)
(* statements whose control flow is not a matter of nesting.               *)
(***************************************************************************)
EXTENDS ControlFlow

none == None
N(t, kids) == [t |-> t, f |-> "stmt", name |-> none, kids |-> kids]
L(t, name) == [t |-> t, f |-> "stmt", name |-> name, kids |-> <<>>]
In(f, n) == [n EXCEPT !.f = f]

Simple == N("simple", <<>>)
Call(name) == N("exprstmt", << L("call", name) >>)
X == N("expr", <<>>)
Paren(n) == N("paren", <<n>>)
And(a, b) == N("and", <<a, b>>)
Or(a, b) == N("or", <<a, b>>)
Block(stmts) == N("compound", stmts)
If1(c, s) == N("if", << In("cond", Paren(c)), In("then", s) >>)
If2(c, s, e) == N("if", << In("cond", Paren(c)), In("then", s),
                          In("else", N("else_clause", << e >>)) >>)
While1(c, s) == N("while", << In("cond", Paren(c)), In("body", s) >>)
Do1(c, s) == N("do", << In("body", s), In("cond", Paren(c)) >>)
For1(i, c, u, s) == N("for", << In("init", i), In("cond", c), In("upd", u), In("body", s) >>)
Range1(s) == N("range", << In("decl", N("decl", <<>>)), In("range", X), In("body", s) >>)
Loop1(s) == N("loop", << In("body", N("block", s)) >>)
Break == N("break", <<>>)
Continue == N("continue", <<>>)
Return == N("return", <<>>)
GotoL == L("goto", "L")
Label(s) == [N("label", s) EXCEPT !.name = "L"]

-----------------------------------------------------------------------------
Conditions == {X, Or(X, X), And(X, Or(X, X)), Or(Paren(And(X, X)), X)}
Leaves == {Simple, Break, Continue, Return, Call("abort")}
Bodies == {<<a>> : a \in Leaves} \cup {<<If1(X, Block(<<a>>)), Simple>> : a \in Leaves}
          \cup {<<If2(X, Block(<<a>>), Block(<<b>>)), Simple>> : a \in {Break, Simple}, b \in Leaves}
LoopsAround(body) ==
  {While1(X, Block(body)), Do1(X, Block(body)), Range1(Block(body)), Loop1(body),
   For1(N("decl", <<>>), X, X, Block(body))}
LoopPrograms == {<<Simple, s, Simple>> : s \in UNION {LoopsAround(b) : b \in Bodies}}
ConditionPrograms ==
  UNION {{<<If1(c, Block(<<Simple>>)), Simple>>, <<If2(c, Block(<<Return>>), Block(<<Simple>>)), Simple>>,
          <<While1(c, Block(<<Simple>>)), Simple>>, <<Do1(c, Block(<<If1(X, Block(<<Continue>>))>>)), Simple>>}
         : c \in Conditions}
NestedPrograms ==
  {<<While1(X, Block(<<s, If1(X, Block(<<Break>>)), Simple>>)), Simple>>
     : s \in LoopsAround(<<If2(X, Block(<<Continue>>), Block(<<Break>>))>>)}

\* A loop in a loop; the for loop of Go; a for loop without a condition; else if.
Until(a) == If1(X, Block(<<a>>))
InnerLoops == LoopsAround(<<Until(Break), Simple>>) \cup LoopsAround(<<Until(Continue)>>)
GoFor(parts, s) == N("for", << In("clause", N("for_clause", parts)), In("body", s) >>)
MoreLoopPrograms ==
  {<<s, Simple>> : s \in UNION {LoopsAround(<<Simple, t, Until(Continue)>>) : t \in InnerLoops}}
  \cup {<<GoFor(<<In("init", Simple), In("cond", X), In("upd", X)>>, Block(<<Until(a), Simple>>)), Simple>>
          : a \in {Break, Continue}}
  \cup {<<N("for", << In("body", Block(<<Until(a), Simple>>)) >>), Simple>> : a \in {Break, Continue}}
  \cup {<<If2(X, Block(<<a>>), If2(c, Block(<<Return>>), Block(<<Simple>>))), Simple>>
          : a \in {Simple, Return}, c \in {X, And(X, X)}}
  \cup {<<N("if", << In("init", N("decl", <<>>)), In("cond", X), In("then", Block(<<a>>)) >>), Simple>>
          : a \in {Simple, Return}}

Case1(stmts) == N("case", <<In("label", N("name", <<>>))>> \o stmts)
Default1(stmts) == N("case", stmts)
Switch1(cases) == N("switch", << In("cond", Paren(X)), In("body", Block(cases)) >>)
Arm1(stmts) == N("arm", <<In("label", N("name", <<>>))>> \o stmts)
Try1(body, handlers) == N("try", <<In("body", Block(body))>> \o handlers)
Catch1(body) == In("handler", N("catch_clause", << In("body", Block(body)) >>))
Seh1(body, clause) == N("seh", <<In("body", Block(body)), clause>>)
Except1(body) == In("handler", N("except", << In("body", Block(body)) >>))
Finally1(body) == In("finally", N("finally", << In("body", Block(body)) >>))
Match1(arms) == N("match", << In("value", X), N("body", arms) >>)
MArm1(s) == N("marm", << In("pattern", N("name", <<>>)), s >>)
BranchingStmt(value, arms) == N("branching", value \o arms)

OtherPrograms ==
  { <<GotoL, Simple, Label(<<Simple>>), Simple>>,
    <<Label(<<Simple>>), If1(X, Block(<<GotoL>>)), Simple>>,
    <<If1(X, Block(<<GotoL>>)), While1(X, Block(<<Label(<<Simple>>), Simple>>)), Simple>>,
    <<Label(<<While1(X, Block(<<While1(X, Block(<<L("continue", "L")>>)), Simple>>))>>), Simple>>,
    <<Switch1(<<Case1(<<Simple>>), Case1(<<Simple, Break>>), Default1(<<Simple>>)>>), Simple>>,
    <<While1(X, Block(<<Switch1(<<Case1(<<Continue>>), Case1(<<If1(X, Block(<<Break>>)), Break>>),
                                 Case1(<<Return>>)>>), Simple>>)), Simple>>,
    <<Switch1(<<Case1(<<Call("f"), While1(X, Block(<<Break>>)), Break>>), Case1(<<Simple>>)>>), Simple>>,
    <<Try1(<<Simple, N("throw", <<>>), Simple>>, <<Catch1(<<Simple>>)>>), Simple>>,
    <<While1(X, Block(<<Try1(<<If1(X, Block(<<N("throw", <<>>)>>)), Break>>, <<Catch1(<<Continue>>)>>)>>)), Simple>>,
    <<Try1(<<Try1(<<Simple, N("throw", <<>>)>>, <<Catch1(<<N("throw", <<>>)>>)>>)>>,
           <<Catch1(<<Return>>), Catch1(<<Simple>>)>>), Simple>>,
    <<Try1(<<If1(X, Block(<<N("throw", <<>>)>>)), Simple>>, <<Catch1(<<Simple>>)>>), Simple>>,
    <<Try1(<<L("call", "f"), Simple>>, <<Catch1(<<Simple>>)>>), N("throw", <<>>)>>,
    <<Seh1(<<Simple, If1(X, Block(<<N("leave", <<>>)>>)), L("call", "f")>>, Except1(<<Simple>>)), Simple>>,
    <<Seh1(<<Simple, If1(X, Block(<<Simple>>)), L("call", "f")>>, Finally1(<<Simple>>)), Simple>>,
    <<N("with", << In("value", N("with_item", <<>>)), In("body", N("block", <<Simple, N("throw", <<>>)>>))>>), Simple>>,
    <<N("sync", << In("value", X), In("body", N("block", <<Simple, If1(X, Block(<<Return>>))>>))>>), Simple>>,
    <<Try1(<<Simple, N("assert", <<>>)>>, <<Catch1(<<Simple>>)>>), If1(X, Block(<<N("assert", <<>>)>>)), Simple>>,
    <<N("suspend", <<>>), N("optchain", <<>>), N("linear", <<>>), If1(X, Block(<<N("tryexpr", <<>>)>>)), Simple>>,
    <<N("defer", <<>>), Simple, N("defer", <<>>), If1(X, Block(<<Return>>)), Simple>>,
    <<N("list", <<BranchingStmt(<<In("value", X)>>, <<Arm1(<<Simple>>), Arm1(<<Simple, Break>>)>>), Simple>>)>>,
    <<While1(X, Block(<<BranchingStmt(<<>>, <<Arm1(<<Simple>>), Arm1(<<Continue>>)>>)>>)), Simple>>,
    <<N("exprstmt", <<Match1(<<MArm1(Simple), MArm1(N("block", <<Simple, Return>>))>>)>>), Simple>>,
    <<Loop1(<<If1(X, Block(<<N("breakexpr", <<>>)>>)), N("unsafe", <<Simple>>)>>), Simple>>,
    <<Call("setjmp"), If1(X, Block(<<Call("longjmp"), Simple>>)), Simple>> }

\* Conditions that are constant.
Literal(v) == L("name", v)
Constants == {Literal("true"), Literal("false"), And(X, Literal("false")), Or(Literal("true"), X)}
DecidedPrograms ==
  UNION {{<<If2(c, Block(<<Simple>>), Block(<<Simple>>)), Simple>>,
          <<If1(X, Block(<<If1(c, Block(<<Return>>))>>)), Simple>>,
          <<While1(c, Block(<<Simple>>)), Simple>>,
          <<While1(c, Block(<<If1(X, Block(<<Continue>>)), Simple>>)), Simple>>,
          <<While1(X, Block(<<Simple, Do1(c, Block(<<Simple>>))>>)), Simple>>} : c \in Constants}

MCPrograms == {Block(ss) : ss \in LoopPrograms \cup ConditionPrograms \cup NestedPrograms
                                 \cup MoreLoopPrograms \cup DecidedPrograms \cup OtherPrograms}
=============================================================================
