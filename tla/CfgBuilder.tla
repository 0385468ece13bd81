------------------------------ MODULE CfgBuilder ------------------------------
(***************************************************************************)
(* CfgBuilder (web-sitter/src/cfg.rs): the basic blocks of one function.   *)
(* process_statement recurses over the syntax tree; its call stack is the  *)
(* sequence `todo` of what is still to be done, and every handler is an    *)
(* action that puts the steps of its body there.                           *)
(*                                                                         *)
(* A syntax node is [t, f, name, kids]: its type, its tree-sitter field in *)
(* the parent (which the builder does not look at), what it names (a label *)
(* or a called function) and its named children.  A node is known by its   *)
(* path from the root.  Types no handler tells apart are one type:         *)
(*   "compound" "block"  compound_statement; block, statement_block        *)
(*   "exprstmt"          expression_statement                              *)
(*   "call" "expr"       call_expression; another ..._expression           *)
(*   "paren" "and" "or"  conditions                                        *)
(*   "name"              an identifier or a literal                        *)
(*   "decl"              declaration                                       *)
(*   "suspend"           co_await, co_yield, await, yield                  *)
(*   "linear"            go, send, receive, :=, a comprehension            *)
(*   "branching"         the type switch and the select of Go              *)
(*   "arm"               one of their cases                                *)
(*   "simple"            any other node that control runs straight through *)
(* The other types carry the name of their IrNodeKind.                     *)
(***************************************************************************)
EXTENDS Integers, Sequences, FiniteSets, SequencesExt

CONSTANTS Programs,   \* function bodies, as syntax nodes
          NoReturn,   \* noreturn_functions
          None        \* no label, no called function

VARIABLES
  prog,    \* the body of the function
  todo,    \* what process_statement still has to do
  cur,     \* current_bb_id
  graph,   \* basic_blocks: [next, succ, exc, nodes, at, resume]
  state    \* FunctionState

buildVars == <<prog, todo, cur, graph, state>>

Entry == 0
Exit == 1

-----------------------------------------------------------------------------
(* Basic blocks.  graph.nodes are the <<block, node>>, graph.at is the     *)
(* basic_block of a node, the last one it was put in.                      *)

RECURSIVE NodeAt(_, _), Paths(_, _)
NodeAt(n, p) == IF p = <<>> THEN n ELSE NodeAt(n.kids[Head(p)], Tail(p))
Paths(n, p) == {p} \cup UNION {Paths(n.kids[i], Append(p, i)) : i \in DOMAIN n.kids}

Blocks(g) == 0 .. g.next - 1

\* create_bb: the blocks g.next .. g.next + k - 1.
Create(g, k) ==
  [g EXCEPT !.next = @ + k,
            !.succ = [b \in 0 .. g.next + k - 1 |-> IF b < g.next THEN @[b] ELSE <<>>]]

\* add_successor.
Edge(g, a, b) == [g EXCEPT !.succ[a] = IF Contains(@, b) THEN @ ELSE Append(@, b)]
ExcEdge(g, a, b) == [g EXCEPT !.exc = @ \cup {<<a, b>>}]

AddAll(g, ps, b) ==
  [g EXCEPT !.nodes = @ \cup {<<b, p>> : p \in ps},
            !.at = [p \in ps \cup DOMAIN @ |-> IF p \in ps THEN b ELSE @[p]]]

\* add_node_to_bb, of a child that may be missing; its whole subtree goes with it.
Add(g, p, b) == AddAll(g, Paths(NodeAt(prog, p), p), b)
AddPart(g, p, part, b) == IF part = <<>> THEN g ELSE Add(g, p \o part, b)

\* add_single_node_to_bb and register_node_in_bb.
Single(g, p, b) == AddAll(g, {p}, b)

-----------------------------------------------------------------------------
(* What a handler leaves to do.                                            *)

Stmt(p) == <<"stmt", p>>
Cond(p, part, b, yes, no) ==
  IF part = <<>> THEN << <<"edge", b, yes>>, <<"edge", b, no>> >>
                 ELSE << <<"cond", p \o part, b, yes, no>> >>
At(b) == <<"at", b>>            \* go on in block b
To(b) == <<"to", b>>            \* add_successor(current, b)
Push(stack, x) == <<"push", stack, x>>
Pop(stack) == <<"pop", stack>>

Kids(p) == [i \in DOMAIN NodeAt(prog, p).kids |-> Stmt(Append(p, i))]
Part(p, part) == IF part = <<>> THEN <<>> ELSE << Stmt(p \o part) >>
PartKids(p, part) == IF part = <<>> THEN <<>> ELSE Kids(p \o part)

\* Mutant: continue leaves the loop and break repeats it.
LoopSwapped(h, x) == [kind |-> "Loop", header |-> x, exit |-> h]
Loop(h, x) == [kind |-> "Loop", header |-> h, exit |-> x]
Switch(x) == [kind |-> "Switch", header |-> None, exit |-> x]

-----------------------------------------------------------------------------
(* The children a handler takes for the parts of a statement, told from    *)
(* their types: paths below the statement, <<>> if there is none.          *)

\* Types whose name contains "expression".
Expressions == {"exprstmt", "call", "expr", "paren", "and", "or"}

Take(parts, part, path) == IF parts[part] = <<>> THEN [parts EXCEPT ![part] = path] ELSE parts

\* The children of type t in ts: the first, the last.
Typed(n, ts) == {i \in DOMAIN n.kids : n.kids[i].t \in ts}
FirstOf(is) == IF is = {} THEN <<>> ELSE << CHOOSE i \in is : \A j \in is : i <= j >>
LastOf(is) == IF is = {} THEN <<>> ELSE << CHOOSE i \in is : \A j \in is : i >= j >>

\* extract_condition_and_body.
CondBody(n) ==
  LET cond == FirstOf(Typed(n, Expressions))
      block == LastOf(Typed(n, {"compound"}))
      rest == {i \in DOMAIN n.kids : n.kids[i].t \notin Expressions /\ cond # <<>> /\ i > cond[1]}
  IN [cond |-> cond, body |-> IF block # <<>> THEN block ELSE FirstOf(rest)]

\* extract_if_parts.
IfPart(n, parts, i) ==
  LET t == n.kids[i].t
  IN IF t \in {"decl", "exprstmt"} /\ parts.cond = <<>>
       THEN Take(parts, IF parts.init = <<>> THEN "init" ELSE "cond", <<i>>)
     ELSE IF t \in Expressions \cup {"condition_clause"} THEN Take(parts, "cond", <<i>>)
     ELSE IF t = "else_clause"
       THEN [parts EXCEPT !.alt = IF n.kids[i].kids = <<>> THEN @ ELSE <<i, 1>>]
     ELSE IF t = "compound" \/ parts.cond # <<>> THEN Take(parts, "body", <<i>>)
     ELSE parts
IfParts(n) ==
  FoldLeft(LAMBDA parts, i : IfPart(n, parts, i),
           [init |-> <<>>, cond |-> <<>>, body |-> <<>>, alt |-> <<>>],
           [i \in DOMAIN n.kids |-> i])

\* extract_for_parts: the for_clause of Go, then the children of other languages.
ClausePart(n, c, parts, j) ==
  IF n.kids[c].kids[j].t \in Expressions
    THEN [parts EXCEPT !.exprs = @ + 1,
                       !.cond = IF parts.exprs = 0 THEN <<c, j>> ELSE @,
                       !.upd = IF parts.exprs = 1 THEN <<c, j>> ELSE @]
    ELSE Take(parts, IF parts.init = <<>> THEN "init" ELSE "upd", <<c, j>>)
ForPart(n, parts, i) ==
  LET t == n.kids[i].t
  IN IF t \in {"compound", "block"} THEN [parts EXCEPT !.body = <<i>>]
     ELSE IF t = "for_clause"
       THEN [FoldLeft(LAMBDA q, j : ClausePart(n, i, q, j), parts,
                      [j \in DOMAIN n.kids[i].kids |-> j]) EXCEPT !.exprs = 0]
     ELSE IF t \in {"decl", "exprstmt"} /\ parts.init = <<>> THEN [parts EXCEPT !.init = <<i>>]
     ELSE IF t \in Expressions
       THEN [parts EXCEPT !.exprs = @ + 1,
                          !.cond = IF parts.exprs = 0 THEN <<i>> ELSE @,
                          !.upd = IF parts.exprs = 1 THEN <<i>> ELSE @]
     ELSE IF parts.exprs > 0 \/ parts.init # <<>> THEN Take(parts, "body", <<i>>)
     ELSE parts
ForParts(n) ==
  FoldLeft(LAMBDA parts, i : ForPart(n, parts, i),
           [init |-> <<>>, cond |-> <<>>, upd |-> <<>>, body |-> <<>>, exprs |-> 0],
           [i \in DOMAIN n.kids |-> i])

\* extract_switch_parts, of a head that is one parenthesized condition.
SwitchParts(n) == [cond |-> LastOf(Typed(n, Expressions)), body |-> LastOf(Typed(n, {"compound"}))]

\* process_range_for_statement: the first two children before the body.
RangeParts(n) ==
  LET body == LastOf(Typed(n, {"compound", "block"}))
      before(k) == IF Len(n.kids) >= k /\ n.kids[k].t \notin {"compound", "block"}
                   THEN <<k>> ELSE <<>>
  IN [decl |-> before(1), range |-> before(2), body |-> body]

\* The arms of the branching statement or match at p and what else is in its head.
RECURSIVE ArmsBelow(_, _)
ArmsBelow(p, arms) ==
  UNION {LET q == Append(p, i) IN
         IF NodeAt(prog, q).t \in arms THEN {q}
         ELSE IF NodeAt(prog, q).t \in {"block", "body"} THEN ArmsBelow(q, arms) ELSE {}
         : i \in DOMAIN NodeAt(prog, p).kids}
HeadPaths(p) ==
  {Append(p, i) : i \in {j \in DOMAIN NodeAt(prog, p).kids :
                         NodeAt(prog, Append(p, j)).t \notin {"arm", "marm", "block", "body"}}}
InOrder(ps) == SetToSortSeq(ps, LAMBDA p, q : p[Len(p)] < q[Len(q)])

-----------------------------------------------------------------------------
(* process_function, up to the statements of its body.                     *)
NewTodo == Kids(<<>>) \o << <<"finish">> >>
NewGraph == [next |-> 2, succ |-> [b \in {Entry, Exit} |-> <<>>], exc |-> {},
             nodes |-> {}, at |-> <<>>, resume |-> {}]
NewState == [breaks |-> <<>>, catches |-> <<>>, leaves |-> <<>>, defers |-> <<>>,
             labels |-> {}, labelExits |-> {}, gotos |-> <<>>]

Init ==
  /\ prog \in Programs
  /\ todo = NewTodo
  /\ cur = Entry
  /\ graph = NewGraph
  /\ state = NewState

\* The statement to process next, if it is one of the types ts.
Due(ts) == {p \in {Head(todo)[2] : i \in {j \in {1} : todo # <<>> /\ Head(todo)[1] = "stmt"}} :
            NodeAt(prog, p).t \in ts}
\* The step to do next, if it is one of those named.
DueStep(ops) == {step \in {todo[i] : i \in {1} \cap DOMAIN todo} : step[1] \in ops}

Do(steps) == todo' = steps \o Tail(todo)
New == graph.next

Innermost(stack) == IF stack = <<>> THEN {} ELSE {stack[Len(stack)]}
EdgesTo(g, a, bs) == FoldSet(LAMBDA b, h : Edge(h, a, b), g, bs)

\* The node goes on to the blocks bs only: what follows is in a new block.
Out(g, bs) == /\ graph' = Create(EdgesTo(g, cur, bs), 1)
              /\ cur' = New
              /\ Do(<<>>)

-----------------------------------------------------------------------------
(* Statements that control runs straight through, or out of.               *)

\* Any other node; a call of setjmp or longjmp, or of a function that never returns.
Plain ==
  \E p \in Due({"simple", "decl", "expr", "name", "paren", "and", "or", "linear", "call"}) :
    LET n == NodeAt(prog, p)
        g == Add(graph, p, cur)
        ends == n.t = "call" /\ n.name \in {"longjmp"} \cup NoReturn
    IN /\ IF ends THEN Out(g, {Exit} \cup IF n.name = "longjmp" THEN g.resume ELSE {})
          ELSE /\ graph' = IF n.name = "setjmp" THEN [g EXCEPT !.resume = @ \cup {cur}] ELSE g
               /\ Do(<<>>)
               /\ UNCHANGED cur
       /\ UNCHANGED <<prog, state>>

\* Block, statement_list; ExprStmt and UnsafeBlock, which are nodes of the block too.
Sequence ==
  \E p \in Due({"compound", "block", "list", "exprstmt", "unsafe"}) :
    /\ graph' = IF NodeAt(prog, p).t \in {"exprstmt", "unsafe"} THEN Single(graph, p, cur) ELSE graph
    /\ Do(Kids(p))
    /\ UNCHANGED <<prog, cur, state>>

\* Return, break_expression, __leave; Break and Continue
\* (process_jump_statement).
Named(pairs, name) == {x[2] : x \in {y \in pairs : y[1] = name}}
Exits(b) == {x.exit : x \in b}
Headers(loops) == {x.header : x \in Innermost(loops)}
Targets(n) ==
  CASE n.t = "return" -> {Exit}
    [] n.t = "breakexpr" -> Exits(Innermost(state.breaks))
    [] n.t = "leave" -> Innermost(state.leaves)
    [] n.t = "break" -> IF n.name # None THEN Named(state.labelExits, n.name)
                        ELSE Exits(Innermost(state.breaks))
    [] n.t = "continue" -> IF n.name # None THEN Named(state.labels, n.name)
                           ELSE Headers(SelectSeq(state.breaks, LAMBDA b : b.kind = "Loop"))
Jump ==
  \E p \in Due({"return", "breakexpr", "leave", "break", "continue"}) :
    /\ Out(Add(graph, p, cur), Targets(NodeAt(prog, p)))
    /\ UNCHANGED <<prog, state>>

\* process_goto_statement: a label not yet met is left for the end of the function.
Goto ==
  \E p \in Due({"goto"}) :
    LET label == NodeAt(prog, p).name
        met == Named(state.labels, label)
    IN /\ Out(Add(graph, p, cur), met)
       /\ state' = IF met # {} THEN state ELSE [state EXCEPT !.gotos = Append(@, <<cur, label>>)]
       /\ UNCHANGED prog

\* process_throw_statement: to the innermost landing pad, and to the exit.
Throw ==
  \E p \in Due({"throw"}) :
    /\ Out(FoldSet(LAMBDA b, g : ExcEdge(g, cur, b), Add(graph, p, cur), Innermost(state.catches)),
           {Exit})
    /\ UNCHANGED <<prog, state>>

\* Assert: the failure goes to the landing pad, or else to the exit.
AssertStmt ==
  \E p \in Due({"assert"}) :
    LET g == Add(graph, p, cur)
    IN /\ graph' = IF state.catches = <<>> THEN Edge(g, cur, Exit)
                  ELSE ExcEdge(g, cur, state.catches[Len(state.catches)])
       /\ Do(<<>>)
       /\ UNCHANGED <<prog, cur, state>>

\* The suspend points: resumed in a new block, or never.
Suspend ==
  \E p \in Due({"suspend"}) :
    /\ graph' = Edge(Edge(Create(Add(graph, p, cur), 1), cur, New), cur, Exit)
    /\ cur' = New
    /\ Do(<<>>)
    /\ UNCHANGED <<prog, state>>

\* TryExpr: an error returns, success goes on in the block.
TryExpr ==
  \E p \in Due({"tryexpr"}) :
    /\ graph' = Edge(Add(graph, p, cur), cur, Exit)
    /\ Do(<<>>)
    /\ UNCHANGED <<prog, cur, state>>

OptionalChain ==
  \E p \in Due({"optchain"}) :
    LET g == Create(Add(graph, p, cur), 2)
    IN /\ graph' = Edge(Edge(Edge(g, cur, New), cur, New + 1), New, New + 1)
       /\ cur' = New + 1
       /\ Do(<<>>)
       /\ UNCHANGED <<prog, state>>

\* DeferStmt: the call is put in a block of its own, for the end of the function.
Defer ==
  \E p \in Due({"defer"}) :
    /\ graph' = Add(Create(Add(graph, p, cur), 1), p, New)
    /\ state' = [state EXCEPT !.defers = Append(@, New)]
    /\ Do(<<>>)
    /\ UNCHANGED <<prog, cur>>

-----------------------------------------------------------------------------
(* Conditions and loops.                                                   *)

\* process_short_circuit_condition.
Condition ==
  \E step \in DueStep({"cond"}) :
    LET p == step[2]  b == step[3]  yes == step[4]  no == step[5]
        t == NodeAt(prog, p).t
        g == Add(graph, p, b)
    IN /\ CASE t = "paren" -> graph' = g /\ Do(Cond(p, <<1>>, b, yes, no))
            [] t = "and" -> /\ graph' = Create(g, 1)
                            /\ Do(Cond(p, <<1>>, b, New, no) \o Cond(p, <<2>>, New, yes, no))
            [] t = "or" -> /\ graph' = Create(g, 1)
                           /\ Do(Cond(p, <<1>>, b, yes, New) \o Cond(p, <<2>>, New, yes, no))
            [] OTHER -> graph' = Edge(Edge(g, b, yes), b, no) /\ Do(<<>>)
       /\ UNCHANGED <<prog, cur, state>>

\* process_if_statement: the blocks of then, of what follows, and of else.
If ==
  \E p \in Due({"if"}) :
    LET parts == IfParts(NodeAt(prog, p))
        else == parts.alt # <<>>
        merge == New + 1
        no == IF else THEN New + 2 ELSE merge
    IN /\ graph' = Create(AddPart(Single(graph, p, cur), p, parts.init, cur), IF else THEN 3 ELSE 2)
       /\ Do(Cond(p, parts.cond, cur, New, no)
             \o <<At(New)>> \o Part(p, parts.body) \o <<To(merge)>>
             \o (IF else THEN <<At(no)>> \o Part(p, parts.alt) \o <<To(merge)>> ELSE <<>>)
             \o <<At(merge)>>)
       /\ UNCHANGED <<prog, cur, state>>

\* process_while_statement: the blocks of the header, the body and what follows.
While ==
  \E p \in Due({"while"}) :
    LET parts == CondBody(NodeAt(prog, p))
    IN /\ graph' = Edge(Create(Single(graph, p, cur), 3), cur, New)
       /\ Do(Cond(p, parts.cond, New, New + 1, New + 2)
             \o <<Push("breaks", Loop(New, New + 2)), At(New + 1)>> \o Part(p, parts.body)
             \o <<Pop("breaks"), To(New), At(New + 2)>>)
       /\ UNCHANGED <<prog, cur, state>>

\* process_for_statement: header, body, update, what follows; continue goes to the update.
For ==
  \E p \in Due({"for"}) :
    LET parts == ForParts(NodeAt(prog, p))
        update == New + 2
    IN /\ graph' = Edge(Create(AddPart(Single(graph, p, cur), p, parts.init, cur), 4), cur, New)
       /\ Do(Cond(p, parts.cond, New, New + 1, New + 3)
             \o <<Push("breaks", Loop(update, New + 3)), At(New + 1)>> \o Part(p, parts.body)
             \o <<Pop("breaks"), To(update), <<"add", p, parts.upd, update>>,
                  <<"edge", update, New>>, At(New + 3)>>)
       /\ UNCHANGED <<prog, cur, state>>

\* process_do_statement: body, condition, what follows.
DoWhile ==
  \E p \in Due({"do"}) :
    LET parts == CondBody(NodeAt(prog, p))
    IN /\ graph' = Edge(Create(graph, 3), cur, New)
       /\ Do(<<Push("breaks", Loop(New + 1, New + 2)), At(New)>> \o Part(p, parts.body)
             \o <<Pop("breaks"), To(New + 1)>>
             \o (IF parts.cond = <<>> THEN << <<"edge", New + 1, New + 2>> >>
                  ELSE Cond(p, parts.cond, New + 1, New, New + 2))
             \o <<At(New + 2)>>)
       /\ UNCHANGED <<prog, cur, state>>

\* process_range_for_statement: header, test, body, what follows.
RangeFor ==
  \E p \in Due({"range"}) :
    LET parts == RangeParts(NodeAt(prog, p))
        test == New + 1
        g == Edge(Create(graph, 4), cur, New)
        h == AddPart(AddPart(g, p, parts.decl, New), p, parts.range, New)
    IN /\ graph' = Edge(Edge(Edge(h, New, test), test, New + 2), test, New + 3)
       /\ Do(<<Push("breaks", Loop(test, New + 3)), At(New + 2)>> \o PartKids(p, parts.body)
             \o <<Pop("breaks"), To(test), At(New + 3)>>)
       /\ UNCHANGED <<prog, cur, state>>

\* process_loop_expr: header, what follows; only a break leaves.
LoopExpr ==
  \E p \in Due({"loop"}) :
    /\ graph' = Edge(Create(graph, 2), cur, New)
    /\ Do(<<Push("breaks", Loop(New, New + 1)), At(New)>>
          \o PartKids(p, FirstOf(Typed(NodeAt(prog, p), {"block"})))
          \o <<Pop("breaks"), To(New), At(New + 1)>>)
    /\ UNCHANGED <<prog, cur, state>>

\* process_labeled_statement: the exit of the label is known once its statement is done.
Labeled ==
  \E p \in Due({"label"}) :
    LET label == NodeAt(prog, p).name
    IN /\ graph' = Edge(Create(graph, 1), cur, New)
       /\ state' = [state EXCEPT !.labels = @ \cup {<<label, New>>}]
       /\ cur' = New
       /\ Do(IF NodeAt(prog, p).kids = <<>> THEN <<>> ELSE Kids(p) \o << <<"labelexit", label>> >>)
       /\ UNCHANGED prog

-----------------------------------------------------------------------------
(* Statements with arms.                                                   *)

\* process_switch_statement: a case falls through to the next; the switch may match none.
SwitchStmt ==
  \E p \in Due({"switch"}) :
    LET parts == SwitchParts(NodeAt(prog, p))
        cases == IF parts.body = <<>> THEN {} ELSE DOMAIN NodeAt(prog, p \o parts.body).kids
        q == p \o parts.body
    IN /\ graph' = Create(AddPart(graph, p, parts.cond, cur), 1)
       /\ Do(<<Push("breaks", Switch(New))>>
             \o [i \in 1 .. Cardinality(cases) |-> <<"case", Append(q, i), cur, i > 1>>]
             \o (IF cases = {} THEN <<>> ELSE <<To(New)>>)
             \o << <<"edge", cur, New>>, Pop("breaks"), At(New)>>)
       /\ UNCHANGED <<prog, cur, state>>

\* A case of it: an expression goes to the first block of the case.
Case ==
  \E step \in DueStep({"case"}) :
    LET p == step[2]  head == step[3]
        n == NodeAt(prog, p)
        g == Edge(Create(graph, 1), head, New)
        Step(i) == IF n.kids[i].t \in Expressions THEN <<"add", p, <<i>>, New>>
                                                  ELSE Stmt(Append(p, i))
    IN /\ graph' = IF step[4] THEN Edge(g, cur, New) ELSE g
       /\ cur' = New
       /\ Do([i \in DOMAIN n.kids |-> Step(i)])
       /\ UNCHANGED <<prog, state>>

\* process_go_branching_statement and process_match_statement.
Branching ==
  \E p \in Due({"branching", "match"}) :
    LET match == NodeAt(prog, p).t = "match"
        arms == InOrder(ArmsBelow(p, IF match THEN {"marm"} ELSE {"arm"}))
        g == IF match THEN Single(graph, p, cur) ELSE Add(graph, p, cur)
        h == FoldSet(LAMBDA q, k : Add(k, q, cur), g, HeadPaths(p))
        x == New
    IN /\ graph' = Create(h, 1)
       /\ Do(<<Push("breaks", Switch(x))>>
             \o FlattenSeq([i \in DOMAIN arms |-> << <<"arm", arms[i], cur>>, To(x)>>])
             \o << <<"edge", cur, x>>, Pop("breaks"), At(x)>>)
       /\ UNCHANGED <<prog, cur, state>>

\* An arm of it, whose expressions go to the block control has come to.
Arm ==
  \E step \in DueStep({"arm"}) :
    LET p == step[2]
        n == NodeAt(prog, p)
        Step(i) == IF n.kids[i].t \in {"call", "expr", "name"} THEN <<"here", p, <<i>> >>
                                                              ELSE Stmt(Append(p, i))
    IN /\ graph' = Add(Edge(Create(graph, 1), step[3], New), p, New)
       /\ cur' = New
       /\ Do([i \in DOMAIN n.kids |-> Step(i)])
       /\ UNCHANGED <<prog, state>>

-----------------------------------------------------------------------------
(* Statements that catch.                                                  *)

\* process_with_statement, process_synchronized_statement.
Guarded ==
  \E p \in Due({"with", "sync"}) :
    LET n == NodeAt(prog, p)
        g == IF n.t = "sync" THEN Add(graph, p, cur)
             ELSE FoldSet(LAMBDA i, h : Add(h, Append(p, i), cur), graph, Typed(n, {"with_item"}))
        pad == New + 1
    IN /\ graph' = Create(g, 2)
       /\ Do(<<Push("catches", pad)>> \o PartKids(p, LastOf(Typed(n, {"block"})))
             \o <<Pop("catches"), To(New), <<"edge", pad, New>>, At(New)>>)
       /\ UNCHANGED <<prog, cur, state>>

\* The statements of a try body; what can throw has an exception edge from its end.
Throwing(p, part, throws, pad) ==
  LET n == NodeAt(prog, p \o part)
      After(i) == IF pad # None /\ n.kids[i].t \in throws THEN << <<"exc", pad>> >> ELSE <<>>
  IN IF part = <<>> THEN <<>>
     ELSE FlattenSeq([i \in DOMAIN n.kids |-> <<Stmt(p \o Append(part, i))>> \o After(i)])

\* process_try_statement: one landing pad per catch clause; throws go to the first.
Try ==
  \E p \in Due({"try"}) :
    LET n == NodeAt(prog, p)
        catches == SetToSortSeq(Typed(n, {"catch_clause"}), <)
        x == New
        Pad(k) == New + k
        g == Create(graph, 1 + Len(catches))
        pad == IF catches = <<>> THEN None ELSE Pad(1)
        Clause(k) == <<At(Pad(k))>>
                     \o PartKids(Append(p, catches[k]),
                                 FirstOf(Typed(n.kids[catches[k]], {"compound", "block"})))
                     \o <<To(x)>>
    IN /\ graph' = IF pad = None THEN g ELSE ExcEdge(g, cur, pad)
       /\ Do(<<Push("catches", IF pad = None THEN x ELSE pad)>>
             \o Throwing(p, FirstOf(Typed(n, {"compound", "block"})), {"call", "throw"}, pad)
             \o <<To(x), Pop("catches")>>
             \o FlattenSeq([k \in DOMAIN catches |-> Clause(k)])
             \o <<At(x)>>)
       /\ UNCHANGED <<prog, cur, state>>

\* process_seh_try_statement with __except, with __finally, or with neither.
SehTry ==
  \E p \in Due({"seh"}) :
    LET n == NodeAt(prog, p)
        body == FirstOf(Typed(n, {"compound"}))
        except == LastOf(Typed(n, {"except"}))
        finally == LastOf(Typed(n, {"finally"}))
        clause == IF except # <<>> THEN except ELSE finally
        handler == IF clause = <<>> THEN <<>>
                   ELSE PartKids(p \o clause, FirstOf(Typed(NodeAt(prog, p \o clause), {"compound"})))
        x == New
        pad == New + 1
        guarded == <<Push("catches", pad), Push("leaves", x)>> \o Throwing(p, body, {"call"}, pad)
                   \o <<Pop("leaves"), Pop("catches")>>
    IN /\ graph' = Create(graph, IF clause = <<>> THEN 1 ELSE 2)
       /\ Do(IF except # <<>> THEN guarded \o <<To(x), At(pad)>> \o handler \o <<To(x), At(x)>>
             ELSE IF finally # <<>>
               THEN guarded \o << <<"join", pad>> >> \o handler \o <<To(x), At(x)>>
             ELSE PartKids(p, body) \o <<To(x), At(x)>>)
       /\ UNCHANGED <<prog, cur, state>>

\* The entry of __finally, where its body and the landing pad come together.
Join ==
  \E step \in DueStep({"join"}) :
    /\ graph' = Edge(Edge(Create(graph, 1), cur, New), step[2], New)
    /\ cur' = New
    /\ Do(<<>>)
    /\ UNCHANGED <<prog, state>>

-----------------------------------------------------------------------------
(* The steps between the statements.                                       *)

Connect ==
  \E step \in DueStep({"at", "to", "edge", "add", "here", "exc"}) :
    /\ cur' = IF step[1] = "at" THEN step[2] ELSE cur
    /\ graph' = CASE step[1] = "at" -> graph
                  [] step[1] = "to" -> Edge(graph, cur, step[2])
                  [] step[1] = "edge" -> Edge(graph, step[2], step[3])
                  [] step[1] = "add" -> AddPart(graph, step[2], step[3], step[4])
                  [] step[1] = "here" -> AddPart(graph, step[2], step[3], cur)
                  [] step[1] = "exc" -> ExcEdge(graph, cur, step[2])
    /\ Do(<<>>)
    /\ UNCHANGED <<prog, state>>

Scope ==
  \E step \in DueStep({"push", "pop", "labelexit"}) :
    /\ state' = CASE step[1] = "push" -> [state EXCEPT ![step[2]] = Append(@, step[3])]
                  [] step[1] = "pop" -> [state EXCEPT ![step[2]] = SubSeq(@, 1, Len(@) - 1)]
                  [] step[1] = "labelexit" -> [state EXCEPT !.labelExits = @ \cup {<<step[2], cur>>}]
    /\ Do(<<>>)
    /\ UNCHANGED <<prog, cur, graph>>

\* The end of process_function: the defers, last first, and the gotos left over.
DeferChain == <<Exit>> \o Reverse(state.defers)
Finish ==
  /\ \E step \in DueStep({"finish"}) :
       LET g == Edge(graph, cur, Exit)
           h == FoldLeft(LAMBDA k, i : Edge(k, DeferChain[i], DeferChain[i + 1]), g,
                         [i \in 1 .. Len(state.defers) |-> i])
       IN graph' = FoldLeft(LAMBDA k, x : EdgesTo(k, x[1], Named(state.labels, x[2])), h, state.gotos)
  /\ Do(<<>>)
  /\ UNCHANGED <<prog, cur, state>>

Build ==
  \/ Plain \/ Sequence \/ Jump \/ Goto \/ Throw \/ AssertStmt \/ Suspend \/ TryExpr
  \/ OptionalChain \/ Defer \/ Condition \/ If \/ While \/ For \/ DoWhile \/ RangeFor
  \/ LoopExpr \/ Labeled \/ SwitchStmt \/ Case \/ Branching \/ Arm \/ Guarded \/ Try
  \/ SehTry \/ Join \/ Connect \/ Scope \/ Finish

Built == todo = <<>>
=============================================================================
