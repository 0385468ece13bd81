------------------------------- MODULE Dataflow -------------------------------
(***************************************************************************)
(* A file is parsed, the blocks of its first function are built, and the   *)
(* dataflow is built on them (DataflowBuilder).  Then the function is      *)
(* executed, with the value of one call followed through the variables; or *)
(* it is edited, and the dataflow is renewed for it alone.                 *)
(***************************************************************************)
EXTENDS DataflowBuilder

CONSTANTS
  Edits,     \* the bodies the function may be edited to
  Copying    \* TRUE if a value that a library function copies is followed, too

VARIABLES
  order,   \* where control may go, worked out once: [first, next]
  phase,   \* "build": the dataflow is to be built; "ready"; "edited"; "renewed"
  run      \* None, or [at, origin, carry, read]

vars == <<buildVars, ast, flows, order, phase, run>>

-----------------------------------------------------------------------------
(* Execution.  `carry` are the variables that hold the value of the call   *)
(* `origin`, or one computed from it.                                      *)

RECURSIVE Holds(_, _, _), Perform(_, _, _)

\* The function f called by c, whose arguments hold the value or not.
Enclosed(f, c, origin, carry) ==
  LET args == Arguments(c)
      params == Params(f)
      given == {Var(params[i]) : i \in {i \in DOMAIN params \cap DOMAIN args : Holds(args[i], origin, carry)}}
      body == Append(f, 3)
  IN FoldLeft(LAMBDA s, i : Perform(Append(body, i), origin, s),
              [carry |-> given, read |-> {}, result |-> FALSE],
              [i \in 1 .. ast[body].arity |-> i])

\* The value of the expression e is the value followed.
Holds(e, origin, carry) ==
  LET d == D(e)
  IN \/ e = origin
     \/ d = "identifier" /\ Var(e) \in carry
     \/ d \in {"binary_expression", "parenthesized_expression"}
          /\ \E p \in Parts(e) : Holds(p, origin, carry)
     \/ d = "conditional_expression" /\ \E p \in Rest(e) : Holds(p, origin, carry)
     \/ d \in {"subscript_expression", "pointer_expression"} /\ Var(e) # "&"
          /\ Holds(First(e), origin, carry)
     \/ d \in Calls
          /\ \E f \in FunctionsNamed(CalledName(e)) : Enclosed(f, e, origin, carry).result

\* The places where e reads a variable that holds it, also in the functions it calls.
ReadIn(e, origin, carry) ==
  {p \in OfType(Below(e), {"identifier"}) :
     /\ Var(p) \in carry
     /\ ~(p = First(Up(p)) /\ D(Up(p)) \in Calls \cup Updates)}
  \cup UNION {UNION {Enclosed(f, c, origin, carry).read : f \in FunctionsNamed(CalledName(c))}
              : c \in OfType(Below(e), Calls)}

\* The arguments that a library function writes, and where it copies from.
CopiedTo(c) == {Arguments(c)[i] : i \in {Propagators[v].dst : v \in {CalledName(c)} \cap DOMAIN Propagators}
                                        \cap DOMAIN Arguments(c)}
CopiedFrom(c) == {Arguments(c)[i] : i \in UNION {Propagators[v].src : v \in {CalledName(c)} \cap DOMAIN Propagators}
                                          \cap DOMAIN Arguments(c)}
FilledBy(c) == {Arguments(c)[i] : i \in UNION {Outputs[v] : v \in {CalledName(c)} \cap DOMAIN Outputs}
                                        \cap DOMAIN Arguments(c)}

Assign(v, value, kept, origin, s) ==
  [s EXCEPT !.carry = IF Holds(value, origin, s.carry) THEN @ \cup {v} ELSE IF kept THEN @ ELSE @ \ {v},
            !.read = @ \cup ReadIn(value, origin, s.carry)]

\* The statement or declaration p.
Perform(p, origin, s) ==
  LET d == D(p)
      All(ps) == FoldLeft(LAMBDA r, i : Perform(Append(p, i), origin, r), s, [i \in 1 .. ast[p].arity |-> i])
      lhs == First(p)
  IN CASE d \in {"expression_statement", "declaration"} -> All(p)
       [] d = "init_declarator" ->
            Assign(Var(CHOOSE v \in Declared(lhs) : TRUE), Append(p, 2), FALSE, origin, s)
       [] d = "assignment_expression" /\ D(lhs) = "identifier" ->
            Assign(Var(lhs), Append(p, 2), Var(p) = "+=", origin, s)
       [] d = "assignment_expression" ->
            [Assign(Var(First(lhs)), Append(p, 2), TRUE, origin, s) EXCEPT
               !.read = @ \cup UNION {ReadIn(q, origin, s.carry) : q \in Rest(lhs)}]
       [] d \in Assigning \/ d = "let_declaration" ->
            Assign(Var(lhs), Append(p, 2), d = "augmented_assignment", origin, s)
       [] d = "return_statement" ->
            [s EXCEPT !.result = @ \/ \E q \in Parts(p) : Holds(q, origin, s.carry),
                      !.read = @ \cup ReadIn(p, origin, s.carry)]
       [] d \in Calls ->
            LET copied == \E q \in CopiedFrom(p) : Holds(q, origin, s.carry)
            IN [s EXCEPT !.carry = @ \cup (IF copied /\ Copying THEN {Var(q) : q \in CopiedTo(p)} ELSE {})
                                     \cup (IF p = origin THEN {Var(q) : q \in FilledBy(p)} ELSE {}),
                         !.read = @ \cup (ReadIn(p, origin, s.carry) \ UNION {Below(q) : q \in FilledBy(p)})
                                    \cup IF copied THEN CopiedTo(p) ELSE {}]
       [] OTHER -> [s EXCEPT !.read = @ \cup ReadIn(p, origin, s.carry)]

\* The calls whose value may be followed: of functions that are not in the file.
Origins(p) == {c \in OfType(Below(p), Calls) : FunctionsNamed(CalledName(c)) = {}}
CalledIn(p) == UNION {FunctionsNamed(CalledName(c)) : c \in OfType(Below(p), Calls)}
Globals == {p \in DOMAIN ast : Len(p) = 1 /\ D(p) = "declaration"}

-----------------------------------------------------------------------------
Begin == Init /\ ast = AstOf(Tree(prog)) /\ flows = None /\ order = None /\ phase = "build" /\ run = None

\* build_dataflow at first, build_dataflow_for_functions after an edit.
Analyse ==
  /\ Built
  /\ phase \in {"build", "edited"}
  /\ flows' = ForFunctions(flows, IF phase = "build" THEN {} ELSE {Studied})
  /\ phase' = IF phase = "build" THEN "ready" ELSE "renewed"
  /\ order' = [first |-> Start(<<>>), next |-> [p \in Atoms |-> Steps(p)]]
  /\ UNCHANGED <<buildVars, ast, run>>

\* What is in the file but the body.
Outside(body) == [File(body) EXCEPT ![1].kids[3] = None]

\* The function gets a new body; the other functions keep their nodes.
Edit ==
  /\ phase = "ready" /\ run = None
  /\ prog' \in {b \in Edits : Outside(b) = Outside(prog)}
  /\ todo' = NewTodo'
  /\ cur' = Entry /\ graph' = NewGraph /\ state' = NewState
  /\ ast' = AstOf(Tree(prog'))
  /\ phase' = "edited"
  /\ UNCHANGED <<flows, order, run>>

\* The function is called with the value followed in a parameter, in a global variable that
\* was initialized with it, or nowhere yet.
Call ==
  /\ phase = "ready" /\ run = None
  /\ \E p \in order.first,
        o \in {None} \cup Range(Params(Studied)) \cup UNION {Origins(g) : g \in Globals} :
       run' = [at |-> p, origin |-> o, read |-> {},
               carry |-> FoldSet(LAMBDA g, s : Perform(g, o, s),
                                 [carry |-> {Var(q) : q \in {o} \cap Range(Params(Studied))},
                                  read |-> {}, result |-> FALSE], Globals).carry]
  /\ UNCHANGED <<buildVars, ast, flows, order, phase>>

\* The atom control has come to is executed.
Execute ==
  /\ run # None /\ run.at # End
  /\ \E p \in {Body \o run.at} :
       \E o \in IF run.origin # None THEN {run.origin}
                ELSE {None} \cup Origins(p) \cup UNION {Origins(f) : f \in CalledIn(p)} :
         \E s \in {Perform(p, o, [carry |-> run.carry, read |-> {}, result |-> FALSE])} :
           \E next \in order.next[run.at] :
             run' = [at |-> next, origin |-> o, carry |-> s.carry, read |-> s.read]
  /\ UNCHANGED <<buildVars, ast, flows, order, phase>>

Next ==
  \/ Build /\ UNCHANGED <<ast, flows, order, phase, run>>
  \/ Analyse
  \/ Edit
  \/ Call
  \/ Execute
  \/ (phase = "renewed" \/ (run # None /\ run.at = End)) /\ UNCHANGED vars

Spec == Begin /\ [][Next]_vars

-----------------------------------------------------------------------------
(* Properties.                                                             *)

\* The nodes that edges lead to from p.
RECURSIVE Led(_, _)
Led(edges, ps) ==
  LET more == {e[2] : e \in {e \in edges : e[1] \in ps}} \ ps
  IN IF more = {} THEN ps ELSE Led(edges, ps \cup more)
Carrying == {e \in flows.edges : e[3] \notin {"SIZE_FLOW", "POINTS_TO", "DEALLOC"}}

\* No flow is missed: wherever an execution reads a variable that holds the value of a call,
\* the edges lead from the call to that place, round loops, past handlers and through the
\* functions it calls (the passes of build_dataflow_impl, add_interprocedural_edges).
ValuesHavePaths ==
  run # None /\ run.read # {} => run.read \subseteq Led(Carrying, {run.origin})

\* The same with what a library function copies into its argument, which later reads of that
\* argument get.  "For production rules, rely on built-in propagators from security_patterns
\* (e.g. memcpy, strcpy) which are applied automatically in the DFG layer"
\* (docs/web-ql.md:688); add_taint_propagator_edges ends at the argument of the call.
CopiedValuesHavePaths == Copying => ValuesHavePaths

\* The atom that a node of the function is part of.
AtomOf(p) == {a \in DOMAIN order.next : IsPrefix(Body \o a, p)}
RECURSIVE Later(_)
Later(as) ==
  LET more == UNION {order.next[a] : a \in as \ {End}} \ as
  IN IF more = {} THEN as ELSE Later(as \cup more)

\* A definition flows to a use of its variable in another block if and only if control may
\* come to the use after it: by the graph, not by the order of the source (def_reaches_use).
FlowsAreExecution ==
  phase = "ready" /\ run = None =>
    LET captured == {Var(p) : p \in UNION {Captured(q) : q \in Lambdas(Everyone)}}
        local == {x \in flows.defs \cup flows.uses : x[3] = Studied /\ IsPrefix(Body, x[1])
                                                    /\ x[2] \notin captured}
        alive == Later(order.first)
    IN \A d \in local \cap flows.defs : \A a \in AtomOf(d[1]) \cap alive :
         \A after \in {Later(order.next[a])} : \A u \in local \cap flows.uses : \A b \in AtomOf(u[1]) :
           d[2] = u[2] /\ BlockOf(d[1]) # BlockOf(u[1]) =>
             ((\E t \in {"REACHING_DEF", "LOOP_CARRY"} : <<d[1], u[1], t>> \in flows.edges) <=> b \in after)

\* After an edit of one function the flows inside each function and the definitions and uses
\* of all functions are those that building everything anew would give
\* (build_dataflow_for_functions).
EditedIsFresh ==
  phase = "renewed" =>
    LET within(edges) == {e \in edges : ast[e[1]].fn = ast[e[2]].fn /\ ast[e[1]].fn # None
                                        /\ e[3] # "INTERPROCEDURAL_FLOW"}
        local(xs) == {x \in xs : x[3] # None}
    IN \A full \in {Full} :
         /\ within(flows.edges) = within(full.edges)
         /\ local(flows.defs) = local(full.defs) /\ local(flows.uses) = local(full.uses)
=============================================================================
