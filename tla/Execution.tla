------------------------------ MODULE Execution -------------------------------
(***************************************************************************)
(* What a function may execute, read off its syntax: the reference the     *)
(* control-flow graph is compared with.  It goes by the fields of the      *)
(* grammar and knows nothing of basic blocks.                              *)
(*                                                                         *)
(* An atom is a node that executes as one step: a simple statement, a      *)
(* jump, a leaf of a condition.  Start(p) are the atoms control may come   *)
(* to first when it enters the node at p, After(p) when it has completed   *)
(* it, Steps(p) after the atom at p; End is the end of the function.       *)
(***************************************************************************)
EXTENDS CfgBuilder

End == <<0>>

Type(p) == NodeAt(prog, p).t
Field(p) == NodeAt(prog, p).f
Up(p) == Front(p)
Arity(p) == Len(NodeAt(prog, p).kids)

\* The child of p in field f, as a path; a set of at most one.
Child(p, f) == {Append(p, i) : i \in {j \in 1 .. Arity(p) : NodeAt(prog, p).kids[j].f = f}}

Straight == {"compound", "block", "list", "unsafe", "exprstmt", "case", "arm", "marm", "body"}
Connectives == {"paren", "and", "or"}
Branches == {"if", "while", "for", "do"}
Loops == {"while", "for", "do", "range", "loop"}
Composite == Straight \cup Branches \cup Loops
             \cup {"switch", "label", "with", "sync", "try", "seh",
                   "catch_clause", "except", "finally", "else_clause", "for_clause"}

RECURSIVE InCondition(_)
InCondition(p) ==
  /\ p # <<>>
  /\ \/ Field(p) = "cond" /\ Type(Up(p)) \in Branches \cup {"for_clause"}
     \/ Type(Up(p)) \in Connectives /\ InCondition(Up(p))

\* The nearest node around p of one of the types ts; a set of at most one.
RECURSIVE Around(_, _)
Around(p, ts) ==
  IF p = <<>> THEN {} ELSE IF Type(Up(p)) \in ts THEN {Up(p)} ELSE Around(Up(p), ts)

Arms(p) == {q \in Paths(NodeAt(prog, p), p) : Type(q) \in {"arm", "marm"}
                                             /\ p \in Around(q, {"branching", "match"})}

RECURSIVE AtomsIn(_)
AtomsIn(p) ==
  IF Field(p) \in {"label", "pattern"} THEN {}
  ELSE IF Type(p) \in Composite \/ (Type(p) \in Connectives /\ InCondition(p))
    THEN UNION {AtomsIn(Append(p, i)) : i \in 1 .. Arity(p)}
  ELSE IF Type(p) \in {"branching", "match"} THEN {p} \cup UNION {AtomsIn(q) : q \in Arms(p)}
  ELSE {p}
Atoms == AtomsIn(<<>>)

\* Deferred calls run last, the last one first.
Earlier(p, q) ==
  \/ \E i \in 1 .. Len(p) : /\ i <= Len(q)
                            /\ p[i] < q[i]
                            /\ \A j \in 1 .. i - 1 : p[j] = q[j]
  \/ Len(p) < Len(q) /\ SubSeq(q, 1, Len(p)) = p
Deferred == {p \in Atoms : Type(p) = "defer"}
LatestOf(ps) == IF ps = {} THEN {End} ELSE {CHOOSE p \in ps : \A q \in ps : p = q \/ Earlier(q, p)}
Leaving == LatestOf(Deferred)

-----------------------------------------------------------------------------
RECURSIVE Start(_), After(_), Test(_), Yes(_), No(_)

StartAll(ps) == UNION {Start(p) : p \in ps}
Cases(p) == {q \in Paths(NodeAt(prog, p), p) : Type(q) = "case" /\ p \in Around(q, {"switch"})}

Start(p) ==
  LET t == Type(p)
      body == Child(p, "body")
      in(f) == Child(p, f)
      first(fs) == CHOOSE q \in UNION {in(f) : f \in fs} :
                     \A r \in UNION {in(f) : f \in fs} : q = r \/ Earlier(q, r)
  IN CASE t \in Straight \cup {"label", "else_clause"} ->
            IF in("stmt") = {} THEN After(p) ELSE Start(first({"stmt"}))
       [] t \in {"if", "for", "for_clause"} /\ in("init") # {} -> StartAll(in("init"))
       [] t = "for" /\ in("clause") # {} -> StartAll(in("clause"))
       [] t \in {"if", "while"} -> StartAll(in("cond"))
       [] t = "for" \/ t = "for_clause" -> Test(p)
       [] t \in {"do", "loop", "try", "seh", "catch_clause", "except", "finally"} -> StartAll(body)
       [] t = "range" -> StartAll(in("decl"))
       [] t = "switch" -> in("cond")
       [] t \in {"with", "sync"} -> {first({"value"})}
       [] t \in Connectives /\ InCondition(p) -> Start(Append(p, 1))
       [] t = "defer" -> After(p)
       [] OTHER -> {p}

\* The test of a loop and what comes of it; a test that is missing may fail, too.
Test(p) ==
  LET q == IF Type(p) = "for_clause" THEN Up(p) ELSE p
      conds == Child(p, "cond") \cup UNION {Child(c, "cond") : c \in Child(p, "clause")}
  IN IF conds # {} THEN StartAll(conds) ELSE StartAll(Child(q, "body")) \cup After(q)
Update(p) ==
  LET updates == Child(p, "upd") \cup UNION {Child(c, "upd") : c \in Child(p, "clause")}
  IN IF updates # {} THEN StartAll(updates) ELSE Test(p)

\* The next turn of the loop at p.
Again(p) ==
  CASE Type(p) = "for" -> Update(p)
    [] Type(p) = "loop" -> StartAll(Child(p, "body"))
    [] Type(p) \in {"while", "do"} -> StartAll(Child(p, "cond"))
    [] Type(p) = "range" -> StartAll(Child(p, "body")) \cup After(p)

After(p) ==
  IF p = <<>> THEN Leaving
  ELSE
    LET q == Up(p)
        t == Type(q)
        f == Field(p)
        loop == IF t = "for_clause" THEN Up(q) ELSE q
        next == {r \in Child(q, "stmt") \cup Child(q, "value") : Earlier(p, r)}
        following == CHOOSE r \in next : \A s \in next : r = s \/ Earlier(r, s)
    IN CASE Type(p) \in {"arm", "marm"} -> UNION {After(s) : s \in Around(p, {"branching", "match"})}
         [] t \in Straight /\ Type(p) \notin {"arm", "marm"} ->
              IF {r \in next : Field(r) = "stmt"} = {} THEN After(q) ELSE Start(following)
         [] t = "if" /\ f = "init" -> StartAll(Child(q, "cond"))
         [] t \in {"for", "for_clause"} /\ f \in {"init", "upd"} -> Test(loop)
         [] t \in Loops /\ f = "body" -> Again(q)
         [] t = "range" /\ f = "decl" -> StartAll(Child(q, "range"))
         [] t = "range" /\ f = "range" -> Again(q)
         [] t \in {"with", "sync"} /\ f = "value" ->
              IF {r \in next : Field(r) = "value"} = {} THEN StartAll(Child(q, "body")) ELSE Start(following)
         [] t = "seh" /\ f = "body" /\ Child(q, "finally") # {} -> StartAll(Child(q, "finally"))
         [] OTHER -> After(q)

\* Where a condition leads that holds, and one that does not.
Yes(p) ==
  LET q == Up(p)
  IN CASE Type(q) = "paren" -> Yes(q)
       [] Type(q) = "and" -> IF p[Len(p)] = 1 THEN Start(Append(q, 2)) ELSE Yes(q)
       [] Type(q) = "or" -> Yes(q)
       [] Type(q) = "if" -> StartAll(Child(q, "then"))
       [] Type(q) = "for_clause" -> StartAll(Child(Up(q), "body"))
       [] OTHER -> StartAll(Child(q, "body"))
No(p) ==
  LET q == Up(p)
  IN CASE Type(q) = "paren" -> No(q)
       [] Type(q) = "and" -> No(q)
       [] Type(q) = "or" -> IF p[Len(p)] = 1 THEN Start(Append(q, 2)) ELSE No(q)
       [] Type(q) = "if" /\ Child(q, "else") # {} -> StartAll(Child(q, "else"))
       [] Type(q) = "for_clause" -> After(Up(q))
       [] OTHER -> After(q)

-----------------------------------------------------------------------------
(* Jumps.                                                                  *)

LabelledBy(name) == {p \in Paths(prog, <<>>) : Type(p) = "label" /\ NodeAt(prog, p).name = name}

\* The first handler of the nearest try that p is in the body of.
RECURSIVE Handler(_)
Handler(p) ==
  IF p = <<>> THEN {End}
  ELSE LET q == Up(p)
           handlers == Child(q, "handler")
       IN IF Type(q) \in {"try", "seh"} /\ Field(p) = "body" /\ handlers # {}
            THEN Start(CHOOSE h \in handlers : \A g \in handlers : g = h \/ Earlier(h, g))
          ELSE IF Type(q) = "seh" /\ Field(p) = "body" THEN StartAll(Child(q, "finally"))
          ELSE Handler(q)

Steps(p) ==
  LET n == NodeAt(prog, p)
      t == n.t
  IN IF InCondition(p) THEN Yes(p) \cup No(p)
     ELSE CASE t = "return" -> Leaving
       [] t = "call" /\ n.name \in NoReturn -> Leaving
       [] t = "call" /\ n.name = "longjmp" ->
            Leaving \cup {q \in Atoms : Type(q) = "call" /\ NodeAt(prog, q).name = "setjmp"}
       [] t = "throw" -> Handler(p)
       [] t \in {"branching", "match"} -> StartAll(Arms(p))
       [] t = "assert" -> After(p) \cup Handler(p)
       [] t \in {"suspend", "tryexpr"} -> After(p) \cup Leaving
       [] t = "break" /\ n.name = None -> UNION {After(q) : q \in Around(p, Loops \cup {"switch", "branching"})}
       [] t = "breakexpr" -> UNION {After(q) : q \in Around(p, Loops)}
       [] t = "continue" /\ n.name = None -> UNION {Again(q) : q \in Around(p, Loops)}
       [] t = "continue" -> UNION {Again(Append(q, 1)) : q \in LabelledBy(n.name)}
       [] t = "goto" -> StartAll(LabelledBy(n.name))
       [] t = "leave" -> UNION {After(r) : r \in UNION {Child(q, "body") : q \in Around(p, {"seh"})}}
       [] t = "defer" -> LatestOf({d \in Deferred : Earlier(d, p)})
       [] Type(Up(p)) = "switch" ->
            StartAll(Cases(Up(p)))
            \cup IF \E c \in Cases(Up(p)) : Child(c, "label") = {} THEN {} ELSE After(Up(p))
       [] OTHER -> After(p)
=============================================================================
