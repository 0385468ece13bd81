------------------------------ MODULE RuleParser ------------------------------
(***************************************************************************)
(* The parser of rule files, web-ql/src/parser.rs: a recursive descent     *)
(* over the tokens of a file.                                              *)
(*                                                                         *)
(* A token is <<kind, text>>: punctuation and keywords have no text, an    *)
(* identifier and a string have theirs.  A parse is refused or yields a    *)
(* value and the position behind it.  Spans, error texts, the severity,    *)
(* tags and message of a rule, float and regex literals, propagators and   *)
(* the switches of a taint clause are left out.                            *)
(***************************************************************************)
EXTENDS Integers, Sequences, TLC

Tok(ts, p) == IF p \in DOMAIN ts THEN ts[p][1] ELSE "eof"
Text(ts, p) == ts[p][2]

Parsed(v, p) == [ok |-> TRUE, val |-> v, pos |-> p]
Refused == [ok |-> FALSE, val |-> <<>>, pos |-> 0]

\* What follows a parse: on to F of its value and position, or the value made into another one,
\* or a token expected behind it.
Then(r, F(_, _)) == IF r.ok THEN F(r.val, r.pos) ELSE Refused
Made(r, F(_)) == IF r.ok THEN Parsed(F(r.val), r.pos) ELSE Refused
Expect(ts, r, kind) == IF r.ok /\ Tok(ts, r.pos) = kind THEN Parsed(r.val, r.pos + 1) ELSE Refused

-----------------------------------------------------------------------------
(* Syntax trees.  A literal is a value of the evaluator: <<sort, datum>>.  *)

Both(op, a, b) == [op |-> op, a |-> a, b |-> b]
Not(a) == [op |-> "not", a |-> a]
Paren(a) == [op |-> "paren", a |-> a]
Ident(n) == [op |-> "ident", name |-> n]
Lit(v) == [op |-> "lit", val |-> v]
Step(of, m, args) == [op |-> "step", of |-> of, m |-> m, args |-> args]
Compare(l, rel, r) == [op |-> "compare", lhs |-> l, rel |-> rel, rhs |-> r]
Matches(of, ty, fields) == [op |-> "matches", of |-> of, ty |-> ty, fields |-> fields]
PredCall(n, args) == [op |-> "call", name |-> n, args |-> args]
Quantified(q, v, ty, body) == [op |-> q, var |-> v, ty |-> ty, body |-> body]
LetIn(v, bind, body) == [op |-> "let", var |-> v, bind |-> bind, body |-> body]
Find(binds, cond) == [binds |-> binds, cond |-> cond]

True == Lit(<<"bool", TRUE>>)

\* The literal that a token stands for.
Literals ==
  {"str", "int", "true", "false", "null"}
LiteralAt(ts, p) ==
  CASE Tok(ts, p) \in {"str", "int"} -> ts[p]
    [] Tok(ts, p) = "true" -> <<"bool", TRUE>>
    [] Tok(ts, p) = "false" -> <<"bool", FALSE>>
    [] OTHER -> <<"null", 0>>

\* An alias of the taxonomy, NodeType("raw"), or a name.
Type(ts, p) ==
  CASE Tok(ts, p) = "type" -> Parsed(<<"alias", Text(ts, p)>>, p + 1)
    [] Tok(ts, p) = "ident" -> Parsed(<<"named", Text(ts, p)>>, p + 1)
    [] Tok(ts, p) = "NodeType" /\ Tok(ts, p + 1) = "(" /\ Tok(ts, p + 2) = "str" /\ Tok(ts, p + 3) = ")" ->
         Parsed(<<"raw", Text(ts, p + 2)>>, p + 4)
    [] OTHER -> Refused

-----------------------------------------------------------------------------
(* Expressions.  The forms refer to one another through Parse.             *)

RECURSIVE Parse(_, _, _), BinaryRest(_, _, _, _), Dots(_, _, _), Items(_, _, _, _, _)

Expr(ts, p) == Parse("or", ts, p)

\* parse_or_expr and parse_and_expr: operators of one level associate to the left.
Operand == [or |-> "and", and |-> "not"]

BinaryRest(ts, l, p, op) ==
  IF Tok(ts, p) # op THEN Parsed(l, p)
  ELSE Then(Parse(Operand[op], ts, p + 1), LAMBDA r, q : BinaryRest(ts, Both(op, l, r), q, op))

Binary(ts, p, op) == Then(Parse(Operand[op], ts, p), LAMBDA l, q : BinaryRest(ts, l, q, op))

\* The bound expression is a method chain, the body reaches as far as an expression can.
LetExpr(ts, p) ==
  IF Tok(ts, p + 1) # "ident" \/ Tok(ts, p + 2) # "=" THEN Refused
  ELSE Then(Expect(ts, Parse("call", ts, p + 3), "in"), LAMBDA bind, q :
         Made(Expr(ts, q), LAMBDA body : LetIn(Text(ts, p + 1), bind, body)))

\* `name : Type`
Binding(ts, p) ==
  IF Tok(ts, p) # "ident" \/ Tok(ts, p + 1) # ":" THEN Refused
  ELSE Made(Type(ts, p + 2), LAMBDA ty : [name |-> Text(ts, p), ty |-> ty])

Item(what, ts, p) ==
  CASE what = "expr" -> Expr(ts, p)
    [] what = "param" -> Binding(ts, p)
    [] what = "literal" /\ Tok(ts, p) \in Literals -> Parsed(LiteralAt(ts, p), p + 1)
    [] what = "language" /\ Tok(ts, p) = "ident" -> Parsed(Text(ts, p), p + 1)
    [] what = "ref" /\ Tok(ts, p) \in {"ident", "str"} -> Parsed(Text(ts, p), p + 1)
    [] what = "field" /\ Tok(ts, p) = "ident" /\ Tok(ts, p + 1) = ":" ->
         Made(Expr(ts, p + 2), LAMBDA e : [field |-> Text(ts, p), is |-> e])
    [] OTHER -> Refused

\* A list, with a comma between the items and one allowed behind the last.
Items(what, ts, p, close, acc) ==
  IF Tok(ts, p) = close THEN Parsed(acc, p + 1)
  ELSE Then(Item(what, ts, p), LAMBDA i, q :
         CASE Tok(ts, q) = "," -> Items(what, ts, q + 1, close, Append(acc, i))
           [] Tok(ts, q) = close -> Parsed(Append(acc, i), q + 1)
           [] OTHER -> Refused)

\* parse_node_pattern
Pattern(ts, p, of) ==
  Then(Type(ts, p), LAMBDA ty, q :
    Made(IF Tok(ts, q) = "{" THEN Items("field", ts, q + 1, "}", <<>>) ELSE Parsed(<<>>, q),
         LAMBDA fields : Matches(of, ty, fields)))

CmpOps == {"==", "!=", "<", ">", "<=", ">=", "in"}

\* Comparisons do not associate.
CompareExpr(ts, p) ==
  Then(Parse("call", ts, p), LAMBDA l, q :
    CASE Tok(ts, q) = "matches" -> Pattern(ts, q + 1, l)
      [] Tok(ts, q) \in CmpOps -> Made(Parse("call", ts, q + 1), LAMBDA r : Compare(l, Tok(ts, q), r))
      [] OTHER -> Parsed(l, q))

\* Mutant: what follows a `not` is a whole conjunction.
NotExprGreedy(ts, p) ==
  CASE Tok(ts, p) = "not" -> Made(Parse("and", ts, p + 1), Not)
    [] Tok(ts, p) = "let" -> LetExpr(ts, p)
    [] OTHER -> CompareExpr(ts, p)

NotExpr(ts, p) ==
  CASE Tok(ts, p) = "not" -> Made(Parse("not", ts, p + 1), Not)
    [] Tok(ts, p) = "let" -> LetExpr(ts, p)
    [] OTHER -> CompareExpr(ts, p)

\* The steps of a method chain; a field is a method without arguments.
Dots(ts, e, p) ==
  IF Tok(ts, p) # "." THEN Parsed(e, p)
  ELSE IF Tok(ts, p + 1) # "ident" THEN Refused
  ELSE Then(IF Tok(ts, p + 2) = "(" THEN Items("expr", ts, p + 3, ")", <<>>) ELSE Parsed(<<>>, p + 2),
            LAMBDA args, q : Dots(ts, Step(e, Text(ts, p + 1), args), q))

\* `exists` and `forall`, behind the keyword
Quantifier(ts, p, q) ==
  IF Tok(ts, p) # "(" THEN Refused
  ELSE Then(Expect(ts, Binding(ts, p + 1), "|"), LAMBDA b, at :
         Made(Expect(ts, Expr(ts, at), ")"), LAMBDA body : Quantified(q, b.name, b.ty, body)))

Primary(ts, p) ==
  CASE Tok(ts, p) = "(" -> Made(Expect(ts, Expr(ts, p + 1), ")"), Paren)
    [] Tok(ts, p) \in {"exists", "forall"} -> Quantifier(ts, p + 1, Tok(ts, p))
    [] Tok(ts, p) = "ident" /\ Tok(ts, p + 1) # "(" -> Parsed(Ident(Text(ts, p)), p + 1)
    [] Tok(ts, p) = "ident" /\ Tok(ts, p + 1) = "(" ->
         Made(Items("expr", ts, p + 2, ")", <<>>), LAMBDA args : PredCall(Text(ts, p), args))
    [] Tok(ts, p) = "[" -> Made(Items("literal", ts, p + 1, "]", <<>>), LAMBDA vs : Lit(<<"list", vs>>))
    [] Tok(ts, p) \in Literals -> Parsed(Lit(LiteralAt(ts, p)), p + 1)
    [] OTHER -> Refused

CallExpr(ts, p) == Then(Primary(ts, p), LAMBDA e, q : Dots(ts, e, q))

Parse(what, ts, p) ==
  CASE what \in {"or", "and"} -> Binary(ts, p, what)
    [] what = "not" -> NotExpr(ts, p)
    [] what = "call" -> CallExpr(ts, p)

-----------------------------------------------------------------------------
(* Clauses and top-level items.                                            *)

RECURSIVE Bindings(_, _, _), Alternatives(_, _, _), TaintBody(_, _, _), RuleBody(_, _, _),
          Attributes(_, _, _, _), FileItems(_, _, _)

\* parse_binding_list
Bindings(ts, p, acc) ==
  Then(Binding(ts, p), LAMBDA b, q :
    IF Tok(ts, q) = "," THEN Bindings(ts, q + 1, Append(acc, b)) ELSE Parsed(Append(acc, b), q))

\* `find bindings where condition`; without a condition every binding matches.
FindExpr(ts, p) ==
  IF Tok(ts, p) # "find" THEN Refused
  ELSE Then(Bindings(ts, p + 1, <<>>), LAMBDA binds, q :
         IF Tok(ts, q) # "where" THEN Parsed(Find(binds, True), q)
         ELSE Made(Expr(ts, q + 1), LAMBDA cond : Find(binds, cond)))

\* parse_find_expr_alternatives: the condition of an alternative has already taken an `or`
\* behind it for its own.
Alternatives(ts, p, acc) ==
  Then(FindExpr(ts, p), LAMBDA f, q :
    IF Tok(ts, q) = "or" /\ Tok(ts, q + 1) = "find" THEN Alternatives(ts, q + 1, Append(acc, f))
    ELSE Parsed(Append(acc, f), q))

\* parse_attr_block_as_find_expr: { kind: Type, name: "text" }
Attributes(ts, p, ty, cond) ==
  LET behind(q) == IF Tok(ts, q) = "," THEN q + 1 ELSE q
  IN CASE Tok(ts, p) = "}" -> Parsed(<<Find(<<[name |-> "_n", ty |-> ty]>>, cond)>>, p + 1)
       [] Tok(ts, p) # "}" /\ (Tok(ts, p) # "ident" \/ Tok(ts, p + 1) # ":") -> Refused
       [] OTHER ->
            CASE Text(ts, p) = "kind" -> Then(Type(ts, p + 2), LAMBDA t, q : Attributes(ts, behind(q), t, cond))
              [] Text(ts, p) = "name" /\ Tok(ts, p + 2) = "str" ->
                   Attributes(ts, behind(p + 3), ty, Compare(Step(Ident("_n"), "name", <<>>), "==", Lit(ts[p + 2])))
              [] Text(ts, p) = "name" /\ Tok(ts, p + 2) # "str" -> Refused
              [] OTHER -> Then(Expr(ts, p + 2), LAMBDA e, q : Attributes(ts, behind(q), ty, cond))

\* The sections of a taint clause; one that is given again replaces the earlier one.
TaintBody(ts, p, clause) ==
  CASE Tok(ts, p) = "}" -> Parsed(clause, p + 1)
    [] Tok(ts, p) \in {"sources", "sinks", "sanitizers"} /\ Tok(ts, p + 1) = ":" /\ Tok(ts, p + 2) = "[" ->
         Then(Items("ref", ts, p + 3, "]", <<>>), LAMBDA refs, q : TaintBody(ts, q, [clause EXCEPT ![Tok(ts, p)] = refs]))
    [] OTHER -> Refused

NoEndpoints == [clause |-> "taint", sources |-> <<>>, sinks |-> <<>>, sanitizers |-> <<>>]

\* parse_rule, behind its opening brace
RuleBody(ts, p, rule) ==
  LET with(clause) == [rule EXCEPT !.clauses = Append(@, clause)]
  IN CASE Tok(ts, p) = "}" -> Parsed(rule, p + 1)
       [] Tok(ts, p) = "languages" /\ Tok(ts, p + 1) = ":" /\ Tok(ts, p + 2) = "[" ->
            Then(Items("language", ts, p + 3, "]", <<>>), LAMBDA langs, q : RuleBody(ts, q, [rule EXCEPT !.langs = <<langs>>]))
       [] Tok(ts, p) = "find" ->
            Then(FindExpr(ts, p), LAMBDA f, q :
              RuleBody(ts, q, with([clause |-> "search", binds |-> f.binds, cond |-> f.cond])))
       [] Tok(ts, p) = "taint" /\ Tok(ts, p + 1) = "{" ->
            Then(TaintBody(ts, p + 2, NoEndpoints), LAMBDA t, q : RuleBody(ts, q, with(t)))
       [] OTHER -> Refused

\* `pred name(params) = expr`, or with the body in braces
PredItem(ts, p) ==
  IF Tok(ts, p + 1) # "ident" \/ Tok(ts, p + 2) # "(" THEN Refused
  ELSE Then(Items("param", ts, p + 3, ")", <<>>), LAMBDA params, q :
         Made(CASE Tok(ts, q) = "=" -> Expr(ts, q + 1)
                [] Tok(ts, q) = "{" -> Expect(ts, Expr(ts, q + 1), "}")
                [] OTHER -> Refused,
              LAMBDA body : [item |-> "pred", name |-> Text(ts, p + 1), params |-> params, body |-> body]))

\* What an endpoint finds, behind its name: parameters may come first, which nothing reads.
EndpointFinds(ts, p) ==
  Then(IF Tok(ts, p) = "(" THEN Items("param", ts, p + 1, ")", <<>>) ELSE Parsed(<<>>, p), LAMBDA params, q :
    IF Tok(ts, q) = "=" THEN Alternatives(ts, q + 1, <<>>) ELSE Refused)

\* A source, a sink or a sanitizer; the last has no attribute block.
EndpointItem(ts, p) ==
  Made(CASE Tok(ts, p + 1) # "ident" -> Refused
         [] Tok(ts, p + 1) = "ident" /\ Tok(ts, p + 2) = "{" /\ Tok(ts, p) # "sanitizer" ->
              Attributes(ts, p + 3, <<"alias", "Node">>, True)
         [] OTHER -> EndpointFinds(ts, p + 2),
       LAMBDA alts : [item |-> Tok(ts, p), name |-> Text(ts, p + 1), alts |-> alts])

RuleItem(ts, p) ==
  IF Tok(ts, p + 1) # "str" \/ Tok(ts, p + 2) # "{" THEN Refused
  ELSE RuleBody(ts, p + 3, [item |-> "rule", id |-> Text(ts, p + 1), langs |-> <<>>, clauses |-> <<>>])

TopLevel(ts, p) ==
  CASE Tok(ts, p) = "rule" -> RuleItem(ts, p)
    [] Tok(ts, p) = "pred" -> PredItem(ts, p)
    [] Tok(ts, p) \in {"source", "sink", "sanitizer"} -> EndpointItem(ts, p)
    [] OTHER -> Refused

FileItems(ts, p, acc) ==
  IF Tok(ts, p) = "eof" THEN Parsed(acc, p) ELSE Then(TopLevel(ts, p), LAMBDA i, q : FileItems(ts, q, Append(acc, i)))

\* parse_rule_file: the items of a file, or a refusal
ParseFile(ts) == FileItems(ts, 1, <<>>)

=============================================================================
