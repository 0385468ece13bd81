------------------------------- MODULE MCGuards -------------------------------
(* Instances of Guards.                                                    *)
EXTENDS Guards

v == Var("v")
u == Var("u")
w == Var("w")

MCValues == -4 .. 9
MCCarried == {"v", "w"}

-----------------------------------------------------------------------------
(* Conditions.                                                             *)

Sides == {v, Paren(v), Bin(v, "+", Lit(1)), Bin(Lit(2), "+", v), Bin(v, "-", Lit(1)),
          Paren(Bin(v, "+", Lit(1))), Bin(v, "/", Lit(2)), Bin(Lit(3), "-", v),
          Call("strlen", v), Bin(Call("strlen", v), "+", Lit(1)), w, u}
Bounds == {Null, Lit(0), Lit(3), Paren(Lit(4)), Bin(Lit(1), "-", Lit(1)), Lit(9), Sizeof(4), Sizeof(-1), u,
           \* casts that keep the value, and casts that do not: to 7 and 0
           Cast("unsigned", 2, Lit(3)), Paren(Cast("signed", 3, Unary("-", Lit(1)))),
           Cast("unsigned", 3, Unary("-", Lit(1))), Cast("unsigned", 2, Lit(4))}

Comparisons == {Bin(s, op, b) : s \in Sides, op \in Relations, b \in Bounds}
               \cup {Bin(b, op, s) : b \in {Lit(0), Lit(3)}, op \in Relations, s \in Sides}
               \cup {Bin(s, op, Lit(3)) : op \in Relations, s \in {Cast("signed", 5, v), Cast("unsigned", 2, v)}}
Atoms == {Bin(v, "!=", Null), Bin(v, "==", Lit(0)), Bin(v, "<", Lit(3)), Bin(Lit(3), "<=", v),
          Bin(Call("strlen", v), "<", Lit(3)), Bin(u, ">", Lit(1)), Bin(u, "==", v), v, Field(v, "ok")}
Truths == {v, Paren(v), Cast("signed", 5, v), Unary("!", Cast("unsigned", 2, v)), Unary("!", v), Unary("!", Paren(v)), u, w, Unary("!", Paren(Bin(v, "!=", Null))),
           Call("valid", v), Unary("!", Call("valid", v))}
Compounds == {Bin(a, op, b) : a \in Atoms, op \in {"&&", "||"}, b \in Atoms}
             \cup {Bin(Paren(Bin(a, op, Bin(v, "!=", Null))), "&&", b) :
                     a \in Atoms, op \in {"&&", "||"}, b \in {Bin(u, ">", Lit(1))}}

\* Constant expressions, with their values in the integers: None when one is undefined or
\* does not fit (a zero divisor, a negative shift or exponent, an operand of the wrong type, a
\* cast to a type that does not hold it).
Literals == {Lit(n) : n \in {0, 3, 7}} \cup {Unary("-", Lit(n)) : n \in {1, 7}} \cup {BoolLit(1)}
Operators == {"+", "-", "*", "/", "%", "**", "<<", ">>", "&", "|", "^"} \cup Relations
Folds2 == {Bin(l, op, r) : l \in Literals, op \in Operators, r \in Literals}
          \cup {Bin(l, "**", Lit(4)) : l \in Literals \ {BoolLit(1)}}
Casts == {Cast("unsigned", 2, l) : l \in Literals} \cup {Cast("signed", 3, l) : l \in Literals}
Foldable == Folds2 \cup {Bin(c, op, Lit(3)) : c \in Casts, op \in Operators}
            \cup {Cast("unsigned", 3, Paren(t)) : t \in Folds2}
            \cup {Unary(op, Paren(t)) : op \in {"-", "~", "!"}, t \in Folds2}
            \cup {Bin(Paren(t), op, Lit(2)) : op \in {"*", "/", "&&"}, t \in Folds2}

Fit(n) == IF Representable(n) THEN Int_(n) ELSE None
\* The integer q of least magnitude with l = r * q + m, the rest m having the sign of l.
Divide(l, r) == CHOOSE q \in -Half .. Half :
  LET m == l - r * q IN Magnitude(m) < Magnitude(r) /\ m * l >= 0

ExactInt(l, op, r) ==
  CASE op = "+" -> Fit(l + r)
    [] op = "-" -> Fit(l - r)
    [] op = "*" -> Fit(l * r)
    [] op = "/" -> IF r = 0 THEN None ELSE Fit(Divide(l, r))
    [] op = "%" -> IF r = 0 \/ ~Representable(Divide(l, r)) THEN None ELSE Fit(l - r * Divide(l, r))
    [] op = "**" -> IF r < 0 \/ (l = 0 /\ r > 0 /\ r % 2 ^ ExponentBits = 0) THEN None
                     ELSE Fit(IF r = 0 THEN 1 ELSE l ^ r)
    [] op = "<<" -> IF r \notin 0 .. Bits - 1 THEN None ELSE Fit(l * 2 ^ r)
    [] op = ">>" -> IF r \notin 0 .. Bits - 1 THEN None ELSE Fit(l \div 2 ^ r)
    [] op \in {"&", "|", "^"} ->
         Int_(CHOOSE n \in -Half .. Half - 1 : \A i \in 0 .. Bits - 1 :
                \E a \in {Bit(l, i)}, b \in {Bit(r, i)} :
                  Bit(n, i) = CASE op = "&" -> a * b [] op = "|" -> a + b - a * b [] OTHER -> (a + b) % 2)
    [] OTHER -> Bool_(Relate(l, op, r))

RECURSIVE Exact(_, _)
Exact(t, p) ==
  CASE t[p].kind = "Sizeof" -> IF t[p].val < 0 THEN None ELSE Fit(t[p].val)
    [] t[p].kind = "Literal" -> IF t[p].op = "bool" THEN Bool_(t[p].val = 1) ELSE Fit(t[p].val)
    [] t[p].kind = "Paren" -> Exact(t, Append(p, 1))
    [] t[p].kind = "Cast" ->
         LET x == Exact(t, Append(p, 1))
         IN IF x = None \/ Converted(t[p].op, t[p].val, x[2]) # x[2] THEN None ELSE x
    [] t[p].kind = "UnaryOp" ->
         LET x == Exact(t, Append(p, 1))
         IN CASE x = None -> None
              [] t[p].op = "!" -> Bool_(x[2] = 0)
              [] x[1] = "Bool" -> None
              [] t[p].op = "-" -> Fit(-x[2])
              [] OTHER -> Fit(-1 - x[2])
    [] t[p].kind = "BinaryOp" ->
         LET l == Exact(t, Append(p, 1))
             r == Exact(t, Append(p, 2))
         IN CASE l = None \/ r = None -> None
              [] l[1] = "Int" /\ r[1] = "Int" /\ t[p].op \notin {"&&", "||"} -> ExactInt(l[2], t[p].op, r[2])
              [] l[1] = "Bool" /\ r[1] = "Bool" /\ t[p].op = "&&" -> Bool_(l[2] * r[2] = 1)
              [] l[1] = "Bool" /\ r[1] = "Bool" /\ t[p].op \in {"==", "!="} -> Bool_(Relate(l[2], t[p].op, r[2]))
              [] OTHER -> None
    [] OTHER -> None

-----------------------------------------------------------------------------
(* Buffers.                                                                *)

Buffer(ast, decl, declarators, extent) ==
  [ast |-> ast, flows |-> <<Len(ast)>>, decl |-> decl, declarators |-> declarators, extent |-> extent]
Decl(kind) == AstNode(kind, 0, 0, "", <<>>)
Declarator(parent, n) == AstNode("array_declarator", parent, n, "", <<>>)
Other(parent) == AstNode("other", parent, 0, "", <<>>)
Alloc(f, args) == AstNode("Call", 0, 0, f, args)

Array(n) == Buffer(<<Decl("LocalDef"), Declarator(1, n), Other(2)>>, 1, 1, n)
Buffers ==
  {Array(3), Array(4),
   Buffer(<<Decl("LocalDef"), Declarator(1, None), Other(2)>>, 1, 1, 3),                 \* char b[n]
   Buffer(<<Decl("FieldDef"), Other(1), Declarator(2, 3), Other(3)>>, 1, 1, 3),
   Buffer(<<Decl("LocalDef"), Declarator(1, 3), Declarator(2, 2), Other(3)>>, 1, 2, 2),  \* char b[2][3]
   Buffer(<<AstNode("String", 0, 2, "", <<>>)>>, 1, 1, 3),
   Buffer(<<AstNode("initializer_list", 0, 4, "", <<>>)>>, 1, 1, 4),
   Buffer(<<Alloc("malloc", <<4>>)>>, 1, 1, 4), Buffer(<<Alloc("malloc", <<None>>)>>, 1, 1, 4),
   Buffer(<<Alloc("realloc", <<None, 4>>)>>, 1, 1, 4), Buffer(<<Alloc("strdup", <<None>>)>>, 1, 1, 4),
   Buffer(<<Alloc("calloc", <<2, 3>>)>>, 1, 1, 6), Buffer(<<Alloc("calloc", <<4, 4>>)>>, 1, 1, 16),
   Buffer(<<Alloc("calloc", <<2, None>>)>>, 1, 1, 4), Buffer(<<Alloc("make", <<4>>)>>, 1, 1, 4)}

-----------------------------------------------------------------------------
(* Programs.                                                               *)

Program(cond, place, stops, alternative, body, buffer) ==
  [cond |-> cond, place |-> place, stops |-> stops, alternative |-> alternative, body |-> body,
   buffer |-> buffer, exact |-> [p \in DOMAIN cond |-> Exact(cond, p)]]

Placed(cond, body, buffer) ==
  {Program(cond, place, stops, alternative, body, buffer) :
     place \in {"then", "after", "before"}, stops \in BOOLEAN, alternative \in {FALSE}}
  \cup {Program(cond, "else", FALSE, TRUE, body, buffer)}

MCCases ==
  UNION {Placed(cond, Null, Array(4)) : cond \in Comparisons \cup Compounds \cup Truths}
  \cup UNION {Placed(cond, Call("strlen", v), Array(3)) : cond \in Atoms}
  \cup UNION {Placed(Bin(s, "<", Lit(3)), Null, buffer) : s \in {v, Call("strlen", v)}, buffer \in Buffers}
  \cup {Program(Bin(v, "<", t), "before", FALSE, FALSE, Null, Array(4)) : t \in Foldable}

\* What the theorems of GuardsProofs take for granted.
ASSUME NothingOverflows
=============================================================================
