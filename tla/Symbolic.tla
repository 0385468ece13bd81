------------------------------- MODULE Symbolic -------------------------------
(***************************************************************************)
(* Expressions of the analysed program and the constant folder over them:  *)
(* SymbolicEval of web-ql/src/symbolic.rs.                                 *)
(*                                                                         *)
(* An expression is a tree: a function from the paths of its nodes to the  *)
(* nodes.  A path is a sequence of child positions, so that an ancestor is *)
(* a prefix.                                                               *)
(***************************************************************************)
EXTENDS Integers, Sequences, SequencesExt, FiniteSetsExt, Folds

CONSTANTS
  Bits,         \* the width of the evaluator's integers: 64
  ExponentBits  \* the width of an exponent, which is not negative: 32

\* (The provers do not know what a power of an integer is.)  Powers of 2 with a larger
\* exponent do not fit the evaluator's integers.
ASSUME BitsAssumption ==
  /\ Bits \in Nat /\ Bits >= 3 /\ 2 ^ (Bits - 1) \in Nat
  /\ ExponentBits \in Nat /\ Bits <= 2 ^ ExponentBits

-----------------------------------------------------------------------------
(* Expressions.                                                            *)

Node(kind, op, val, kids) ==
  [p \in {<<>>} \cup UNION {{<<i>> \o q : q \in DOMAIN kids[i]} : i \in DOMAIN kids} |->
     IF p = <<>> THEN [kind |-> kind, op |-> op, val |-> val] ELSE kids[p[1]][Tail(p)]]
Lit(n)        == Node("Literal", "int", n, <<>>)
Null          == Node("Literal", "null", 0, <<>>)
BoolLit(b)    == Node("Literal", "bool", b, <<>>)
Var(x)        == Node("Identifier", x, 0, <<>>)
Paren(t)      == Node("Paren", "", 0, <<t>>)
Cast(sign, width, t) == Node("Cast", sign, width, <<t>>)   \* to an integer type
Unary(op, t)  == Node("UnaryOp", op, 0, <<t>>)
Bin(l, op, r) == Node("BinaryOp", op, 0, <<l, r>>)
Call(f, t)    == Node("Call", f, 0, <<t>>)
Sizeof(n)     == Node("Sizeof", "", n, <<>>)
Field(t, x)   == Node("FieldAccess", x, 0, <<t>>)

-----------------------------------------------------------------------------
(* Integers of a given width, and what the operators of a program compute. *)

Half == 2 ^ (Bits - 1)
Wrap(n) == ((n + Half) % (2 * Half)) - Half
Representable(n) == n \in -Half .. Half - 1

\* Division rounds towards zero and the remainder has the sign of the dividend.
Magnitude(n) == IF n < 0 THEN -n ELSE n

\* Mutant: division rounds down.
QuotientFloor(l, r) == IF r < 0 THEN (-l) \div (-r) ELSE l \div r

Quotient(l, r) ==
  LET q == Magnitude(l) \div Magnitude(r) IN IF (l < 0) = (r < 0) THEN q ELSE -q
Remainder(l, r) == l - r * Quotient(l, r)

\* wrapping_pow: a negative exponent is replaced by 0, and the higher bits of one that is too
\* wide are cut off.
Exponent(r) == IF r < 0 THEN 0 ELSE r % 2 ^ ExponentBits
Power(l, r) == IF Exponent(r) = 0 THEN 1 ELSE l ^ Exponent(r)

Truth(b) == IF b THEN 1 ELSE 0
Unknown == <<"Unknown", 0>>
Int_(n) == <<"Int", n>>
Bool_(b) == <<"Bool", Truth(b)>>

\* The bits of two's complement, and the integer that has them.
Bit(n, i) == (n \div 2 ^ i) % 2
BitsOf(n) == {i \in 0 .. Bits - 1 : Bit(n, i) = 1}
OfBits(bits) == Wrap(MapThenSumSet(LAMBDA i : 2 ^ i, bits))

Relate(l, op, r) ==
  CASE op = "==" -> l = r
    [] op = "!=" -> l # r
    [] op = "<"  -> l < r
    [] op = "<=" -> l <= r
    [] op = ">"  -> l > r
    [] op = ">=" -> l >= r
Relations == {"==", "!=", "<", "<=", ">", ">="}

\* Two integer operands.  A guard that fails (a zero divisor, a shift by the width or more)
\* leaves the value unknown; MIN / -1 and MIN % -1 abort the program.
IntOp(l, op, r) ==
  CASE op = "+" -> Int_(Wrap(l + r))
    [] op = "-" -> Int_(Wrap(l - r))
    [] op = "*" -> Int_(Wrap(l * r))
    [] op = "/" /\ r # 0 -> IF l = -Half /\ r = -1 THEN <<"Panic", 0>> ELSE Int_(Quotient(l, r))
    [] op = "%" /\ r # 0 -> IF l = -Half /\ r = -1 THEN <<"Panic", 0>> ELSE Int_(Remainder(l, r))
    [] op = "**" -> Int_(Wrap(Power(l, r)))
    [] op = "<<" /\ r \in 0 .. Bits - 1 -> Int_(Wrap(l * 2 ^ r))
    [] op = ">>" /\ r \in 0 .. Bits - 1 -> Int_(l \div 2 ^ r)
    [] op = "&" -> Int_(OfBits(BitsOf(l) \cap BitsOf(r)))
    [] op = "|" -> Int_(OfBits(BitsOf(l) \cup BitsOf(r)))
    [] op = "^" -> Int_(OfBits((BitsOf(l) \cup BitsOf(r)) \ (BitsOf(l) \cap BitsOf(r))))
    [] op \in Relations -> Bool_(Relate(l, op, r))
    [] OTHER -> Unknown

\* Two Boolean operands.
BoolOp(l, op, r) ==
  CASE op = "&&" -> Bool_(l = 1 /\ r = 1)
    [] op = "||" -> Bool_(l = 1 \/ r = 1)
    [] op = "==" -> Bool_(l = r)
    [] op = "!=" -> Bool_(l # r)
    [] OTHER -> Unknown

\* One operand.  -MIN overflows: it aborts a debug build and wraps in a release build.
UnaryValue(op, v) ==
  CASE op = "-" /\ v[1] = "Int" -> IF v[2] = -Half THEN <<"Panic", 0>> ELSE Int_(-v[2])
    [] op = "~" /\ v[1] = "Int" -> Int_(-v[2] - 1)
    [] op = "!" /\ v[1] = "Int" -> Bool_(v[2] = 0)
    [] op = "!" /\ v[1] = "Bool" -> Bool_(v[2] = 0)
    [] op = "+" /\ v[1] = "Int" -> v
    [] OTHER -> Unknown

-----------------------------------------------------------------------------
(* SymbolicEval::compute.                                                  *)

\* The value of a node, from those of its operands.  A literal that the evaluator's integers
\* cannot hold is not parsed; a sizeof carries the array size of its operand's declaration,
\* when there is one (a negative val otherwise).  A cast is looked through, like a parenthesis.
SymAt(t, val, p) ==
  LET node == t[p]
      left == val[Append(p, 1)]
      right == val[Append(p, 2)]
  IN CASE node.kind = "Literal" ->
            IF node.op = "bool" THEN Bool_(node.val = 1)
            ELSE IF Representable(node.val) THEN Int_(node.val) ELSE Unknown
       [] node.kind \in {"Paren", "Cast"} -> left
       [] node.kind = "Sizeof" -> IF node.val >= 0 THEN Int_(node.val) ELSE Unknown
       [] node.kind = "BinaryOp" ->
            IF "Panic" \in {left[1], right[1]} THEN <<"Panic", 0>>
            ELSE IF left[1] = "Int" /\ right[1] = "Int" THEN IntOp(left[2], node.op, right[2])
            ELSE IF left[1] = "Bool" /\ right[1] = "Bool" THEN BoolOp(left[2], node.op, right[2])
            ELSE Unknown
       [] node.kind = "UnaryOp" -> IF left[1] = "Panic" THEN left ELSE UnaryValue(node.op, left)
       [] OTHER -> Unknown
Sym(t) == LET val[p \in DOMAIN t] == SymAt(t, val, p) IN val

\* eval_int of a node: the integer, or nothing.
IsInt(t, p) == Sym(t)[p][1] = "Int"
IntOf(t, p) == Sym(t)[p][2]
=============================================================================
