-------------------------------- MODULE Guards --------------------------------
(***************************************************************************)
(* What a conditional establishes about a value on the way to a target:    *)
(* web-ql/src/guard.rs, and its use by the `guards` of the taint engine    *)
(* (is_guarded in web-ql/src/taint.rs), against the runs of the program.   *)
(*                                                                         *)
(* The program is one conditional whose condition tests the variable v,    *)
(* the value a rule asks about, with the target before it, in one of its   *)
(* branches or behind it.  The analysis gives its verdicts, then the       *)
(* program runs from any values of its variables.                          *)
(***************************************************************************)
EXTENDS Sizes

CONSTANTS
  Cases,      \* the programs: see MCGuards
  Values,     \* the values of the variables
  Carried     \* the variables that the dataflow graph says v's value reaches

VARIABLES
  case,       \* the program
  verdicts,   \* the analysis' answers about it
  env,        \* the values of the variables in this run of it
  pc          \* where this run is

vars == <<case, verdicts, env, pc>>

-----------------------------------------------------------------------------
(* The syntax around the condition: the Conditional is the root, and its   *)
(* children are the condition, the consequence and the alternative.        *)

Root == <<>>
Condition == <<1>>
Consequence == <<2>>
Alternative == <<3>>
Tree(c) == Node("Conditional", "", 0, <<c.cond, c.body>> \o IF c.alternative THEN <<Null>> ELSE <<>>)

\* Where the target is: Outside is not under the conditional.
Outside == <<0>>
Places == {"before", "then", "else", "after"}
TargetOf(c) == CASE c.place = "then" -> Consequence [] c.place = "else" -> Alternative [] OTHER -> Outside

\* A syntax tree: the operands of a node are there and it has no others.
Operands(kind) ==
  CASE kind = "BinaryOp" -> {1, 2} [] kind \in {"Paren", "Cast", "UnaryOp", "Call", "FieldAccess"} -> {1} [] OTHER -> {}
IsTree(t) ==
  /\ IsFiniteSet(DOMAIN t) /\ Condition \in DOMAIN t
  /\ \A p \in DOMAIN t :
       /\ p \in Seq(Nat)
       /\ t[p].kind = "Conditional" <=> p = Root
       /\ \A i \in Operands(t[p].kind) : Append(p, i) \in DOMAIN t
       /\ p # Root => /\ Front(p) \in DOMAIN t
                      /\ Front(p) = Root \/ Last(p) \in Operands(t[Front(p)].kind)

IsAncestor(a, n) == IsPrefix(a, n)

\* flip_operator and negate_operator
Flip == [op \in Relations |->
           CASE op = "<" -> ">" [] op = "<=" -> ">=" [] op = ">" -> "<" [] op = ">=" -> "<=" [] OTHER -> op]
Negate == [op \in Relations |->
             CASE op = "<" -> ">=" [] op = "<=" -> ">" [] op = ">" -> "<=" [] op = ">=" -> "<"
               [] op = "==" -> "!=" [] OTHER -> "=="]

\* Mutant: a target behind the conditional counts as inside its consequence.
PolarityAfterIsThen(target) == ~IsAncestor(Alternative, target)

\* branch_polarity: does the consequence reach the target?  A target outside both branches
\* is taken to be reached when the condition is false.
Polarity(target) == IsAncestor(Consequence, target)

\* strip_parens: the first node below p that is not a parenthesis (a cast is none).
StripParens(t, p) ==
  CHOOSE q \in DOMAIN t :
    /\ IsPrefix(p, q) /\ t[q].kind # "Paren"
    /\ \A r \in DOMAIN t : IsPrefix(p, r) /\ IsStrictPrefix(r, q) => t[r].kind = "Paren"

\* find_enclosing_comparison: the nearest comparison with `from` in one of its operands.
Comparison(t, from) ==
  LET above == {p \in DOMAIN t : IsStrictPrefix(p, from) /\ p # Root
                                 /\ t[p].kind = "BinaryOp" /\ t[p].op \in Relations}
  IN IF above = {} THEN None ELSE CHOOSE p \in above : \A q \in above : Len(q) <= Len(p)

\* The operator of a comparison read as `value <op> bound`, on the branch of the target.
\* Mutant: a comparison with the value on the right is not mirrored.
ReadAsUnflipped(t, comparison, from, target) ==
  IF Polarity(target) THEN t[comparison].op ELSE Negate[t[comparison].op]

ReadAs(t, comparison, from, target) ==
  LET op == t[comparison].op
      read == IF IsAncestor(Append(comparison, 1), from) THEN op ELSE Flip[op]
  IN IF Polarity(target) THEN read ELSE Negate[read]

ValueSide(t, comparison, from) == Append(comparison, IF IsAncestor(Append(comparison, 1), from) THEN 1 ELSE 2)
BoundSide(t, comparison, from) == Append(comparison, IF IsAncestor(Append(comparison, 1), from) THEN 2 ELSE 1)

-----------------------------------------------------------------------------
(* Occurrences of the value.                                               *)

\* KNOWN_LENGTH_FUNCTIONS
LengthFunctions == {"strlen"}

\* occurs_as and is_identifier_occurrence: the dataflow graph says that v reaches the node,
\* or for an argument a node below it.
IsOccurrence(t, p) == t[p].kind = "Identifier" /\ t[p].op \in Carried
Mentions(t, p) == \E q \in DOMAIN t : IsAncestor(p, q) /\ IsOccurrence(t, q)

\* The depth-first search looks at the last child first.
SearchedBefore(p, q) ==
  \/ IsPrefix(p, q)
  \/ \E i \in DOMAIN p \cap DOMAIN q : p[i] > q[i] /\ \A j \in 1 .. i - 1 : p[j] = q[j]
FirstOf(ps) == IF ps = {} THEN None ELSE CHOOSE p \in ps : \A q \in ps : SearchedBefore(p, q)

\* find_value_occurrence: the first length call of the value in the condition, else the
\* first identifier.
Occurrence(t) ==
  LET within == {p \in DOMAIN t : IsPrefix(Condition, p)}
      calls == {p \in within : t[p].kind = "Call" /\ t[p].op \in LengthFunctions
                               /\ Mentions(t, Append(p, 1))}
  IN IF calls # {} THEN FirstOf(calls) ELSE FirstOf({p \in within : IsOccurrence(t, p)})

-----------------------------------------------------------------------------
(* excludes_zero and upper_bounds.                                         *)

\* The bare truthiness test: `if (v)` or `if (!v)`, and no other condition.
Truthiness(t, target) ==
  LET test == StripParens(t, Condition)
      inner == StripParens(t, Append(test, 1))
  IN IF t[test].kind = "UnaryOp" /\ t[test].op = "!"
     THEN IsOccurrence(t, inner) /\ ~Polarity(target)
     ELSE IsOccurrence(t, test) /\ Polarity(target)

\* A comparison with a bound that folds to zero decides; otherwise the truthiness test.
ExcludesZero(t, target) ==
  \E occ \in {Occurrence(t)} :
  \E cmp \in {IF occ = None THEN None ELSE Comparison(t, occ)} :
    IF cmp # None /\ Sym(t)[BoundSide(t, cmp, occ)] = Int_(0)
    THEN ReadAs(t, cmp, occ, target) = "!="
    ELSE Truthiness(t, target)

\* Mutant: a constant that is subtracted is credited like one that is added.
OffsetUnsigned(t, side, occ) ==
  LET p == StripParens(t, side)
      right == Append(p, 2)
  IN IF t[p].kind = "BinaryOp" /\ Append(p, 1) = occ /\ IsInt(t, right) THEN IntOf(t, right) ELSE 0

\* extract_offset: what is added to the value on its side of the comparison, in parentheses
\* or not, 0 for a shape that is not recognised.
Offset(t, side, occ) ==
  LET p == StripParens(t, side)
      left == Append(p, 1)
      right == Append(p, 2)
      Of(q) == IF IsInt(t, q) THEN IntOf(t, q) ELSE 0
  IN CASE t[p].kind = "BinaryOp" /\ left = occ /\ t[p].op = "+" -> Of(right)
       [] t[p].kind = "BinaryOp" /\ left = occ /\ t[p].op = "-" -> -Of(right)
       [] t[p].kind = "BinaryOp" /\ right = occ /\ t[p].op = "+" -> Of(left)
       [] OTHER -> 0

\* saturating_add
Threshold(capacity, offset) == IF capacity + offset >= Half THEN Half - 1 ELSE capacity + offset

Within(op, bound, threshold) == IF op = "<" THEN bound <= threshold ELSE bound < threshold

\* Without a capacity, or a bound that folds, the direction of the comparison is enough.
UpperBounds(t, target, capacity) ==
  \E occ \in {Occurrence(t)} :
  \E cmp \in {IF occ = None THEN None ELSE Comparison(t, occ)} :
    /\ cmp # None
    /\ \E op \in {ReadAs(t, cmp, occ, target)}, bound \in {BoundSide(t, cmp, occ)} :
         /\ op \in {"<", "<="}
         /\ \/ capacity = None
            \/ ~IsInt(t, bound)
            \/ Within(op, IntOf(t, bound),
                      Threshold(capacity, Offset(t, ValueSide(t, cmp, occ), occ)))

-----------------------------------------------------------------------------
(* The callers.                                                            *)

\* The lines: the target's comes before the conditional's only when it is placed there.
Precedes(c) == c.place # "before"

\* condition_calls_guard, over everything under the Conditional, its branches too: a guard
\* of another name is accepted by its name, a length function by the comparison.
GuardCalled(t, target, capacity) ==
  \E p \in DOMAIN t :
    /\ t[p].kind = "Call" /\ t[p].op \in {"strlen", "valid"} /\ IsOccurrence(t, Append(p, 1))
    /\ t[p].op \in LengthFunctions => UpperBounds(t, target, capacity)

Called(t) == {t[p].op : p \in {q \in DOMAIN t : t[q].kind = "Call"}}

\* is_guarded: the conditional dominates the sink and is not below it.
IsGuarded(c, t, target, capacity) == Precedes(c) /\ GuardCalled(t, target, capacity)

\* The capacity of the target's buffer (sink_destination_capacity, bounds_value).
Capacity(c) == ConcreteSize(c.buffer.ast, c.buffer.flows, c.buffer.decl)

ASSUME GuardsAssumption ==
  /\ \A c \in Cases : /\ IsTree(Tree(c)) /\ c.place \in Places /\ c.stops \in BOOLEAN
                       /\ Capacity(c) \in Nat \cup {None} /\ c.buffer.extent \in Nat
  /\ Values \subseteq Int
  /\ "v" \in Carried

NoVerdicts == [zero |-> FALSE, upper |-> FALSE, guarded |-> FALSE]

\* The rules ask excludes_zero and bounds_value of a conditional that precedes the target.
Ask ==
  /\ pc = "ask"
  /\ \E t \in {Tree(case)}, capacity \in {Capacity(case)} :
       verdicts' = [zero |-> Precedes(case) /\ ExcludesZero(t, TargetOf(case)),
                    upper |-> Precedes(case) /\ UpperBounds(t, TargetOf(case), capacity),
                    guarded |-> IsGuarded(case, t, TargetOf(case), capacity)]
  /\ pc' = "start"
  /\ UNCHANGED <<case, env>>

-----------------------------------------------------------------------------
(* Runs of the program.                                                    *)

\* A cast to an unsigned type keeps the low bits, one to a signed type reads them as two's
\* complement.
Converted(sign, width, n) ==
  LET m == n % 2 ^ width IN IF sign = "signed" /\ m >= 2 ^ (width - 1) THEN m - 2 ^ width ELSE m

\* The values of the expressions of the program, in the integers; a length is the value that
\* is bounded, a test is 0 or 1, a field has a value of its own.
ValueAt(t, e, val, p) ==
  LET node == t[p]
      l == val[Append(p, 1)]
      r == val[Append(p, 2)]
  IN CASE node.kind \in {"Literal", "Sizeof"} -> node.val
       [] node.kind = "Identifier" -> e[node.op]
       [] node.kind = "Paren" -> l
       [] node.kind = "Cast" -> Converted(node.op, node.val, l)
       [] node.kind = "FieldAccess" -> e["u"]
       [] node.kind = "Call" -> IF node.op = "valid" THEN e["u"] ELSE l
       [] node.kind = "UnaryOp" -> IF node.op = "!" THEN Truth(l = 0) ELSE -l
       [] node.kind = "BinaryOp" ->
            CASE node.op = "+" -> l + r
              [] node.op = "-" -> l - r
              [] node.op = "/" -> IF r = 0 THEN 0 ELSE Quotient(l, r)
              [] node.op = "&&" -> Truth(l # 0 /\ r # 0)
              [] node.op = "||" -> Truth(l # 0 \/ r # 0)
              [] OTHER -> Truth(Relate(l, node.op, r))
       [] OTHER -> 0
Value(t, e) == LET val[p \in DOMAIN t] == ValueAt(t, e, val, p) IN val

\* w is computed from v, u has nothing to do with it.
EnvOf(v, u) == [x \in {"v", "u", "w"} |-> CASE x = "v" -> v [] x = "u" -> u [] x = "w" -> v - 1]
Holds(c, e) == Value(Tree(c), e)[Condition] # 0

Run ==
  /\ pc = "start"
  /\ \E v \in Values, u \in {0, 2} :
       /\ env' = EnvOf(v, u)
       /\ pc' = IF case.place = "before" THEN "target" ELSE IF Holds(case, env') THEN "then" ELSE "else"
  /\ UNCHANGED <<case, verdicts>>

Branch ==
  /\ pc \in {"then", "else"}
  /\ pc' = CASE pc = case.place -> "target"
             [] pc = "then" /\ case.place = "after" -> IF case.stops THEN "left" ELSE "target"
             [] pc = "else" /\ case.place = "after" -> "target"
             [] OTHER -> "left"
  /\ UNCHANGED <<case, verdicts, env>>

Init ==
  /\ case \in Cases
  /\ verdicts = NoVerdicts
  /\ env = <<>>
  /\ pc = "ask"

Next == Ask \/ Run \/ Branch
Spec == Init /\ [][Next]_vars

-----------------------------------------------------------------------------
(* Properties.                                                             *)

\* A condition behind the conditional says nothing unless the consequence leaves.
Settled(c) == c.place \in {"then", "else"} \/ (c.place = "after" /\ c.stops)

\* The node is v, or the length of v.
IsVar(t, p, x) == t[p].kind = "Identifier" /\ t[p].op = x
IsTheValue(t, p) == IsVar(t, p, "v") \/ (t[p].kind = "Call" /\ IsVar(t, Append(p, 1), "v"))

\* The outcome that leads to the target decides the test at p: above it are only
\* conjunctions on the way of a true condition, or disjunctions on that of a false one.
Decided(t, p, polarity) ==
  \A q \in DOMAIN t : IsStrictPrefix(q, p) /\ q # Root =>
    \/ t[q].kind = "Paren"
    \/ t[q].kind = "BinaryOp" /\ t[q].op = IF polarity THEN "&&" ELSE "||"

\* The side of a comparison is the value, parenthesised or not, with a constant added.
Plain(t, side, occ) ==
  \E p \in {StripParens(t, side)} :
    \/ p = occ
    \/ /\ t[p].kind = "BinaryOp" /\ t[p].op \in {"+", "-"}
       /\ \/ Append(p, 1) = occ /\ IsInt(t, Append(p, 2))
          \/ Append(p, 2) = occ /\ t[p].op = "+" /\ IsInt(t, Append(p, 1))

\* The casts of the program do not change a value, in any run.
CastsHold(t) ==
  \A p \in DOMAIN t : t[p].kind = "Cast" =>
    \A v \in Values, u \in {0, 2} : Value(t, EnvOf(v, u))[p] = Value(t, EnvOf(v, u))[Append(p, 1)]

\* The comparison of the condition is one whose verdict can be trusted: casts do not stand
\* between the value and it, and those in its bound keep the value they are applied to.
Trustworthy(c, t) ==
  \E occ \in {Occurrence(t)} :
    /\ Settled(c) /\ CastsHold(t) /\ occ # None /\ IsTheValue(t, occ)
    /\ \E cmp \in {Comparison(t, occ)} :
         /\ cmp # None /\ Decided(t, cmp, Polarity(TargetOf(c)))
         /\ Plain(t, ValueSide(t, cmp, occ), occ) /\ IsInt(t, BoundSide(t, cmp, occ))

\* The target is compared with nothing but the value itself (no constant added).
Direct(t) == \E occ \in {Occurrence(t)} : Comparison(t, occ) # None =>
               StripParens(t, ValueSide(t, Comparison(t, occ), occ)) = occ

\* The test of a condition without && and ||.
TestsTruthOf(t) ==
  LET test == StripParens(t, Condition)
  IN \/ IsVar(t, test, "v")
     \/ t[test].kind = "UnaryOp" /\ t[test].op = "!" /\ IsVar(t, StripParens(t, Append(test, 1)), "v")

Compound(t) == \E p \in DOMAIN t : t[p].kind = "BinaryOp" /\ t[p].op \in {"&&", "||"}
OperatorOf(t) == t[Comparison(t, Occurrence(t))].op

\* The runs that reach the target, and the values of v in them.
Reaches(c, e) ==
  CASE c.place = "then" -> Holds(c, e)
    [] c.place = "else" -> ~Holds(c, e)
    [] c.place = "before" -> TRUE
    [] OTHER -> ~(Holds(c, e) /\ c.stops)
Reaching(c) == {v \in Values : \E u \in {0, 2} : Reaches(c, EnvOf(v, u))}

\* In a program whose target the condition leads to, what the folder takes for an integer is
\* computed with + - and / alone and is within the folder's integers: nothing overflows, unless
\* a cast does.
NothingOverflows ==
  \A c \in Cases : Settled(c) /\ CastsHold(Tree(c)) =>
    \A t \in {Tree(c)} : \A p \in DOMAIN t : IsInt(t, p) =>
      /\ \A v \in Values, u \in {0, 2} : Representable(Value(t, EnvOf(v, u))[p])
      /\ t[p].kind = "BinaryOp" => t[p].op \in {"+", "-", "/"}
      /\ t[p].kind = "UnaryOp" => t[p].op = "-"

\* A value that excludes_zero clears is not zero when the target is reached, whatever the
\* run, for a test that the branch decides and a consequence that leaves when the target is
\* behind it; the bound has no cast that changes its value (guard.rs: excludes_zero,
\* branch_polarity).
ZeroIsExcluded ==
  pc = "target" /\ verdicts.zero =>
    \E t \in {Tree(case)} :
      (Trustworthy(case, t) /\ Direct(t)) \/ (Settled(case) /\ TestsTruthOf(t)) => env["v"] # 0

\* A value that bounds_value clears against a known capacity, or that the taint engine takes
\* to be guarded by its length, is below the extent of the buffer when the target is reached,
\* unless a cast changes a value (guard.rs: upper_bounds; taint.rs: is_guarded;
\* size_tracking.rs).
ValueIsBounded ==
  pc = "target" /\ (verdicts.upper \/ (verdicts.guarded /\ "valid" \notin Called(Tree(case)))) =>
    (Capacity(case) # None /\ Trustworthy(case, Tree(case)) /\ case.buffer.declarators <= 1
       => env["v"] < case.buffer.extent)

\* The verdicts are complete for a single test: zero is excluded exactly when no run with
\* v = 0 reaches the target, of == and != with a zero, in either order, and of v and !v; the
\* value is bounded exactly when no run with a value of the capacity or more does, of the
\* four order relations, unless the capacity and the constant are too large to be added.
SingleTestsAreExact ==
  pc = "start" /\ Settled(case) =>
    \E t \in {Tree(case)}, reaching \in {Reaching(case)} :
      ~Compound(t) =>
        /\ TestsTruthOf(t) => (verdicts.zero <=> 0 \notin reaching)
        /\ Trustworthy(case, t) =>
             \E occ \in {Occurrence(t)} : \E cmp \in {Comparison(t, occ)} :
               /\ Direct(t) /\ OperatorOf(t) \in {"==", "!="} /\ Sym(t)[BoundSide(t, cmp, occ)] = Int_(0)
                    => (verdicts.zero <=> 0 \notin reaching)
               /\ OperatorOf(t) \notin {"==", "!="} /\ Capacity(case) # None
                    /\ Capacity(case) + Offset(t, ValueSide(t, cmp, occ), occ) < Half
                    => (verdicts.upper <=> \A v \in reaching : v < Capacity(case))

\* The size of a declaration with one sized declarator, of a literal and of an allocation is
\* its extent, or that of the largest integer when the product of a calloc overflows
\* (size_tracking.rs: build, propagate_size_to_declaration, infer_heap_alloc_size).
CapacityIsExtent ==
  pc = "ask" /\ case.buffer.declarators <= 1 =>
    Capacity(case) \in {None, case.buffer.extent} \cup (IF case.buffer.extent >= Half THEN {Half - 1} ELSE {})

\* A constant subexpression folds to its value, when the value and those it is computed
\* from fit the evaluator's integers and the types they are cast to; 0 raised to a multiple of
\* 2 ^ ExponentBits is excepted (symbolic.rs: compute).
FoldingIsExact ==
  pc = "ask" => \A p \in DOMAIN case.cond :
    case.exact[p] # None => Sym(case.cond)[p] = case.exact[p]

=============================================================================
