----------------------------- MODULE GuardsProofs -----------------------------
(***************************************************************************)
(* For every syntax tree, every condition, every width of the evaluator's  *)
(* integers and every value of the variables: what the guards clear is     *)
(* impossible in every run, and the verdicts on single tests are complete. *)
(*                                                                         *)
(* A tree is a function of paths, so what is said of its nodes is shown by *)
(* induction on the depth: from the operands to the node (BottomUp), for   *)
(* the functions Value and Sym and for what parentheses are about, or      *)
(* along a path from the condition to the comparison (Step, FromTo).       *)
(*                                                                         *)
(* ComparisonSays is the core: with the outcome that leads to the target,  *)
(* v and its constant are related to the bound as ReadAs says.  The        *)
(* theorems add what the verdicts demand of that relation.                 *)
(***************************************************************************)
EXTENDS Guards, TLAPS, FiniteSetTheorems, SequenceTheorems, WellFoundedInduction

----------------------------------------------------------------------------
(* Induction *)

\* A set of numbers has a least one.
LEMMA LeastExists ==
  ASSUME NEW S \in SUBSET Nat, S # {}
  PROVE  \E m \in S : \A k \in S : m <= k
<1>1. PICK m \in S : \A k \in S : <<k, m>> \notin OpToRel(<, Nat)
  BY NatLessThanWellFounded, WFMin
<1>2. ASSUME NEW k \in S, k < m PROVE FALSE
  <2>1. k \in Nat /\ m \in Nat
    OBVIOUS
  <2>2. <<k, m>> \in OpToRel(<, Nat)
    BY <1>2, <2>1 DEF OpToRel
  <2> QED
    BY <1>1, <2>2
<1> QED
  BY <1>2

\* Induction up to n.
LEMMA UpTo ==
  ASSUME NEW n \in Nat, NEW S, 0 \in S, \A k \in 0 .. n - 1 : k \in S => k + 1 \in S
  PROVE  \A k \in 0 .. n : k \in S
<1> SUFFICES ASSUME NEW k \in 0 .. n, k \notin S PROVE FALSE
  OBVIOUS
<1>1. PICK m \in 0 .. n \ S : \A i \in 0 .. n \ S : m <= i
  <2>1. 0 .. n \ S \in SUBSET Nat /\ 0 .. n \ S # {}
    OBVIOUS
  <2> QED
    BY <2>1, LeastExists
<1>2. m # 0 /\ m - 1 \in 0 .. n - 1 /\ m - 1 \in S
  BY <1>1
<1> QED
  BY <1>1, <1>2

----------------------------------------------------------------------------
(* Paths *)

Path == Seq(Nat)
Cut(q, k) == SubSeq(q, 1, k)

\* A prefix agrees with the path as far as it goes.
LEMMA PrefixMeans ==
  ASSUME NEW p \in Path, NEW q \in Path
  PROVE  IsPrefix(p, q) <=> Len(p) <= Len(q) /\ \A i \in 1 .. Len(p) : p[i] = q[i]
<1> USE DEF Path
<1>1. SubSeq(p, 1, Len(p)) = p
  OBVIOUS
<1>2. ASSUME Len(p) <= Len(q) PROVE SubSeq(q, 1, Len(p)) \in Seq(Nat) /\ Len(SubSeq(q, 1, Len(p))) = Len(p)
                                    /\ \A i \in 1 .. Len(p) : SubSeq(q, 1, Len(p))[i] = q[i]
  BY <1>2
<1>3. ASSUME Len(p) <= Len(q), \A i \in 1 .. Len(p) : p[i] = q[i]
      PROVE  SubSeq(q, 1, Len(p)) = p
  <2> DEFINE s == SubSeq(q, 1, Len(p))
  <2>1. s \in Seq(Nat) /\ Len(s) = Len(p) /\ \A i \in 1 .. Len(p) : s[i] = p[i]
    BY <1>2, <1>3
  <2> HIDE DEF s
  <2>2. s = p
    BY <2>1, SeqEqual
  <2> QED
    BY <2>2 DEF s
<1> QED
  BY <1>1, <1>2, <1>3 DEF IsPrefix

\* The first k positions of a path.
LEMMA CutFacts ==
  ASSUME NEW q \in Path, NEW k \in 0 .. Len(q)
  PROVE  /\ Cut(q, k) \in Path /\ Len(Cut(q, k)) = k
         /\ \A i \in 1 .. k : Cut(q, k)[i] = q[i]
         /\ IsPrefix(Cut(q, k), q)
         /\ Cut(q, 0) = <<>> /\ Cut(q, Len(q)) = q
         /\ k < Len(q) => Cut(q, k + 1) = Append(Cut(q, k), q[k + 1])
         /\ k > 0 => Front(Cut(q, k)) = Cut(q, k - 1) /\ Last(Cut(q, k)) = q[k]
<1> USE DEF Path
<1>1. Cut(q, k) \in Seq(Nat) /\ Len(Cut(q, k)) = k /\ \A i \in 1 .. k : Cut(q, k)[i] = q[i]
  BY DEF Cut
<1>2. IsPrefix(Cut(q, k), q)
  BY <1>1, PrefixMeans
<1>3. Cut(q, 0) = <<>> /\ Cut(q, Len(q)) = q
  BY DEF Cut
<1>4. ASSUME k < Len(q) PROVE Cut(q, k + 1) = Append(Cut(q, k), q[k + 1])
  <2> DEFINE a == Cut(q, k + 1)
             b == Append(Cut(q, k), q[k + 1])
  <2>1. a \in Seq(Nat) /\ Len(a) = k + 1 /\ \A i \in 1 .. k + 1 : a[i] = q[i]
    BY <1>4 DEF Cut
  <2>2. b \in Seq(Nat) /\ Len(b) = k + 1 /\ \A i \in 1 .. k + 1 : b[i] = q[i]
    BY <1>1, <1>4
  <2> HIDE DEF a, b
  <2>3. a = b
    BY <2>1, <2>2, SeqEqual
  <2> QED
    BY <2>3 DEF a, b
<1>5. ASSUME k > 0 PROVE Front(Cut(q, k)) = Cut(q, k - 1) /\ Last(Cut(q, k)) = q[k]
  <2> DEFINE a == Front(Cut(q, k))
             b == Cut(q, k - 1)
  <2>1. a \in Seq(Nat) /\ Len(a) = k - 1 /\ \A i \in 1 .. k - 1 : a[i] = q[i]
    <3> DEFINE c == Cut(q, k)
    <3>1. c \in Seq(Nat) /\ Len(c) = k /\ \A i \in 1 .. k : c[i] = q[i]
      BY <1>1
    <3> HIDE DEF c
    <3>2. SubSeq(c, 1, k - 1) \in Seq(Nat) /\ Len(SubSeq(c, 1, k - 1)) = k - 1
          /\ \A i \in 1 .. k - 1 : SubSeq(c, 1, k - 1)[i] = c[i]
      BY <3>1, <1>5
    <3>3. a = SubSeq(c, 1, k - 1)
      BY <3>1 DEF Front, c
    <3> QED
      BY <3>1, <3>2, <3>3
  <2>2. b \in Seq(Nat) /\ Len(b) = k - 1 /\ \A i \in 1 .. k - 1 : b[i] = q[i]
    BY <1>5 DEF Cut
  <2> HIDE DEF a, b
  <2>3. a = b
    BY <2>1, <2>2, SeqEqual
  <2> QED
    BY <2>3, <1>1, <1>5 DEF a, b, Last
<1> QED
  BY <1>1, <1>2, <1>3, <1>4, <1>5

\* A prefix is what one gets by cutting the path.
LEMMA PrefixIsCut ==
  ASSUME NEW p \in Path, NEW q \in Path, IsPrefix(p, q)
  PROVE  Len(p) \in 0 .. Len(q) /\ p = Cut(q, Len(p))
<1>1. Len(p) \in 0 .. Len(q) /\ \A i \in 1 .. Len(p) : p[i] = q[i]
  BY PrefixMeans DEF Path
<1>2. Cut(q, Len(p)) \in Path /\ Len(Cut(q, Len(p))) = Len(p) /\ \A i \in 1 .. Len(p) : Cut(q, Len(p))[i] = q[i]
  BY <1>1, CutFacts
<1> QED
  BY <1>1, <1>2, SeqEqual DEF Path

\* Below the i-th operand of a node.
LEMMA BelowChild ==
  ASSUME NEW p \in Path, NEW q \in Path, NEW i \in Nat
  PROVE  /\ Append(p, i) \in Path /\ Len(Append(p, i)) = Len(p) + 1
         /\ IsPrefix(Append(p, i), q) <=> IsPrefix(p, q) /\ Len(p) < Len(q) /\ q[Len(p) + 1] = i
<1> DEFINE a == Append(p, i)
<1>1. a \in Path /\ Len(a) = Len(p) + 1 /\ a[Len(p) + 1] = i /\ \A j \in 1 .. Len(p) : a[j] = p[j]
  BY DEF Path
<1> HIDE DEF a
<1>2. IsPrefix(a, q) <=> Len(a) <= Len(q) /\ \A j \in 1 .. Len(a) : a[j] = q[j]
  BY <1>1, PrefixMeans
<1>3. IsPrefix(p, q) <=> Len(p) <= Len(q) /\ \A j \in 1 .. Len(p) : p[j] = q[j]
  BY PrefixMeans
<1>4. Len(p) \in Nat /\ Len(q) \in Nat
  BY DEF Path
<1>5. (\A j \in 1 .. Len(a) : a[j] = q[j]) <=> (\A j \in 1 .. Len(p) : p[j] = q[j]) /\ q[Len(p) + 1] = i
  BY <1>1, <1>4
<1> QED
  BY <1>1, <1>2, <1>3, <1>4, <1>5 DEF a

IsOrder(R, S) ==
  /\ \A x, y \in S : <<x, y>> \in R \/ <<y, x>> \in R
  /\ \A x, y, z \in S : <<x, y>> \in R /\ <<y, z>> \in R => <<x, z>> \in R
HasFirst(R, S) == \E x \in S : \A y \in S : <<x, y>> \in R

\* A finite set has a first element in a total order.
LEMMA FirstExists ==
  ASSUME NEW R, NEW S, IsFiniteSet(S), S # {}, IsOrder(R, S)
  PROVE  HasFirst(R, S)
<1> DEFINE Good == {n \in Nat : \A X \in SUBSET S : X # {} /\ Cardinality(X) = n => HasFirst(R, X)}
<1>1. 0 \in Good
  <2> SUFFICES ASSUME NEW X \in SUBSET S, X # {}, Cardinality(X) = 0 PROVE FALSE
    OBVIOUS
  <2>1. IsFiniteSet(X)
    BY FS_Subset
  <2> QED
    BY <2>1, FS_EmptySet
<1>2. ASSUME NEW k \in Nat, k \in Good PROVE k + 1 \in Good
  <2> SUFFICES ASSUME NEW X \in SUBSET S, X # {}, Cardinality(X) = k + 1 PROVE HasFirst(R, X)
    BY <1>2
  <2>1. PICK x \in X : TRUE
    OBVIOUS
  <2>2. IsFiniteSet(X)
    BY FS_Subset
  <2>3. X \ {x} \in SUBSET S /\ Cardinality(X \ {x}) = k
    BY <2>1, <2>2, FS_RemoveElement, FS_CardinalityType
  <2>4. <<x, x>> \in R
    BY <2>1 DEF IsOrder
  <2>5. CASE X \ {x} = {}
    BY <2>1, <2>4, <2>5 DEF HasFirst
  <2>6. CASE X \ {x} # {}
    <3>1. PICK y \in X \ {x} : \A z \in X \ {x} : <<y, z>> \in R
      BY <2>3, <2>6, <1>2 DEF HasFirst
    <3>2. CASE <<x, y>> \in R
      BY <2>1, <2>4, <3>1, <3>2 DEF HasFirst, IsOrder
    <3>3. CASE <<y, x>> \in R
      BY <2>1, <3>1, <3>3 DEF HasFirst
    <3> QED
      BY <2>1, <3>1, <3>2, <3>3 DEF IsOrder
  <2> QED
    BY <2>5, <2>6
<1> HIDE DEF Good
<1>3. Cardinality(S) \in Nat
  BY FS_CardinalityType
<1>4. Cardinality(S) \in Good
  BY <1>1, <1>2, <1>3, UpTo
<1> QED
  BY <1>4 DEF Good

----------------------------------------------------------------------------
(* Trees *)

\* A tree has a greatest depth.
LEMMA DepthBound ==
  ASSUME NEW t, IsTree(t)
  PROVE  \E n \in Nat : \A p \in DOMAIN t : Len(p) <= n
<1> DEFINE R == {x \in (DOMAIN t) \X (DOMAIN t) : Len(x[1]) >= Len(x[2])}
<1>1. \A p \in DOMAIN t : Len(p) \in Nat
  BY DEF IsTree
<1>2. IsOrder(R, DOMAIN t)
  BY <1>1 DEF IsOrder
<1>3. IsFiniteSet(DOMAIN t) /\ DOMAIN t # {}
  BY DEF IsTree
<1>4. PICK q \in DOMAIN t : \A p \in DOMAIN t : <<q, p>> \in R
  <2> HIDE DEF R
  <2> QED
    BY <1>2, <1>3, FirstExists DEF HasFirst
<1> QED
  BY <1>1, <1>4

\* A node has at most two operands.
LEMMA OperandsAre == \A kind : Operands(kind) \subseteq {1, 2}
BY DEF Operands

\* What holds of a node when it holds of its operands holds of all nodes.
LEMMA BottomUp ==
  ASSUME NEW t, IsTree(t), NEW S,
         \A p \in DOMAIN t : (\A i \in Operands(t[p].kind) : Append(p, i) \in S) => p \in S
  PROVE  DOMAIN t \subseteq S
<1>1. PICK n \in Nat : \A p \in DOMAIN t : Len(p) <= n
  BY DepthBound
<1> DEFINE Good == {k \in Nat : \A p \in DOMAIN t : Len(p) > n - k => p \in S}
<1>2. 0 \in Good
  <2>1. \A p \in DOMAIN t : Len(p) \in Nat
    BY DEF IsTree
  <2> QED
    BY <1>1, <2>1
<1>3. ASSUME NEW k \in Nat, k \in Good PROVE k + 1 \in Good
  <2> SUFFICES ASSUME NEW p \in DOMAIN t, Len(p) > n - (k + 1) PROVE p \in S
    OBVIOUS
  <2>1. p \in Seq(Nat) /\ \A i \in Operands(t[p].kind) : Append(p, i) \in DOMAIN t
    BY DEF IsTree
  <2>2. ASSUME NEW i \in Operands(t[p].kind) PROVE Append(p, i) \in S
    <3>1. i \in Nat
      BY OperandsAre
    <3>2. Append(p, i) \in DOMAIN t /\ Len(Append(p, i)) > n - k
      BY <2>1, <3>1
    <3> QED
      BY <1>3, <3>2
  <2> QED
    BY <2>2
<1>4. n + 1 \in Good
  <2> HIDE DEF Good
  <2> QED
    BY <1>2, <1>3, UpTo, n + 1 \in Nat
<1> QED
  BY <1>4 DEF IsTree

\* All that is above a node is in the tree, and leads to it by its operands.
LEMMA Above ==
  ASSUME NEW t, IsTree(t), NEW q \in DOMAIN t
  PROVE  /\ q \in Path
         /\ \A k \in 0 .. Len(q) : Cut(q, k) \in DOMAIN t
         /\ \A k \in 1 .. Len(q) - 1 : q[k + 1] \in Operands(t[Cut(q, k)].kind)
<1>1. q \in Path /\ Len(q) \in Nat
  BY DEF IsTree, Path
<1> DEFINE Good == {j \in 0 .. Len(q) : Cut(q, Len(q) - j) \in DOMAIN t}
<1>2. 0 \in Good
  BY <1>1, CutFacts
<1>3. ASSUME NEW j \in 0 .. Len(q) - 1, j \in Good PROVE j + 1 \in Good
  <2> DEFINE k == Len(q) - j
  <2>1. k \in 1 .. Len(q) /\ k > 0
    BY <1>1
  <2>2. Front(Cut(q, k)) = Cut(q, k - 1) /\ Len(Cut(q, k)) = k
    BY <1>1, <2>1, CutFacts
  <2>3. Cut(q, k) # Root
    BY <2>1, <2>2 DEF Root
  <2>4. Cut(q, k) \in DOMAIN t
    BY <1>3
  <2>5. Cut(q, k - 1) \in DOMAIN t
    BY <2>2, <2>3, <2>4 DEF IsTree
  <2> QED
    BY <1>1, <2>5
<1>4. \A j \in 0 .. Len(q) : j \in Good
  <2> HIDE DEF Good
  <2> QED
    BY <1>1, <1>2, <1>3, UpTo
<1>5. \A k \in 0 .. Len(q) : Cut(q, k) \in DOMAIN t
  <2> TAKE k \in 0 .. Len(q)
  <2>1. Len(q) - k \in 0 .. Len(q) /\ Len(q) - (Len(q) - k) = k
    BY <1>1
  <2> QED
    BY <1>4, <2>1
<1>6. ASSUME NEW k \in 1 .. Len(q) - 1 PROVE q[k + 1] \in Operands(t[Cut(q, k)].kind)
  <2>1. k + 1 \in 0 .. Len(q) /\ k \in 0 .. Len(q) /\ k + 1 > 0 /\ (k + 1) - 1 = k
    BY <1>1
  <2>2. Front(Cut(q, k + 1)) = Cut(q, k) /\ Last(Cut(q, k + 1)) = q[k + 1] /\ Len(Cut(q, k + 1)) = k + 1
    BY <1>1, <2>1, CutFacts
  <2>3. Len(Cut(q, k)) = k
    BY <1>1, <2>1, CutFacts
  <2>4. Cut(q, k + 1) # Root /\ Cut(q, k) # Root
    BY <2>2, <2>3 DEF Root
  <2> QED
    BY <1>5, <2>1, <2>2, <2>4 DEF IsTree
<1> QED
  BY <1>1, <1>5, <1>6

----------------------------------------------------------------------------
(* Values *)

\* The value of a node depends on those of its operands.
LEMMA ValueLocal ==
  ASSUME NEW t, NEW e, NEW p, NEW f, NEW g,
         \A i \in Operands(t[p].kind) : f[Append(p, i)] = g[Append(p, i)]
  PROVE  ValueAt(t, e, f, p) = ValueAt(t, e, g, p)
<1>1. CASE t[p].kind = "BinaryOp"
  <2>1. f[Append(p, 1)] = g[Append(p, 1)] /\ f[Append(p, 2)] = g[Append(p, 2)]
    BY <1>1 DEF Operands
  <2> QED
    BY <2>1 DEF ValueAt
<1>2. CASE t[p].kind \in {"Paren", "Cast", "UnaryOp", "Call"}
  <2>1. f[Append(p, 1)] = g[Append(p, 1)]
    BY <1>2 DEF Operands
  <2> QED
    BY <1>2, <2>1 DEF ValueAt
<1>3. CASE t[p].kind \notin {"BinaryOp", "Paren", "Cast", "UnaryOp", "Call"}
  BY <1>3 DEF ValueAt
<1> QED
  BY <1>1, <1>2, <1>3

\* Every node has the value that its operands' give it.
LEMMA ValueDef ==
  ASSUME NEW t, IsTree(t), NEW e
  PROVE  \A p \in DOMAIN t : Value(t, e)[p] = ValueAt(t, e, Value(t, e), p)
<1>1. PICK n \in Nat : \A p \in DOMAIN t : Len(p) <= n
  BY DepthBound
<1> DEFINE Deep(k) == {p \in DOMAIN t : Len(p) > n - k}
           Is(g, k) == g = [p \in Deep(k) |-> ValueAt(t, e, g, p)]
           Good == {k \in Nat : \E g : Is(g, k)}
<1>0. \A p \in DOMAIN t : Len(p) \in Nat
  BY DEF IsTree
<1>2. 0 \in Good
  <2> DEFINE g == [p \in {} |-> 0]
  <2>1. Deep(0) = {}
    BY <1>1, <1>0
  <2>2. Is(g, 0)
    BY <2>1
  <2> QED
    BY <2>2
<1>3. ASSUME NEW k \in Nat, k \in Good PROVE k + 1 \in Good
  <2>1. PICK g : Is(g, k)
    BY <1>3
  <2> DEFINE h == [p \in Deep(k + 1) |-> ValueAt(t, e, g, p)]
  <2>2. ASSUME NEW p \in Deep(k + 1) PROVE ValueAt(t, e, g, p) = ValueAt(t, e, h, p)
    <3>1. ASSUME NEW i \in Operands(t[p].kind) PROVE g[Append(p, i)] = h[Append(p, i)]
      <4>1. p \in Seq(Nat) /\ i \in Nat
        BY OperandsAre DEF IsTree
      <4>5. Append(p, i) \in DOMAIN t
        BY DEF IsTree
      <4>2. Append(p, i) \in Deep(k) /\ Append(p, i) \in Deep(k + 1)
        BY <4>1, <4>5
      <4>3. g[Append(p, i)] = ValueAt(t, e, g, Append(p, i))
        BY <2>1, <4>2
      <4>4. h[Append(p, i)] = ValueAt(t, e, g, Append(p, i))
        BY <4>2
      <4> QED
        BY <4>3, <4>4
    <3> HIDE DEF h
    <3> QED
      BY <3>1, ValueLocal
  <2>3. Is(h, k + 1)
    BY <2>2
  <2>4. \E f : Is(f, k + 1)
    <3> HIDE DEF Is, h
    <3> QED
      BY <2>3
  <2> HIDE DEF Is
  <2> QED
    BY <2>4
<1>4. n + 1 \in Good
  <2> HIDE DEF Good
  <2> QED
    BY <1>2, <1>3, UpTo, n + 1 \in Nat
<1>5. Deep(n + 1) = DOMAIN t
  BY <1>0
<1>6. PICK g : g = [p \in DOMAIN t |-> ValueAt(t, e, g, p)]
  BY <1>4, <1>5
<1>7. Value(t, e) = CHOOSE f : f = [p \in DOMAIN t |-> ValueAt(t, e, f, p)]
  BY DEF Value
<1>8. Value(t, e) = [p \in DOMAIN t |-> ValueAt(t, e, Value(t, e), p)]
  BY <1>6, <1>7
<1> QED
  BY <1>8

----------------------------------------------------------------------------
(* Parentheses *)

\* q is what the parentheses at p are about.
Inside(t, p, q) ==
  /\ q \in DOMAIN t /\ IsPrefix(p, q) /\ t[q].kind # "Paren"
  /\ \A r \in DOMAIN t : IsPrefix(p, r) /\ IsStrictPrefix(r, q) => t[r].kind = "Paren"

\* There is something inside parentheses (strip_parens).
LEMMA InsideExists ==
  ASSUME NEW t, IsTree(t), NEW p \in DOMAIN t
  PROVE  Inside(t, p, StripParens(t, p))
<1> DEFINE S == {x \in DOMAIN t : \E q : Inside(t, x, q)}
<1>1. ASSUME NEW x \in DOMAIN t, \A i \in Operands(t[x].kind) : Append(x, i) \in S
      PROVE  x \in S
  <2>0. x \in Path /\ \A r \in DOMAIN t : r \in Path
    BY DEF IsTree, Path
  <2>1. CASE t[x].kind # "Paren"
    <3>1. IsPrefix(x, x)
      BY <2>0, PrefixMeans DEF Path
    <3>2. ASSUME NEW r \in DOMAIN t, IsPrefix(x, r), IsPrefix(r, x) PROVE r = x
      <4>1. Len(x) <= Len(r) /\ \A i \in 1 .. Len(x) : x[i] = r[i]
        BY <2>0, <3>2, PrefixMeans
      <4>2. Len(r) <= Len(x)
        BY <2>0, <3>2, PrefixMeans
      <4>3. Len(r) = Len(x) /\ \A i \in 1 .. Len(r) : r[i] = x[i]
        BY <2>0, <4>1, <4>2 DEF Path
      <4> QED
        BY <2>0, <4>3, SeqEqual DEF Path
    <3>3. Inside(t, x, x)
      BY <2>1, <3>1, <3>2 DEF Inside, IsStrictPrefix
    <3> QED
      BY <3>3
  <2>2. CASE t[x].kind = "Paren"
    <3> DEFINE y == Append(x, 1)
    <3>1. y \in S
      BY <1>1, <2>2 DEF Operands
    <3>2. PICK q : Inside(t, y, q)
      BY <3>1
    <3>3. q \in DOMAIN t /\ IsPrefix(y, q) /\ t[q].kind # "Paren" /\ q \in Path
      BY <2>0, <3>2 DEF Inside
    <3>4. IsPrefix(x, q) /\ Len(x) < Len(q) /\ q[Len(x) + 1] = 1
      BY <2>0, <3>3, BelowChild
    <3>5. ASSUME NEW r \in DOMAIN t, IsPrefix(x, r), IsStrictPrefix(r, q) PROVE t[r].kind = "Paren"
      <4>1. Len(x) <= Len(r) /\ \A i \in 1 .. Len(x) : x[i] = r[i]
        BY <2>0, <3>5, PrefixMeans
      <4>2. IsPrefix(r, q) /\ Len(r) <= Len(q) /\ \A i \in 1 .. Len(r) : r[i] = q[i]
        BY <2>0, <3>3, <3>5, PrefixMeans DEF IsStrictPrefix
      <4>3. CASE Len(r) = Len(x)
        <5>0. \A i \in 1 .. Len(r) : r[i] = x[i]
          BY <4>1, <4>3
        <5>1. r = x
          BY <2>0, <4>3, <5>0, SeqEqual DEF Path
        <5> QED
          BY <5>1, <2>2
      <4>4. CASE Len(r) > Len(x)
        <5>0. Len(x) + 1 \in 1 .. Len(r)
          BY <2>0, <4>4 DEF Path
        <5>1. r[Len(x) + 1] = 1
          BY <3>4, <4>2, <5>0
        <5>2. IsPrefix(y, r)
          BY <2>0, <3>5, <4>4, <5>1, BelowChild
        <5> QED
          BY <3>2, <3>5, <5>2 DEF Inside
      <4> QED
        BY <2>0, <4>1, <4>3, <4>4 DEF Path
    <3>6. Inside(t, x, q)
      BY <3>3, <3>4, <3>5 DEF Inside
    <3> QED
      BY <3>6
  <2> QED
    BY <2>1, <2>2
<1>2. DOMAIN t \subseteq S
  <2> HIDE DEF S
  <2> QED
    BY <1>1, BottomUp
<1>3. PICK q : Inside(t, p, q)
  BY <1>2
<1>4. StripParens(t, p) = CHOOSE x \in DOMAIN t : Inside(t, p, x)
  BY DEF StripParens, Inside
<1>5. q \in DOMAIN t
  BY <1>3 DEF Inside
<1> QED
  BY <1>3, <1>4, <1>5

----------------------------------------------------------------------------
(* Occurrences and comparisons *)

\* The order of the search is total.
LEMMA SearchIsOrder ==
  ASSUME NEW p \in Path, NEW q \in Path
  PROVE  SearchedBefore(p, q) \/ SearchedBefore(q, p)
<1> DEFINE Differ == {i \in Nat : i \in 1 .. Len(p) /\ i \in 1 .. Len(q) /\ p[i] # q[i]}
<1>1. Len(p) \in Nat /\ Len(q) \in Nat /\ DOMAIN p = 1 .. Len(p) /\ DOMAIN q = 1 .. Len(q)
  BY DEF Path
<1>2. CASE Differ = {}
  <2>1. CASE Len(p) <= Len(q)
    <3>1. \A i \in 1 .. Len(p) : p[i] = q[i]
      BY <1>1, <1>2, <2>1
    <3> QED
      BY <2>1, <3>1, PrefixMeans DEF SearchedBefore
  <2>2. CASE Len(q) <= Len(p)
    <3>1. \A i \in 1 .. Len(q) : q[i] = p[i]
      BY <1>1, <1>2, <2>2
    <3> QED
      BY <2>2, <3>1, PrefixMeans DEF SearchedBefore
  <2> QED
    BY <1>1, <2>1, <2>2
<1>3. CASE Differ # {}
  <2>1. PICK i \in Differ : \A k \in Differ : i <= k
    BY <1>3, LeastExists
  <2>2. i \in 1 .. Len(p) /\ i \in 1 .. Len(q) /\ p[i] # q[i] /\ p[i] \in Nat /\ q[i] \in Nat
    BY <2>1 DEF Path
  <2>3. \A j \in 1 .. i - 1 : p[j] = q[j] /\ q[j] = p[j]
    BY <1>1, <2>1, <2>2
  <2>4. p[i] > q[i] \/ q[i] > p[i]
    BY <2>2
  <2> QED
    BY <1>1, <2>2, <2>3, <2>4 DEF SearchedBefore
<1> QED
  BY <1>2, <1>3

Later(p, q, i) == i \in 1 .. Len(p) /\ i \in 1 .. Len(q) /\ p[i] > q[i] /\ \A j \in 1 .. i - 1 : p[j] = q[j]
\* ... and transitive, a node before another differing from it at some position.
LEMMA SearchTransitive ==
  ASSUME NEW p \in Path, NEW q \in Path, NEW r \in Path, SearchedBefore(p, q), SearchedBefore(q, r)
  PROVE  SearchedBefore(p, r)
<1>1. \A x, y \in Path : SearchedBefore(x, y) <=> IsPrefix(x, y) \/ \E i \in Nat : Later(x, y, i)
  <2> TAKE x, y \in Path
  <2>1. DOMAIN x = 1 .. Len(x) /\ DOMAIN y = 1 .. Len(y) /\ Len(x) \in Nat /\ Len(y) \in Nat
    BY DEF Path
  <2> QED
    BY <2>1 DEF SearchedBefore, Later
<1>2. Len(p) \in Nat /\ Len(q) \in Nat /\ Len(r) \in Nat
  BY DEF Path
<1>3. ASSUME NEW i \in Nat, i \in 1 .. Len(p), i \in 1 .. Len(q), i \in 1 .. Len(r)
      PROVE  p[i] \in Nat /\ q[i] \in Nat /\ r[i] \in Nat
  BY <1>3 DEF Path
<1>4. CASE IsPrefix(p, q) /\ IsPrefix(q, r)
  <2>1. Len(p) <= Len(q) /\ (\A i \in 1 .. Len(p) : p[i] = q[i]) /\ Len(q) <= Len(r) /\ \A i \in 1 .. Len(q) : q[i] = r[i]
    BY <1>4, PrefixMeans
  <2>2. Len(p) <= Len(r) /\ \A i \in 1 .. Len(p) : p[i] = r[i]
    BY <1>2, <2>1
  <2>3. IsPrefix(p, r)
    BY <2>2, PrefixMeans
  <2> QED
    BY <1>1, <2>3
<1>5. ASSUME IsPrefix(p, q), NEW i \in Nat, Later(q, r, i) PROVE SearchedBefore(p, r)
  <2>1. Len(p) <= Len(q) /\ \A j \in 1 .. Len(p) : p[j] = q[j]
    BY <1>5, PrefixMeans
  <2>2. CASE i <= Len(p)
    <3>1. Later(p, r, i)
      BY <1>2, <1>5, <2>1, <2>2 DEF Later
    <3> QED
      BY <1>1, <3>1
  <2>3. CASE i > Len(p)
    <3>1. Len(p) <= Len(r) /\ \A j \in 1 .. Len(p) : p[j] = r[j]
      BY <1>2, <1>5, <2>1, <2>3 DEF Later
    <3>2. IsPrefix(p, r)
      BY <3>1, PrefixMeans
    <3> QED
      BY <1>1, <3>2
  <2> QED
    BY <1>2, <2>2, <2>3
<1>6. ASSUME NEW i \in Nat, Later(p, q, i), IsPrefix(q, r) PROVE SearchedBefore(p, r)
  <2>1. Len(q) <= Len(r) /\ \A j \in 1 .. Len(q) : q[j] = r[j]
    BY <1>6, PrefixMeans
  <2>2. Later(p, r, i)
    BY <1>2, <1>6, <2>1 DEF Later
  <2> QED
    BY <1>1, <2>2
<1>7. ASSUME NEW i \in Nat, Later(p, q, i), NEW k \in Nat, Later(q, r, k) PROVE SearchedBefore(p, r)
  <2>1. CASE i < k
    <3>1. Later(p, r, i)
      BY <1>2, <1>7, <2>1 DEF Later
    <3> QED
      BY <1>1, <3>1
  <2>2. CASE k < i
    <3>1. Later(p, r, k)
      BY <1>2, <1>7, <2>2 DEF Later
    <3> QED
      BY <1>1, <3>1
  <2>3. CASE k = i
    <3>1. Later(p, r, i)
      BY <1>2, <1>3, <1>7, <2>3 DEF Later
    <3> QED
      BY <1>1, <3>1
  <2> QED
    BY <2>1, <2>2, <2>3
<1> QED
  BY <1>1, <1>4, <1>5, <1>6, <1>7

\* The search finds one of the nodes it looks for.
LEMMA FirstOfIsOne ==
  ASSUME NEW ps, IsFiniteSet(ps), ps \subseteq Path, ps # {}
  PROVE  FirstOf(ps) \in ps
<1> DEFINE R == {x \in ps \X ps : SearchedBefore(x[1], x[2])}
<1>1. \A x, y \in ps : <<x, y>> \in R \/ <<y, x>> \in R
  BY SearchIsOrder
<1>2. \A x, y, z \in ps : <<x, y>> \in R /\ <<y, z>> \in R => <<x, z>> \in R
  BY SearchTransitive
<1>3. PICK x \in ps : \A y \in ps : <<x, y>> \in R
  <2> HIDE DEF R
  <2> QED
    BY <1>1, <1>2, FirstExists DEF IsOrder, HasFirst
<1> QED
  BY <1>3 DEF FirstOf

\* The occurrence found is below the condition, and is a length call or the value.
LEMMA OccurrenceFacts ==
  ASSUME NEW t, IsTree(t), Occurrence(t) # None
  PROVE  /\ Occurrence(t) \in DOMAIN t /\ IsPrefix(Condition, Occurrence(t))
         /\ \/ t[Occurrence(t)].kind = "Call" /\ t[Occurrence(t)].op \in LengthFunctions
            \/ t[Occurrence(t)].kind = "Identifier"
<1> DEFINE within == {p \in DOMAIN t : IsPrefix(Condition, p)}
           calls == {p \in within : t[p].kind = "Call" /\ t[p].op \in LengthFunctions
                                    /\ Mentions(t, Append(p, 1))}
           names == {p \in within : IsOccurrence(t, p)}
<1>1. Occurrence(t) = IF calls # {} THEN FirstOf(calls) ELSE FirstOf(names)
  BY DEF Occurrence
<1>2. IsFiniteSet(calls) /\ IsFiniteSet(names) /\ calls \subseteq Path /\ names \subseteq Path
  <2>1. IsFiniteSet(DOMAIN t) /\ DOMAIN t \subseteq Path
    BY DEF IsTree, Path
  <2>2. calls \subseteq DOMAIN t /\ names \subseteq DOMAIN t
    OBVIOUS
  <2> QED
    BY <2>1, <2>2, FS_Subset
<1>3. CASE calls # {}
  <2>1. Occurrence(t) \in calls
    <3> HIDE DEF calls, names
    <3> QED
      BY <1>1, <1>2, <1>3, FirstOfIsOne
  <2> QED
    BY <2>1
<1>4. CASE calls = {} /\ names # {}
  <2>1. Occurrence(t) \in names
    <3> HIDE DEF calls, names
    <3> QED
      BY <1>1, <1>2, <1>4, FirstOfIsOne
  <2> QED
    BY <2>1 DEF IsOccurrence
<1>5. CASE calls = {} /\ names = {}
  <2>1. Occurrence(t) = None
    <3> HIDE DEF calls, names
    <3> QED
      BY <1>1, <1>5 DEF FirstOf
  <2> QED
    BY <2>1
<1> QED
  BY <1>3, <1>4, <1>5

\* A node above one of the condition's, other than the root, is the condition's too.
LEMMA UnderCondition ==
  ASSUME NEW p \in Path, NEW q \in Path, IsPrefix(p, q), p # Root, IsPrefix(Condition, q)
  PROVE  IsPrefix(Condition, p) /\ Len(p) > 0
<1>1. Len(p) \in Nat /\ Len(p) # 0
  BY DEF Path, Root
<1>2. Condition \in Path /\ Len(Condition) = 1 /\ Condition[1] = 1
  BY DEF Condition, Path
<1>3. q[1] = 1
  BY <1>2, PrefixMeans
<1>4. p[1] = q[1]
  BY <1>1, PrefixMeans
<1> QED
  BY <1>1, <1>2, <1>3, <1>4, PrefixMeans

IsComparison(t, p) == p # Root /\ t[p].kind = "BinaryOp" /\ t[p].op \in Relations
\* The comparison found is one, in the condition and above the occurrence.
LEMMA ComparisonFacts ==
  ASSUME NEW t, IsTree(t), NEW occ \in DOMAIN t, IsPrefix(Condition, occ), Comparison(t, occ) # None
  PROVE  /\ Comparison(t, occ) \in DOMAIN t /\ IsComparison(t, Comparison(t, occ))
         /\ IsPrefix(Condition, Comparison(t, occ)) /\ IsStrictPrefix(Comparison(t, occ), occ)
<1> DEFINE above == {p \in DOMAIN t : IsStrictPrefix(p, occ) /\ p # Root
                                      /\ t[p].kind = "BinaryOp" /\ t[p].op \in Relations}
           R == {x \in above \X above : Len(x[1]) >= Len(x[2])}
           cmp == Comparison(t, occ)
<1>1. cmp = IF above = {} THEN None ELSE CHOOSE p \in above : \A q \in above : Len(q) <= Len(p)
  BY DEF Comparison
<1>2. above # {}
  BY <1>1
<1>3. DOMAIN t \subseteq Path /\ IsFiniteSet(DOMAIN t)
  BY DEF IsTree, Path
<1>4. \A p \in above : Len(p) \in Nat
  BY <1>3 DEF Path
<1>5. IsFiniteSet(above)
  BY <1>3, FS_Subset
<1>6. PICK p \in above : \A q \in above : <<p, q>> \in R
  <2>1. IsOrder(R, above)
    BY <1>4 DEF IsOrder
  <2> HIDE DEF R, above
  <2> QED
    BY <1>2, <1>5, <2>1, FirstExists DEF HasFirst
<1>7. cmp \in above
  <2>1. \A q \in above : Len(q) <= Len(p)
    BY <1>4, <1>6
  <2> HIDE DEF above
  <2> QED
    BY <1>1, <1>2, <2>1
<1>8. IsPrefix(cmp, occ) /\ cmp # Root /\ cmp \in Path /\ occ \in Path
  BY <1>3, <1>7 DEF IsStrictPrefix
<1> QED
  BY <1>7, <1>8, UnderCondition DEF IsComparison

----------------------------------------------------------------------------
(* The way down *)

OnlyParens(t, p, q) ==
  /\ p \in DOMAIN t /\ q \in DOMAIN t /\ p # Root /\ IsPrefix(p, q)
  /\ \A r \in DOMAIN t : IsPrefix(p, r) /\ IsStrictPrefix(r, q) => t[r].kind = "Paren"

\* A node of the way from p down to q, before q.
LEMMA Step ==
  ASSUME NEW t, IsTree(t), NEW p \in DOMAIN t, NEW q \in DOMAIN t, IsPrefix(p, q), p # Root,
         NEW k \in Len(p) .. Len(q) - 1
  PROVE  /\ Len(p) \in Nat /\ Len(p) > 0 /\ Len(q) \in Nat /\ k \in 1 .. Len(q) - 1
         /\ Cut(q, k) \in DOMAIN t /\ IsPrefix(p, Cut(q, k)) /\ IsStrictPrefix(Cut(q, k), q)
         /\ Cut(q, k) # Root /\ Cut(q, k) \in Path
         /\ q[k + 1] \in Operands(t[Cut(q, k)].kind) /\ Cut(q, k + 1) = Append(Cut(q, k), q[k + 1])
<1>1. p \in Path /\ q \in Path /\ Len(p) \in Nat /\ Len(q) \in Nat /\ Len(p) # 0
  BY DEF IsTree, Path, Root
<1>2. k \in 1 .. Len(q) - 1 /\ k \in 0 .. Len(q) /\ k < Len(q)
  BY <1>1
<1>3. Cut(q, k) \in Path /\ Len(Cut(q, k)) = k /\ (\A i \in 1 .. k : Cut(q, k)[i] = q[i])
      /\ IsPrefix(Cut(q, k), q) /\ Cut(q, k + 1) = Append(Cut(q, k), q[k + 1])
  BY <1>1, <1>2, CutFacts
<1>4. Len(p) <= Len(q) /\ \A i \in 1 .. Len(p) : p[i] = q[i]
  BY <1>1, PrefixMeans
<1>5. IsPrefix(p, Cut(q, k))
  <2>1. Len(p) <= Len(Cut(q, k)) /\ \A i \in 1 .. Len(p) : p[i] = Cut(q, k)[i]
    BY <1>1, <1>2, <1>3, <1>4
  <2> QED
    BY <1>1, <1>3, <2>1, PrefixMeans
<1>6. Cut(q, k) # q /\ Cut(q, k) # Root
  BY <1>2, <1>3 DEF Root
<1>7. Cut(q, k) \in DOMAIN t /\ q[k + 1] \in Operands(t[Cut(q, k)].kind)
  BY <1>2, Above
<1> QED
  BY <1>1, <1>2, <1>3, <1>5, <1>6, <1>7 DEF IsStrictPrefix

\* Induction from m to n.
LEMMA FromTo ==
  ASSUME NEW m \in Nat, NEW n \in Nat, m <= n, NEW S, m \in S,
         \A k \in m .. n - 1 : k \in S => k + 1 \in S
  PROVE  \A k \in m .. n : k \in S
<1> DEFINE Good == {j \in Nat : m + j \in S}
<1>1. 0 \in Good /\ \A j \in 0 .. (n - m) - 1 : j \in Good => j + 1 \in Good
  <2>1. \A j \in 0 .. (n - m) - 1 : m + j \in m .. n - 1 /\ (m + j) + 1 = m + (j + 1)
    OBVIOUS
  <2> QED
    BY <2>1
<1>2. \A j \in 0 .. n - m : j \in Good
  <2> HIDE DEF Good
  <2> QED
    BY <1>1, UpTo, n - m \in Nat
<1>3. ASSUME NEW k \in m .. n PROVE k \in S
  <2>1. k - m \in 0 .. n - m /\ m + (k - m) = k
    OBVIOUS
  <2> QED
    BY <1>2, <2>1
<1> QED
  BY <1>3

\* Parentheses do not change a value.
LEMMA ParensKeepValue ==
  ASSUME NEW t, IsTree(t), NEW e, NEW p, NEW q, OnlyParens(t, p, q)
  PROVE  Value(t, e)[p] = Value(t, e)[q]
<1> DEFINE Good == {k \in Nat : Value(t, e)[Cut(q, k)] = Value(t, e)[p]}
<1>1. p \in Path /\ q \in Path /\ Len(p) \in Nat /\ Len(q) \in Nat
  BY DEF OnlyParens, IsTree, Path
<1>2. Len(p) \in 0 .. Len(q) /\ p = Cut(q, Len(p)) /\ q = Cut(q, Len(q))
  BY <1>1, PrefixIsCut, CutFacts DEF OnlyParens
<1>3. ASSUME NEW k \in Len(p) .. Len(q) - 1, k \in Good PROVE k + 1 \in Good
  <2>1. /\ Cut(q, k) \in DOMAIN t /\ IsPrefix(p, Cut(q, k)) /\ IsStrictPrefix(Cut(q, k), q)
        /\ q[k + 1] \in Operands(t[Cut(q, k)].kind) /\ Cut(q, k + 1) = Append(Cut(q, k), q[k + 1])
    BY Step DEF OnlyParens
  <2>2. t[Cut(q, k)].kind = "Paren"
    BY <2>1 DEF OnlyParens
  <2>3. q[k + 1] = 1
    BY <2>1, <2>2 DEF Operands
  <2>4. Value(t, e)[Cut(q, k)] = ValueAt(t, e, Value(t, e), Cut(q, k))
    BY <2>1, ValueDef
  <2>5. Value(t, e)[Cut(q, k)] = Value(t, e)[Append(Cut(q, k), 1)]
    BY <2>2, <2>4 DEF ValueAt
  <2>6. k \in Nat /\ k + 1 \in Nat
    BY <1>1
  <2>7. Value(t, e)[Cut(q, k)] = Value(t, e)[p]
    BY <1>3
  <2>8. Value(t, e)[Cut(q, k + 1)] = Value(t, e)[p]
    BY <2>1, <2>3, <2>5, <2>7
  <2> QED
    BY <2>6, <2>8
<1>4. Len(p) \in Good
  BY <1>1, <1>2
<1>5. Len(q) \in Good
  <2> HIDE DEF Good
  <2>1. \A k \in Len(p) .. Len(q) - 1 : k \in Good => k + 1 \in Good
    BY <1>3
  <2>2. Len(p) <= Len(q) /\ Len(q) \in Len(p) .. Len(q)
    BY <1>1, <1>2
  <2>3. \A k \in Len(p) .. Len(q) : k \in Good
    BY <1>1, <1>4, <2>1, <2>2, FromTo
  <2> QED
    BY <2>2, <2>3
<1> QED
  BY <1>2, <1>5

\* What the parentheses at a node are about has the value of the node.
LEMMA StripValue ==
  ASSUME NEW t, IsTree(t), NEW e, NEW p \in DOMAIN t, p # Root
  PROVE  /\ StripParens(t, p) \in DOMAIN t /\ IsPrefix(p, StripParens(t, p))
         /\ t[StripParens(t, p)].kind # "Paren"
         /\ Value(t, e)[StripParens(t, p)] = Value(t, e)[p]
<1>1. Inside(t, p, StripParens(t, p))
  BY InsideExists
<1>2. OnlyParens(t, p, StripParens(t, p))
  BY <1>1 DEF Inside, OnlyParens
<1> QED
  BY <1>1, <1>2, ParensKeepValue DEF Inside

\* A node below p is a parenthesis around what the parentheses at p are about, or below it.
LEMMA InsideOrAround ==
  ASSUME NEW t, IsTree(t), NEW p \in DOMAIN t, p # Root, NEW q, Inside(t, p, q),
         NEW r \in DOMAIN t, IsPrefix(p, r)
  PROVE  t[r].kind = "Paren" \/ r = q \/ IsStrictPrefix(q, r)
<1> DEFINE Good == {k \in Nat : IsPrefix(Cut(r, k), q) \/ IsPrefix(q, Cut(r, k))}
<1>1. q \in DOMAIN t /\ IsPrefix(p, q) /\ p \in Path /\ q \in Path /\ r \in Path
      /\ Len(p) \in Nat /\ Len(q) \in Nat /\ Len(r) \in Nat
  BY DEF Inside, IsTree, Path
<1>2. Len(p) \in 0 .. Len(r) /\ p = Cut(r, Len(p)) /\ r = Cut(r, Len(r))
  BY <1>1, PrefixIsCut, CutFacts
<1>3. Len(p) \in Good
  BY <1>1, <1>2
<1>4. ASSUME NEW k \in Len(p) .. Len(r) - 1, k \in Good PROVE k + 1 \in Good
  <2> DEFINE x == Cut(r, k)
  <2>1. /\ x \in DOMAIN t /\ x \in Path /\ IsPrefix(p, x) /\ x # Root
        /\ r[k + 1] \in Operands(t[x].kind) /\ Cut(r, k + 1) = Append(x, r[k + 1])
    BY Step
  <2>2. Len(x) = k /\ k + 1 \in 0 .. Len(r) /\ k \in 0 .. Len(r)
    BY <1>1, CutFacts
  <2>3. Cut(r, k + 1) \in Path /\ Len(Cut(r, k + 1)) = k + 1
        /\ \A i \in 1 .. k + 1 : Cut(r, k + 1)[i] = r[i]
    BY <1>1, <2>2, CutFacts
  <2>4. \A i \in 1 .. k : x[i] = r[i]
    BY <1>1, <2>2, CutFacts
  <2> HIDE DEF x
  <2>5. CASE IsPrefix(q, x)
    <3>1. Len(q) <= k /\ \A i \in 1 .. Len(q) : q[i] = x[i]
      BY <1>1, <2>1, <2>2, <2>5, PrefixMeans
    <3>2. Len(q) <= k + 1 /\ \A i \in 1 .. Len(q) : q[i] = Cut(r, k + 1)[i]
      BY <1>1, <2>2, <2>3, <2>4, <3>1
    <3>3. IsPrefix(q, Cut(r, k + 1))
      BY <1>1, <2>3, <3>2, PrefixMeans
    <3> QED
      BY <1>1, <3>3
  <2>6. CASE IsPrefix(x, q) /\ x # q
    <3>1. t[x].kind = "Paren"
      BY <2>1, <2>6 DEF Inside, IsStrictPrefix
    <3>2. r[k + 1] = 1
      BY <2>1, <3>1 DEF Operands
    <3>3. Len(x) < Len(q)
      <4>1. Len(x) <= Len(q) /\ \A i \in 1 .. Len(x) : x[i] = q[i]
        BY <1>1, <2>1, <2>6, PrefixMeans
      <4>2. CASE Len(x) = Len(q)
        BY <1>1, <2>1, <2>6, <4>1, <4>2, SeqEqual DEF Path
      <4> QED
        BY <1>1, <2>1, <4>1, <4>2 DEF Path
    <3>4. k \in Len(p) .. Len(q) - 1 /\ Cut(q, k) = x
      <4>1. k \in Len(p) .. Len(q) - 1
        BY <1>1, <2>2, <3>3
      <4> QED
        BY <1>1, <2>1, <2>2, <2>6, <4>1, PrefixIsCut
    <3>5. q[k + 1] \in Operands(t[x].kind) /\ Cut(q, k + 1) = Append(x, q[k + 1])
      BY <1>1, <3>4, Step
    <3>6. q[k + 1] = 1
      BY <3>1, <3>5 DEF Operands
    <3>7. Cut(r, k + 1) = Cut(q, k + 1)
      BY <2>1, <3>2, <3>5, <3>6
    <3>8. IsPrefix(Cut(q, k + 1), q)
      BY <1>1, <2>2, <3>3, CutFacts, k + 1 \in 0 .. Len(q)
    <3> QED
      BY <1>1, <3>7, <3>8
  <2> QED
    BY <1>4, <2>5, <2>6 DEF x
<1>5. Len(r) \in Good
  <2> HIDE DEF Good
  <2>1. \A k \in Len(p) .. Len(r) - 1 : k \in Good => k + 1 \in Good
    BY <1>4
  <2>2. Len(p) <= Len(r) /\ Len(r) \in Len(p) .. Len(r)
    BY <1>1, <1>2
  <2>3. \A k \in Len(p) .. Len(r) : k \in Good
    BY <1>1, <1>3, <2>1, <2>2, FromTo
  <2> QED
    BY <2>2, <2>3
<1>6. IsPrefix(r, q) \/ IsPrefix(q, r)
  BY <1>2, <1>5
<1> QED
  BY <1>6 DEF Inside, IsStrictPrefix

\* A test of the truth of one value.
TestsOneTruth(t) ==
  LET test == StripParens(t, Condition)
  IN \/ t[test].kind = "Identifier"
     \/ t[test].kind = "UnaryOp" /\ t[StripParens(t, Append(test, 1))].kind = "Identifier"

\* Such a condition has no comparison.
LEMMA NoComparison ==
  ASSUME NEW t, IsTree(t), TestsOneTruth(t), NEW r \in DOMAIN t, IsPrefix(Condition, r)
  PROVE  t[r].kind # "BinaryOp"
<1> DEFINE test == StripParens(t, Condition)
<1>1. Condition \in DOMAIN t /\ Condition # Root
  BY DEF IsTree, Condition, Root
<1>2. Inside(t, Condition, test)
  BY <1>1, InsideExists
<1>3. t[r].kind = "Paren" \/ r = test \/ IsStrictPrefix(test, r)
  BY <1>1, <1>2, InsideOrAround
<1>4. ASSUME NEW x \in DOMAIN t, x # Root, IsStrictPrefix(x, r)
      PROVE  \E i \in Operands(t[x].kind) : Append(x, i) \in DOMAIN t /\ IsPrefix(Append(x, i), r)
  <2>1. x \in Path /\ r \in Path /\ IsPrefix(x, r) /\ x # r /\ Len(x) \in Nat /\ Len(r) \in Nat
    BY <1>4 DEF IsTree, Path, IsStrictPrefix
  <2>2. Len(x) \in 0 .. Len(r) /\ x = Cut(r, Len(x)) /\ r = Cut(r, Len(r))
    BY <2>1, PrefixIsCut, CutFacts
  <2>3. Len(x) \in Len(x) .. Len(r) - 1
    BY <2>1, <2>2
  <2>4. r[Len(x) + 1] \in Operands(t[x].kind)
    BY <1>4, <2>1, <2>2, <2>3, Step
  <2>5. r[Len(x) + 1] \in Nat
    BY <2>4, OperandsAre
  <2>6. IsPrefix(Append(x, r[Len(x) + 1]), r)
    BY <2>1, <2>3, <2>5, BelowChild
  <2>7. Append(x, r[Len(x) + 1]) \in DOMAIN t
    BY <1>4, <2>4 DEF IsTree
  <2> QED
    BY <2>4, <2>6, <2>7
<1>5. test \in DOMAIN t /\ test # Root
  <2>1. test \in DOMAIN t /\ IsPrefix(Condition, test)
    BY <1>2 DEF Inside
  <2>2. Len(Condition) = 1 /\ Condition \in Path /\ Len(Root) = 0
    BY DEF Condition, Root, Path
  <2>3. test \in Path
    BY <2>1 DEF IsTree, Path
  <2>4. Len(Condition) <= Len(test)
    BY <2>1, <2>2, <2>3, PrefixMeans
  <2> QED
    BY <2>1, <2>2, <2>4
<1> HIDE DEF test
<1>6. CASE t[test].kind = "Identifier"
  BY <1>3, <1>4, <1>5, <1>6 DEF Operands
<1>7. CASE t[test].kind = "UnaryOp" /\ t[StripParens(t, Append(test, 1))].kind = "Identifier"
  <2> DEFINE y == Append(test, 1)
             inner == StripParens(t, y)
  <2>1. CASE IsStrictPrefix(test, r)
    <3>1. y \in DOMAIN t /\ IsPrefix(y, r)
      BY <1>4, <1>5, <1>7, <2>1 DEF Operands
    <3>2. y # Root /\ y \in Path /\ Len(y) > 0
      <4>1. test \in Seq(Nat)
        BY <1>5 DEF IsTree
      <4>2. Len(y) = Len(test) + 1 /\ y \in Seq(Nat) /\ Len(Root) = 0 /\ Len(test) \in Nat
        BY <4>1 DEF Root
      <4> QED
        BY <4>2 DEF Path
    <3>3. Inside(t, y, inner)
      BY <3>1, InsideExists
    <3>4. t[r].kind = "Paren" \/ r = inner \/ IsStrictPrefix(inner, r)
      BY <3>1, <3>2, <3>3, InsideOrAround
    <3>5. inner \in DOMAIN t /\ inner # Root
      <4>1. inner \in DOMAIN t /\ IsPrefix(y, inner)
        BY <3>3 DEF Inside
      <4>2. inner \in Path
        BY <4>1 DEF IsTree, Path
      <4> HIDE DEF y, inner
      <4>3. Len(y) <= Len(inner) /\ Len(Root) = 0
        BY <3>2, <4>1, <4>2, PrefixMeans DEF Root
      <4>4. Len(inner) # 0
        BY <3>2, <4>2, <4>3 DEF Path
      <4> QED
        BY <4>1, <4>3, <4>4
    <3> HIDE DEF inner
    <3>6. t[inner].kind = "Identifier"
      BY <1>7 DEF inner
    <3> QED
      BY <1>4, <3>4, <3>5, <3>6 DEF Operands
  <2> QED
    BY <1>3, <1>7, <2>1
<1> QED
  BY <1>6, <1>7 DEF TestsOneTruth, test

\* The condition's outcome is that of a test it decides.
LEMMA DecidedTruth ==
  ASSUME NEW t, IsTree(t), NEW e, NEW q \in DOMAIN t, IsPrefix(Condition, q),
         NEW polarity \in BOOLEAN, Decided(t, q, polarity),
         (Value(t, e)[Condition] # 0) <=> polarity
  PROVE  (Value(t, e)[q] # 0) <=> polarity
<1> DEFINE Good == {k \in Nat : (Value(t, e)[Cut(q, k)] # 0) <=> polarity}
<1>1. Condition \in DOMAIN t /\ Condition # Root /\ Condition \in Path /\ q \in Path
      /\ Len(Condition) = 1 /\ Len(q) \in Nat
  BY DEF IsTree, Condition, Root, Path
<1>2. Len(Condition) \in 0 .. Len(q) /\ Condition = Cut(q, 1) /\ q = Cut(q, Len(q))
  <2>1. Len(Condition) \in 0 .. Len(q) /\ Condition = Cut(q, Len(Condition))
    BY <1>1, PrefixIsCut
  <2>2. q = Cut(q, Len(q))
    BY <1>1, CutFacts, Len(q) \in 0 .. Len(q)
  <2> QED
    BY <1>1, <2>1, <2>2
<1>3. ASSUME NEW k \in 1 .. Len(q) - 1, k \in Good PROVE k + 1 \in Good
  <2> DEFINE x == Cut(q, k)
             val == Value(t, e)
  <2>0. k \in Len(Condition) .. Len(q) - 1 /\ k + 1 \in Nat
    BY <1>1
  <2>1. /\ x \in DOMAIN t /\ x # Root /\ IsStrictPrefix(x, q)
        /\ q[k + 1] \in Operands(t[x].kind) /\ Cut(q, k + 1) = Append(x, q[k + 1])
    <3>1. ASSUME NEW j \in Len(Condition) .. Len(q) - 1
          PROVE  /\ Cut(q, j) \in DOMAIN t /\ IsStrictPrefix(Cut(q, j), q) /\ Cut(q, j) # Root
                 /\ q[j + 1] \in Operands(t[Cut(q, j)].kind) /\ Cut(q, j + 1) = Append(Cut(q, j), q[j + 1])
      BY <1>1, Step
    <3> QED
      BY <2>0, <3>1
  <2>2. val[x] = ValueAt(t, e, val, x)
    BY <2>1, ValueDef
  <2>3. (val[x] # 0) <=> polarity
    BY <1>3
  <2> HIDE DEF x, val
  <2>4. CASE t[x].kind = "Paren"
    <3>1. q[k + 1] = 1
      BY <2>1, <2>4 DEF Operands
    <3>2. val[x] = val[Append(x, 1)]
      BY <2>2, <2>4 DEF ValueAt
    <3>3. (val[Cut(q, k + 1)] # 0) <=> polarity
      BY <2>1, <2>3, <3>1, <3>2
    <3> QED
      BY <2>0, <3>3 DEF val
  <2>5. CASE polarity /\ t[x].kind = "BinaryOp" /\ t[x].op = "&&"
    <3>1. q[k + 1] \in {1, 2}
      BY <2>1, OperandsAre
    <3>2. val[x] = Truth(val[Append(x, 1)] # 0 /\ val[Append(x, 2)] # 0)
      BY <2>2, <2>5 DEF ValueAt
    <3>3. val[Append(x, 1)] # 0 /\ val[Append(x, 2)] # 0
      BY <2>3, <2>5, <3>2 DEF Truth
    <3>4. (val[Cut(q, k + 1)] # 0) <=> polarity
      BY <2>1, <2>5, <3>1, <3>3
    <3> QED
      BY <2>0, <3>4 DEF val
  <2>6. CASE ~polarity /\ t[x].kind = "BinaryOp" /\ t[x].op = "||"
    <3>1. q[k + 1] \in {1, 2}
      BY <2>1, OperandsAre
    <3>2. val[x] = Truth(val[Append(x, 1)] # 0 \/ val[Append(x, 2)] # 0)
      BY <2>2, <2>6 DEF ValueAt
    <3>3. val[Append(x, 1)] = 0 /\ val[Append(x, 2)] = 0
      BY <2>3, <2>6, <3>2 DEF Truth
    <3>4. (val[Cut(q, k + 1)] # 0) <=> polarity
      BY <2>1, <2>6, <3>1, <3>3
    <3> QED
      BY <2>0, <3>4 DEF val
  <2> QED
    BY <2>1, <2>4, <2>5, <2>6 DEF Decided
<1>4. 1 \in Good
  BY <1>2
<1>5. Len(q) \in Good
  <2> HIDE DEF Good
  <2>1. \A k \in 1 .. Len(q) - 1 : k \in Good => k + 1 \in Good
    BY <1>3
  <2>2. 1 <= Len(q) /\ Len(q) \in 1 .. Len(q)
    BY <1>1, <1>2
  <2>3. \A k \in 1 .. Len(q) : k \in Good
    BY <1>1, <1>4, <2>1, <2>2, FromTo
  <2> QED
    BY <2>2, <2>3
<1> QED
  BY <1>2, <1>5

----------------------------------------------------------------------------
(* The reading of a comparison *)

\* Turning a comparison round, and negating it, are what their names say (flip_operator and
\* negate_operator).
LEMMA Mirrors ==
  ASSUME NEW l \in Int, NEW r \in Int, NEW op \in Relations
  PROVE  /\ Flip[op] \in Relations /\ Negate[op] \in Relations
         /\ Relate(l, op, r) <=> Relate(r, Flip[op], l)
         /\ ~Relate(l, op, r) <=> Relate(l, Negate[op], r)
         /\ op \in {"==", "!="} <=> Flip[op] \in {"==", "!="}
         /\ op \in {"==", "!="} <=> Negate[op] \in {"==", "!="}
<1>1. CASE op = "=="
  <2>1. Flip[op] = "==" /\ Negate[op] = "!="
    BY <1>1 DEF Flip, Negate, Relations
  <2> QED
    BY <1>1, <2>1 DEF Relate, Relations
<1>2. CASE op = "!="
  <2>1. Flip[op] = "!=" /\ Negate[op] = "=="
    BY <1>2 DEF Flip, Negate, Relations
  <2> QED
    BY <1>2, <2>1 DEF Relate, Relations
<1>3. CASE op = "<"
  <2>1. Flip[op] = ">" /\ Negate[op] = ">="
    BY <1>3 DEF Flip, Negate, Relations
  <2> QED
    BY <1>3, <2>1 DEF Relate, Relations
<1>4. CASE op = "<="
  <2>1. Flip[op] = ">=" /\ Negate[op] = ">"
    BY <1>4 DEF Flip, Negate, Relations
  <2> QED
    BY <1>4, <2>1 DEF Relate, Relations
<1>5. CASE op = ">"
  <2>1. Flip[op] = "<" /\ Negate[op] = "<="
    BY <1>5 DEF Flip, Negate, Relations
  <2> QED
    BY <1>5, <2>1 DEF Relate, Relations
<1>6. CASE op = ">="
  <2>1. Flip[op] = "<=" /\ Negate[op] = "<"
    BY <1>6 DEF Flip, Negate, Relations
  <2> QED
    BY <1>6, <2>1 DEF Relate, Relations
<1> QED
  BY <1>1, <1>2, <1>3, <1>4, <1>5, <1>6 DEF Relations

\* The value of a comparison is what its operator says of its operands.
LEMMA ComparisonValue ==
  ASSUME NEW t, IsTree(t), NEW e, NEW p \in DOMAIN t, IsComparison(t, p)
  PROVE  /\ Append(p, 1) \in DOMAIN t /\ Append(p, 2) \in DOMAIN t
         /\ Append(p, 1) # Root /\ Append(p, 2) # Root
         /\ Value(t, e)[p] # 0 <=> Relate(Value(t, e)[Append(p, 1)], t[p].op, Value(t, e)[Append(p, 2)])
<1> DEFINE val == Value(t, e)
<1>1. val[p] = ValueAt(t, e, val, p)
  BY ValueDef
<1> HIDE DEF val
<1>2. Append(p, 1) \in DOMAIN t /\ Append(p, 2) \in DOMAIN t
  BY DEF IsTree, IsComparison, Operands
<1>3. val[p] = Truth(Relate(val[Append(p, 1)], t[p].op, val[Append(p, 2)]))
  BY <1>1 DEF IsComparison, Relations, ValueAt
<1>4. Append(p, 1) # Root /\ Append(p, 2) # Root
  <2>1. p \in Seq(Nat)
    BY DEF IsTree
  <2> DEFINE y(i) == Append(p, i)
  <2>2. Len(y(1)) = Len(p) + 1 /\ Len(y(2)) = Len(p) + 1 /\ Len(Root) = 0 /\ Len(p) \in Nat
    BY <2>1 DEF Root
  <2> HIDE DEF y
  <2>3. y(1) # Root /\ y(2) # Root
    BY <2>2
  <2> QED
    BY <2>3 DEF y
<1> QED
  BY <1>2, <1>3, <1>4 DEF Truth, val

\* The sides of a comparison, and the operator between them on the branch of the target.
LEMMA ReadRight ==
  ASSUME NEW t, IsTree(t), NEW e, NEW p \in DOMAIN t, IsComparison(t, p), NEW occ, NEW target,
         Value(t, e)[ValueSide(t, p, occ)] \in Int, Value(t, e)[BoundSide(t, p, occ)] \in Int
  PROVE  Relate(Value(t, e)[ValueSide(t, p, occ)], ReadAs(t, p, occ, target), Value(t, e)[BoundSide(t, p, occ)])
           <=> (Value(t, e)[p] # 0 <=> Polarity(target))
<1> DEFINE val == Value(t, e)
           x == val[ValueSide(t, p, occ)]
           y == val[BoundSide(t, p, occ)]
           read == IF IsAncestor(Append(p, 1), occ) THEN t[p].op ELSE Flip[t[p].op]
<1>1. t[p].op \in Relations
  BY DEF IsComparison
<1>2. val[p] # 0 <=> Relate(val[Append(p, 1)], t[p].op, val[Append(p, 2)])
  BY ComparisonValue
<1> HIDE DEF val
<1>3. read \in Relations /\ (val[p] # 0 <=> Relate(x, read, y))
  <2>1. CASE IsAncestor(Append(p, 1), occ)
    <3>1. x = val[Append(p, 1)] /\ y = val[Append(p, 2)] /\ read = t[p].op
      BY <2>1 DEF ValueSide, BoundSide
    <3> QED
      BY <1>1, <1>2, <3>1
  <2>2. CASE ~IsAncestor(Append(p, 1), occ)
    <3>1. x = val[Append(p, 2)] /\ y = val[Append(p, 1)] /\ read = Flip[t[p].op]
      BY <2>2 DEF ValueSide, BoundSide
    <3>2. x \in Int /\ y \in Int
      BY DEF val
    <3> HIDE DEF x, y, read
    <3> QED
      BY <1>1, <1>2, <3>1, <3>2, Mirrors
  <2> QED
    BY <2>1, <2>2
<1>4. ReadAs(t, p, occ, target) = IF Polarity(target) THEN read ELSE Negate[read]
  BY DEF ReadAs
<1>5. x \in Int /\ y \in Int
  BY DEF val
<1>6. Relate(x, ReadAs(t, p, occ, target), y) <=> (val[p] # 0 <=> Polarity(target))
  <2> HIDE DEF x, y, read
  <2> QED
    BY <1>3, <1>4, <1>5, Mirrors
<1> QED
  BY <1>6 DEF val

\* Reading a comparison does not make an order of an equality, nor the reverse.
LEMMA ReadOps ==
  ASSUME NEW t, NEW p, t[p].op \in Relations, NEW occ, NEW target
  PROVE  /\ ReadAs(t, p, occ, target) \in Relations
         /\ ReadAs(t, p, occ, target) \in {"==", "!="} <=> t[p].op \in {"==", "!="}
<1> DEFINE read == IF IsAncestor(Append(p, 1), occ) THEN t[p].op ELSE Flip[t[p].op]
<1>1. ReadAs(t, p, occ, target) = IF Polarity(target) THEN read ELSE Negate[read]
  BY DEF ReadAs
<1>2. read \in Relations /\ (read \in {"==", "!="} <=> t[p].op \in {"==", "!="})
  BY 0 \in Int, Mirrors
<1>3. \A op \in Relations : Negate[op] \in Relations /\ (op \in {"==", "!="} <=> Negate[op] \in {"==", "!="})
  BY 0 \in Int, Mirrors
<1> HIDE DEF read
<1> QED
  BY <1>1, <1>2, <1>3

----------------------------------------------------------------------------
(* The folder *)

\* The folder's value of a node depends on those of its operands.
LEMMA SymLocal ==
  ASSUME NEW t, NEW p, NEW f, NEW g,
         \A i \in Operands(t[p].kind) : f[Append(p, i)] = g[Append(p, i)]
  PROVE  SymAt(t, f, p) = SymAt(t, g, p)
<1>1. CASE t[p].kind = "BinaryOp"
  <2>1. f[Append(p, 1)] = g[Append(p, 1)] /\ f[Append(p, 2)] = g[Append(p, 2)]
    BY <1>1 DEF Operands
  <2> QED
    BY <2>1 DEF SymAt
<1>2. CASE t[p].kind \in {"Paren", "Cast", "UnaryOp"}
  <2>1. f[Append(p, 1)] = g[Append(p, 1)]
    BY <1>2 DEF Operands
  <2> QED
    BY <1>2, <2>1 DEF SymAt
<1>3. CASE t[p].kind \notin {"BinaryOp", "Paren", "Cast", "UnaryOp"}
  BY <1>3 DEF SymAt
<1> QED
  BY <1>1, <1>2, <1>3

\* Every node has the value that the folder gives it.
LEMMA SymDef ==
  ASSUME NEW t, IsTree(t)
  PROVE  \A p \in DOMAIN t : Sym(t)[p] = SymAt(t, Sym(t), p)
<1>1. PICK n \in Nat : \A p \in DOMAIN t : Len(p) <= n
  BY DepthBound
<1> DEFINE Deep(k) == {p \in DOMAIN t : Len(p) > n - k}
           Is(g, k) == g = [p \in Deep(k) |-> SymAt(t, g, p)]
           Good == {k \in Nat : \E g : Is(g, k)}
<1>0. \A p \in DOMAIN t : Len(p) \in Nat
  BY DEF IsTree
<1>2. 0 \in Good
  <2> DEFINE g == [p \in {} |-> 0]
  <2>1. Deep(0) = {}
    BY <1>1, <1>0
  <2>2. Is(g, 0)
    BY <2>1
  <2> QED
    BY <2>2
<1>3. ASSUME NEW k \in Nat, k \in Good PROVE k + 1 \in Good
  <2>1. PICK g : Is(g, k)
    BY <1>3
  <2> DEFINE h == [p \in Deep(k + 1) |-> SymAt(t, g, p)]
  <2>2. ASSUME NEW p \in Deep(k + 1) PROVE SymAt(t, g, p) = SymAt(t, h, p)
    <3>1. ASSUME NEW i \in Operands(t[p].kind) PROVE g[Append(p, i)] = h[Append(p, i)]
      <4>1. p \in Seq(Nat) /\ i \in Nat
        BY OperandsAre DEF IsTree
      <4>5. Append(p, i) \in DOMAIN t
        BY DEF IsTree
      <4>2. Append(p, i) \in Deep(k) /\ Append(p, i) \in Deep(k + 1)
        BY <4>1, <4>5
      <4>3. g[Append(p, i)] = SymAt(t, g, Append(p, i))
        BY <2>1, <4>2
      <4>4. h[Append(p, i)] = SymAt(t, g, Append(p, i))
        BY <4>2
      <4> QED
        BY <4>3, <4>4
    <3> HIDE DEF h
    <3> QED
      BY <3>1, SymLocal
  <2>3. Is(h, k + 1)
    BY <2>2
  <2>4. \E f : Is(f, k + 1)
    <3> HIDE DEF Is, h
    <3> QED
      BY <2>3
  <2> HIDE DEF Is
  <2> QED
    BY <2>4
<1>4. n + 1 \in Good
  <2> HIDE DEF Good
  <2> QED
    BY <1>2, <1>3, UpTo, n + 1 \in Nat
<1>5. Deep(n + 1) = DOMAIN t
  BY <1>0
<1>6. PICK g : g = [p \in DOMAIN t |-> SymAt(t, g, p)]
  BY <1>4, <1>5
<1>7. Sym(t) = CHOOSE f : f = [p \in DOMAIN t |-> SymAt(t, f, p)]
  BY DEF Sym
<1>8. Sym(t) = [p \in DOMAIN t |-> SymAt(t, Sym(t), p)]
  BY <1>6, <1>7
<1> QED
  BY <1>8

\* What the folder takes for an integer is computed with + - and / and within its range, and
\* no cast changes it...
Fits(t, e) ==
  \A p \in DOMAIN t : IsInt(t, p) =>
    /\ Representable(Value(t, e)[p])
    /\ t[p].kind = "BinaryOp" => t[p].op \in {"+", "-", "/"}
    /\ t[p].kind = "UnaryOp" => t[p].op = "-"
    /\ t[p].kind = "Cast" => Value(t, e)[p] = Value(t, e)[Append(p, 1)]
\* ... and what it finds is what the program computes.
Folds(t, e) == \A p \in DOMAIN t : IsInt(t, p) => IntOf(t, p) \in Int /\ Value(t, e)[p] = IntOf(t, p)

\* An integer of the range is itself when it is wrapped.
LEMMA WrapFits ==
  ASSUME NEW n, Representable(n)
  PROVE  n \in Int /\ Wrap(n) = n
<1>1. Half \in Nat
  BY BitsAssumption DEF Half
<1>2. n \in Int /\ n + Half \in 0 .. 2 * Half - 1
  BY <1>1 DEF Representable
<1>3. \A b \in Nat : \A a \in 0 .. b - 1 : a % b = a
  OBVIOUS
<1>4. (n + Half) % (2 * Half) = n + Half
  BY <1>1, <1>2, <1>3, 2 * Half \in Nat
<1> QED
  BY <1>1, <1>2, <1>4 DEF Wrap

\* Where nothing overflows and no cast changes a value, the folder computes what the program
\* does (symbolic.rs: compute).
THEOREM FoldingFollows ==
  ASSUME NEW t, IsTree(t), NEW e, Fits(t, e)
  PROVE  Folds(t, e)
<1> DEFINE val == Value(t, e)
           sym == Sym(t)
           S == {p \in DOMAIN t : sym[p][1] = "Int" => val[p] \in Int /\ val[p] = sym[p][2]}
<1>1. ASSUME NEW p \in DOMAIN t, \A i \in Operands(t[p].kind) : Append(p, i) \in S
      PROVE  p \in S
  <2> SUFFICES ASSUME sym[p][1] = "Int" PROVE val[p] \in Int /\ val[p] = sym[p][2]
    OBVIOUS
  <2>1. /\ Representable(val[p])
        /\ t[p].kind = "BinaryOp" => t[p].op \in {"+", "-", "/"}
        /\ t[p].kind = "UnaryOp" => t[p].op = "-"
        /\ t[p].kind = "Cast" => val[p] = val[Append(p, 1)]
    BY DEF Fits, IsInt
  <2>2. val[p] \in Int /\ Wrap(val[p]) = val[p]
    BY <2>1, WrapFits
  <2>3. val[p] = ValueAt(t, e, val, p) /\ sym[p] = SymAt(t, sym, p)
    BY ValueDef, SymDef
  <2> DEFINE l == Append(p, 1)
             r == Append(p, 2)
  <2>4. CASE t[p].kind \in {"Literal", "Sizeof"}
    <3> HIDE DEF val, sym
    <3>1. val[p] = t[p].val
      BY <2>3, <2>4 DEF ValueAt
    <3>2. sym[p][2] = t[p].val
      BY <2>3, <2>4 DEF SymAt, Int_, Bool_, Unknown
    <3> QED
      BY <2>2, <3>1, <3>2
  <2>5. CASE t[p].kind = "Paren"
    <3>1. l \in S
      BY <1>1, <2>5 DEF Operands
    <3> HIDE DEF val, sym
    <3>2. val[p] = val[l] /\ sym[p] = sym[l]
      BY <2>3, <2>5 DEF ValueAt, SymAt
    <3> QED
      BY <3>1, <3>2
  <2>6. CASE t[p].kind = "UnaryOp"
    <3>1. l \in S
      BY <1>1, <2>6 DEF Operands
    <3> HIDE DEF val, sym
    <3>2. sym[l][1] = "Int" /\ sym[p][2] = -sym[l][2]
      BY <2>1, <2>3, <2>6 DEF SymAt, UnaryValue, Int_, Bool_, Unknown
    <3>3. val[p] = -val[l]
      BY <2>1, <2>3, <2>6 DEF ValueAt
    <3> QED
      BY <2>2, <3>1, <3>2, <3>3
  <2>7. CASE t[p].kind = "BinaryOp"
    <3>1. l \in S /\ r \in S
      BY <1>1, <2>7 DEF Operands
    <3> HIDE DEF val, sym
    <3>2. t[p].op \in {"+", "-", "/"}
      BY <2>1, <2>7
    <3>3. sym[l][1] = "Int" /\ sym[r][1] = "Int" /\ sym[p] = IntOp(sym[l][2], t[p].op, sym[r][2])
      BY <2>3, <2>7, <3>2 DEF SymAt, BoolOp, Bool_, Unknown
    <3>4. val[l] = sym[l][2] /\ val[r] = sym[r][2] /\ val[l] \in Int /\ val[r] \in Int
      BY <3>1, <3>3
    <3>5. CASE t[p].op = "+"
      <4>1. val[p] = val[l] + val[r]
        BY <2>3, <2>7, <3>5 DEF ValueAt
      <4>3. IntOp(val[l], "+", val[r]) = Int_(Wrap(val[l] + val[r]))
        BY DEF IntOp, Relations
      <4>2. sym[p][2] = Wrap(val[l] + val[r])
        BY <3>3, <3>4, <3>5, <4>3 DEF Int_
      <4> QED
        BY <2>2, <4>1, <4>2
    <3>6. CASE t[p].op = "-"
      <4>1. val[p] = val[l] - val[r]
        BY <2>3, <2>7, <3>6 DEF ValueAt
      <4>3. IntOp(val[l], "-", val[r]) = Int_(Wrap(val[l] - val[r]))
        BY DEF IntOp, Relations
      <4>2. sym[p][2] = Wrap(val[l] - val[r])
        BY <3>3, <3>4, <3>6, <4>3 DEF Int_
      <4> QED
        BY <2>2, <4>1, <4>2
    <3>7. CASE t[p].op = "/"
      <4>1. val[r] # 0 /\ sym[p][2] = Quotient(val[l], val[r])
        BY <3>3, <3>4, <3>7 DEF IntOp, Int_, Unknown, Relations
      <4>2. val[p] = Quotient(val[l], val[r])
        BY <2>3, <2>7, <3>7, <4>1 DEF ValueAt
      <4> QED
        BY <2>2, <4>1, <4>2
    <3> QED
      BY <3>2, <3>5, <3>6, <3>7
  <2>8. CASE t[p].kind = "Cast"
    <3>1. l \in S
      BY <1>1, <2>8 DEF Operands
    <3> HIDE DEF val, sym
    <3>2. val[p] = val[l] /\ sym[p] = sym[l]
      BY <2>1, <2>3, <2>8 DEF SymAt
    <3> QED
      BY <3>1, <3>2
  <2>9. CASE t[p].kind \notin {"Literal", "Sizeof", "Paren", "Cast", "UnaryOp", "BinaryOp"}
    <3> HIDE DEF val, sym
    <3> QED
      BY <2>3, <2>9 DEF SymAt, Unknown
  <2> QED
    BY <2>4, <2>5, <2>6, <2>7, <2>8, <2>9
<1>2. DOMAIN t \subseteq S
  <2> HIDE DEF S
  <2> QED
    BY <1>1, BottomUp
<1> QED
  BY <1>2 DEF Folds, IsInt, IntOf

----------------------------------------------------------------------------
(* The sides of a comparison *)


\* The value side is the value with the constant added to it.
LEMMA SideValue ==
  ASSUME NEW t, IsTree(t), NEW e, Folds(t, e), NEW side \in DOMAIN t, side # Root,
         NEW occ \in DOMAIN t, t[occ].kind # "BinaryOp", Value(t, e)[occ] \in Int, Plain(t, side, occ)
  PROVE  /\ Offset(t, side, occ) \in Int
         /\ Value(t, e)[side] = Value(t, e)[occ] + Offset(t, side, occ)
         /\ StripParens(t, side) = occ => Offset(t, side, occ) = 0
<1> DEFINE p == StripParens(t, side)
           val == Value(t, e)
           Of(q) == IF IsInt(t, q) THEN IntOf(t, q) ELSE 0
<1>1. p \in DOMAIN t /\ val[p] = val[side]
  BY StripValue
<1>2. val[p] = ValueAt(t, e, val, p)
  BY <1>1, ValueDef
<1>3. \A q \in DOMAIN t : IsInt(t, q) => IntOf(t, q) \in Int /\ val[q] = IntOf(t, q)
  BY DEF Folds
<1>4. Offset(t, side, occ) =
        CASE t[p].kind = "BinaryOp" /\ Append(p, 1) = occ /\ t[p].op = "+" -> Of(Append(p, 2))
          [] t[p].kind = "BinaryOp" /\ Append(p, 1) = occ /\ t[p].op = "-" -> -Of(Append(p, 2))
          [] t[p].kind = "BinaryOp" /\ Append(p, 2) = occ /\ t[p].op = "+" -> Of(Append(p, 1))
          [] OTHER -> 0
  BY DEF Offset
<1>5. \/ p = occ
      \/ /\ t[p].kind = "BinaryOp" /\ t[p].op \in {"+", "-"}
         /\ \/ Append(p, 1) = occ /\ IsInt(t, Append(p, 2))
            \/ Append(p, 2) = occ /\ t[p].op = "+" /\ IsInt(t, Append(p, 1))
  BY DEF Plain
<1>6. val[occ] \in Int
  OBVIOUS
<1>7. Append(p, 1) # Append(p, 2)
  <2>1. p \in Seq(Nat)
    BY <1>1 DEF IsTree
  <2>2. Append(p, 1)[Len(p) + 1] = 1 /\ Append(p, 2)[Len(p) + 1] = 2
    BY <2>1
  <2> QED
    BY <2>2
<1>8. t[p].kind = "BinaryOp" => Append(p, 1) \in DOMAIN t /\ Append(p, 2) \in DOMAIN t
  BY <1>1 DEF IsTree, Operands
<1> HIDE DEF p, val
<1>9. CASE p = occ
  <2>1. t[p].kind # "BinaryOp"
    BY <1>9
  <2>2. Offset(t, side, occ) = 0
    BY <1>4, <2>1
  <2> QED
    BY <1>1, <1>6, <1>9, <2>2 DEF val
<1>10. CASE t[p].kind = "BinaryOp" /\ t[p].op \in {"+", "-"} /\ Append(p, 1) = occ /\ IsInt(t, Append(p, 2))
  <2> DEFINE n == IntOf(t, Append(p, 2))
  <2>1. n \in Int /\ val[Append(p, 2)] = n
    BY <1>3, <1>8, <1>10
  <2>2. Of(Append(p, 2)) = n
    BY <1>10
  <2>3. p # occ
    BY <1>10
  <2> HIDE DEF n
  <2>4. CASE t[p].op = "+"
    <3>1. val[p] = val[occ] + n
      BY <1>2, <1>10, <2>1, <2>4 DEF ValueAt
    <3>2. Offset(t, side, occ) = n
      BY <1>4, <1>10, <2>2, <2>4
    <3> QED
      BY <1>1, <2>1, <2>3, <3>1, <3>2 DEF val, p
  <2>5. CASE t[p].op = "-"
    <3>1. val[p] = val[occ] - n
      BY <1>2, <1>10, <2>1, <2>5 DEF ValueAt
    <3>2. Offset(t, side, occ) = -n
      BY <1>4, <1>10, <2>2, <2>5
    <3>3. val[occ] - n = val[occ] + (-n) /\ -n \in Int
      BY <1>6, <2>1
    <3> QED
      BY <1>1, <2>3, <3>1, <3>2, <3>3 DEF val, p
  <2> QED
    BY <1>10, <2>4, <2>5
<1>11. CASE t[p].kind = "BinaryOp" /\ Append(p, 2) = occ /\ t[p].op = "+" /\ IsInt(t, Append(p, 1))
  <2> DEFINE n == IntOf(t, Append(p, 1))
  <2>1. n \in Int /\ val[Append(p, 1)] = n
    BY <1>3, <1>8, <1>11
  <2>2. Of(Append(p, 1)) = n
    BY <1>11
  <2>3. p # occ /\ Append(p, 1) # occ
    BY <1>7, <1>11
  <2> HIDE DEF n
  <2>4. val[p] = n + val[occ]
    BY <1>2, <1>11, <2>1 DEF ValueAt
  <2>5. Offset(t, side, occ) = n
    BY <1>4, <1>11, <2>2, <2>3
  <2> QED
    BY <1>1, <1>6, <2>1, <2>3, <2>4, <2>5 DEF val, p
<1> QED
  BY <1>5, <1>9, <1>10, <1>11

\* The occurrence, when it is the value or its length, has the value of v.
LEMMA OccurrenceValue ==
  ASSUME NEW t, IsTree(t), Occurrence(t) # None, IsTheValue(t, Occurrence(t)), NEW v \in Int, NEW u
  PROVE  /\ t[Occurrence(t)].kind # "BinaryOp"
         /\ Value(t, EnvOf(v, u))[Occurrence(t)] = v
<1> DEFINE occ == Occurrence(t)
           e == EnvOf(v, u)
           val == Value(t, e)
<1>1. occ \in DOMAIN t /\ ((t[occ].kind = "Call" /\ t[occ].op \in LengthFunctions) \/ t[occ].kind = "Identifier")
  BY OccurrenceFacts
<1>2. \A p \in DOMAIN t : IsVar(t, p, "v") => val[p] = v
  <2> SUFFICES ASSUME NEW p \in DOMAIN t, IsVar(t, p, "v") PROVE val[p] = v
    OBVIOUS
  <2>1. val[p] = ValueAt(t, e, val, p)
    BY ValueDef
  <2> HIDE DEF val
  <2> QED
    BY <2>1 DEF IsVar, ValueAt, EnvOf
<1>3. CASE IsVar(t, occ, "v")
  BY <1>1, <1>2, <1>3 DEF IsVar
<1>4. CASE t[occ].kind = "Call" /\ IsVar(t, Append(occ, 1), "v")
  <2>1. t[occ].op # "valid"
    BY <1>1, <1>4 DEF LengthFunctions
  <2>2. Append(occ, 1) \in DOMAIN t
    BY <1>1, <1>4 DEF IsTree, Operands
  <2>3. val[occ] = ValueAt(t, e, val, occ)
    BY <1>1, ValueDef
  <2>4. val[Append(occ, 1)] = v
    BY <1>2, <1>4, <2>2
  <2> HIDE DEF val, e, occ
  <2>5. val[occ] = v
    BY <1>4, <2>1, <2>3, <2>4 DEF ValueAt
  <2> QED
    BY <1>4, <2>5 DEF val, occ, e
<1> QED
  BY <1>3, <1>4 DEF IsTheValue

----------------------------------------------------------------------------
(* What the condition says of a run *)

Occ(c) == Occurrence(Tree(c))
Cmp(c) == Comparison(Tree(c), Occ(c))
ReadOp(c) == ReadAs(Tree(c), Cmp(c), Occ(c), TargetOf(c))
BoundOf(c) == IntOf(Tree(c), BoundSide(Tree(c), Cmp(c), Occ(c)))
OffsetOf(c) == Offset(Tree(c), ValueSide(Tree(c), Cmp(c), Occ(c)), Occ(c))

\* The target of a branch is reached when the condition has that branch's outcome.
LEMMA SettledMeans ==
  ASSUME NEW c \in Cases, Settled(c), NEW e
  PROVE  Precedes(c) /\ (Reaches(c, e) <=> (Holds(c, e) <=> Polarity(TargetOf(c))))
<1>1. Consequence \in Path /\ Alternative \in Path /\ Outside \in Path
      /\ Len(Consequence) = 1 /\ Len(Alternative) = 1 /\ Len(Outside) = 1
      /\ Consequence[1] = 2 /\ Alternative[1] = 3 /\ Outside[1] = 0
  BY DEF Consequence, Alternative, Outside, Path
<1>2. IsPrefix(Consequence, Consequence)
  BY <1>1, PrefixMeans
<1>3. ~IsPrefix(Consequence, Alternative)
  BY <1>1, PrefixMeans
<1>4. ~IsPrefix(Consequence, Outside)
  <2>1. 1 \in 1 .. Len(Consequence) /\ Consequence[1] # Outside[1]
    BY <1>1
  <2> QED
    BY <1>1, <2>1, PrefixMeans
<1>5. CASE c.place = "then"
  BY <1>2, <1>5 DEF TargetOf, Polarity, IsAncestor, Reaches, Precedes
<1>6. CASE c.place = "else"
  BY <1>3, <1>6 DEF TargetOf, Polarity, IsAncestor, Reaches, Precedes
<1>7. CASE c.place = "after" /\ c.stops
  BY <1>4, <1>7 DEF TargetOf, Polarity, IsAncestor, Reaches, Precedes
<1> QED
  BY <1>5, <1>6, <1>7 DEF Settled

\* A trustworthy comparison is between two nodes of the condition.
LEMMA TrustworthyFacts ==
  ASSUME NEW c \in Cases, Trustworthy(c, Tree(c))
  PROVE  /\ Settled(c) /\ IsTree(Tree(c)) /\ CastsHold(Tree(c))
         /\ Occ(c) # None /\ Occ(c) \in DOMAIN Tree(c) /\ IsTheValue(Tree(c), Occ(c))
         /\ Cmp(c) # None /\ Cmp(c) \in DOMAIN Tree(c) /\ IsComparison(Tree(c), Cmp(c))
         /\ IsPrefix(Condition, Cmp(c))
         /\ Decided(Tree(c), Cmp(c), Polarity(TargetOf(c)))
         /\ Plain(Tree(c), ValueSide(Tree(c), Cmp(c), Occ(c)), Occ(c))
         /\ IsInt(Tree(c), BoundSide(Tree(c), Cmp(c), Occ(c)))
         /\ ReadOp(c) \in Relations
<1>1. IsTree(Tree(c))
  BY GuardsAssumption
<1>2. /\ Settled(c) /\ CastsHold(Tree(c)) /\ Occ(c) # None /\ IsTheValue(Tree(c), Occ(c)) /\ Cmp(c) # None
      /\ Decided(Tree(c), Cmp(c), Polarity(TargetOf(c)))
      /\ Plain(Tree(c), ValueSide(Tree(c), Cmp(c), Occ(c)), Occ(c))
      /\ IsInt(Tree(c), BoundSide(Tree(c), Cmp(c), Occ(c)))
  BY DEF Trustworthy, Occ, Cmp
<1>3. Occ(c) \in DOMAIN Tree(c) /\ IsPrefix(Condition, Occ(c))
  BY <1>1, <1>2, OccurrenceFacts DEF Occ
<1>4. Cmp(c) \in DOMAIN Tree(c) /\ IsComparison(Tree(c), Cmp(c)) /\ IsPrefix(Condition, Cmp(c))
  BY <1>1, <1>2, <1>3, ComparisonFacts DEF Cmp
<1>5. ReadOp(c) \in Relations
  BY <1>4, ReadOps DEF ReadOp, IsComparison
<1> QED
  BY <1>1, <1>2, <1>3, <1>4, <1>5

\* In a run with v that has the outcome that leads to the target, v and its constant are
\* related to the bound as the analysis reads the comparison; without && and || that is what
\* the condition says.
LEMMA ComparisonSays ==
  ASSUME NothingOverflows, NEW c \in Cases, Trustworthy(c, Tree(c)), NEW v \in Values, NEW u \in {0, 2}
  PROVE  /\ BoundOf(c) \in Int /\ OffsetOf(c) \in Int /\ (Direct(Tree(c)) => OffsetOf(c) = 0)
         /\ (Holds(c, EnvOf(v, u)) <=> Polarity(TargetOf(c))) => Relate(v + OffsetOf(c), ReadOp(c), BoundOf(c))
         /\ ~Compound(Tree(c)) =>
              (Relate(v + OffsetOf(c), ReadOp(c), BoundOf(c)) <=> (Holds(c, EnvOf(v, u)) <=> Polarity(TargetOf(c))))
<1> DEFINE t == Tree(c)
           e == EnvOf(v, u)
           val == Value(t, e)
           side == ValueSide(t, Cmp(c), Occ(c))
           bound == BoundSide(t, Cmp(c), Occ(c))
           polarity == Polarity(TargetOf(c))
<1>1. /\ Settled(c) /\ IsTree(t) /\ CastsHold(t)
      /\ Occ(c) # None /\ Occ(c) \in DOMAIN t /\ IsTheValue(t, Occ(c))
      /\ Cmp(c) # None /\ Cmp(c) \in DOMAIN t /\ IsComparison(t, Cmp(c)) /\ IsPrefix(Condition, Cmp(c))
      /\ Decided(t, Cmp(c), polarity) /\ Plain(t, side, Occ(c)) /\ IsInt(t, bound)
  BY TrustworthyFacts
<1>2. v \in Int /\ Half \in Int
  BY GuardsAssumption, BitsAssumption DEF Half
<1>3. Folds(t, e)
  <2>1. Fits(t, e)
    BY <1>1 DEF NothingOverflows, CastsHold, Fits
  <2> QED
    BY <1>1, <2>1, FoldingFollows
<1>4. t[Occ(c)].kind # "BinaryOp" /\ val[Occ(c)] = v
  BY <1>1, <1>2, OccurrenceValue DEF Occ
<1>5. side \in DOMAIN t /\ side # Root /\ bound \in DOMAIN t
  BY <1>1, ComparisonValue DEF ValueSide, BoundSide
<1>6. BoundOf(c) \in Int /\ val[bound] = BoundOf(c)
  BY <1>1, <1>3, <1>5 DEF Folds, BoundOf
<1>7. OffsetOf(c) \in Int /\ val[side] = v + OffsetOf(c) /\ (StripParens(t, side) = Occ(c) => OffsetOf(c) = 0)
  <2> HIDE DEF t, e, side
  <2>1. val[Occ(c)] \in Int
    BY <1>2, <1>4
  <2>2. /\ Offset(t, side, Occ(c)) \in Int
        /\ val[side] = val[Occ(c)] + Offset(t, side, Occ(c))
        /\ StripParens(t, side) = Occ(c) => Offset(t, side, Occ(c)) = 0
    BY <1>1, <1>3, <1>4, <1>5, <2>1, SideValue
  <2> QED
    BY <1>4, <2>2 DEF OffsetOf, t, side
<1>8. Relate(v + OffsetOf(c), ReadOp(c), BoundOf(c)) <=> (val[Cmp(c)] # 0 <=> polarity)
  <2>1. val[side] \in Int /\ val[bound] \in Int
    BY <1>2, <1>6, <1>7
  <2>2. Relate(val[side], ReadAs(t, Cmp(c), Occ(c), TargetOf(c)), val[bound]) <=> (val[Cmp(c)] # 0 <=> polarity)
    BY <1>1, <2>1, ReadRight
  <2> QED
    BY <1>6, <1>7, <2>2 DEF ReadOp
<1>9. Direct(t) => StripParens(t, side) = Occ(c)
  BY <1>1 DEF Direct, Occ, Cmp
<1>10. Holds(c, e) <=> val[Condition] # 0
  BY DEF Holds
<1>11. polarity \in BOOLEAN
  BY DEF Polarity, IsAncestor, IsPrefix
<1>12. ASSUME Holds(c, e) <=> polarity PROVE val[Cmp(c)] # 0 <=> polarity
  <2> HIDE DEF t, e, polarity
  <2> QED
    BY <1>1, <1>10, <1>11, <1>12, DecidedTruth
<1>13. ASSUME ~Compound(t) PROVE Holds(c, e) <=> val[Cmp(c)] # 0
  <2>1. Condition \in DOMAIN t /\ Condition # Root
    BY <1>1 DEF IsTree, Condition, Root
  <2>2. ASSUME NEW r \in DOMAIN t, IsPrefix(Condition, r), IsStrictPrefix(r, Cmp(c)) PROVE t[r].kind = "Paren"
    <3>1. r # Root
      <4>1. Condition \in Path /\ Len(Condition) = 1 /\ Len(Root) = 0 /\ Root \in Path
        BY DEF Condition, Root, Path
      <4>2. r \in Path
        BY <1>1, <2>2 DEF IsTree, Path
      <4>3. Len(Condition) <= Len(r)
        BY <2>2, <4>1, <4>2, PrefixMeans
      <4> QED
        BY <4>1, <4>3
    <3> HIDE DEF t
    <3>2. t[r].kind = "Paren" \/ (t[r].kind = "BinaryOp" /\ t[r].op \in {"&&", "||"})
      BY <1>1, <2>2, <3>1 DEF Decided
    <3> QED
      BY <1>13, <2>2, <3>2 DEF Compound
  <2>3. OnlyParens(t, Condition, Cmp(c))
    BY <1>1, <2>1, <2>2 DEF OnlyParens
  <2>4. val[Condition] = val[Cmp(c)]
    BY <1>1, <2>3, ParensKeepValue
  <2> QED
    BY <1>10, <2>4
<1> HIDE DEF t, e, val, polarity
<1>14. (Holds(c, e) <=> polarity) => Relate(v + OffsetOf(c), ReadOp(c), BoundOf(c))
  BY <1>8, <1>12
<1>15. ~Compound(t) => (Relate(v + OffsetOf(c), ReadOp(c), BoundOf(c)) <=> (Holds(c, e) <=> polarity))
  BY <1>8, <1>13
<1> QED
  BY <1>6, <1>7, <1>9, <1>14, <1>15 DEF t, e, polarity

----------------------------------------------------------------------------
(* The verdicts *)

\* Where there is a comparison, the truthiness test does not apply.
LEMMA ZeroVerdict ==
  ASSUME NEW c \in Cases, Trustworthy(c, Tree(c))
  PROVE  ExcludesZero(Tree(c), TargetOf(c))
           <=> Sym(Tree(c))[BoundSide(Tree(c), Cmp(c), Occ(c))] = Int_(0) /\ ReadOp(c) = "!="
<1> DEFINE t == Tree(c)
<1>1. /\ IsTree(t) /\ Occ(c) # None /\ Cmp(c) # None /\ Cmp(c) \in DOMAIN t
      /\ t[Cmp(c)].kind = "BinaryOp" /\ IsPrefix(Condition, Cmp(c))
  BY TrustworthyFacts DEF IsComparison
<1>2. ASSUME Truthiness(t, TargetOf(c)) PROVE FALSE
  <2> HIDE DEF t
  <2>1. TestsOneTruth(t)
    BY <1>2 DEF Truthiness, TestsOneTruth, IsOccurrence
  <2> QED
    BY <1>1, <2>1, NoComparison
<1>3. ExcludesZero(t, TargetOf(c)) <=>
        IF Cmp(c) # None /\ Sym(t)[BoundSide(t, Cmp(c), Occ(c))] = Int_(0)
        THEN ReadOp(c) = "!=" ELSE Truthiness(t, TargetOf(c))
  BY <1>1 DEF ExcludesZero, Occ, Cmp, ReadOp
<1> QED
  BY <1>1, <1>2, <1>3

\* The truthiness test is negated.
Negated(c) == Tree(c)[StripParens(Tree(c), Condition)].kind = "UnaryOp"

\* The truthiness test of v says whether v is zero, and the verdict is that of its branch.
LEMMA TruthSays ==
  ASSUME NEW c \in Cases, TestsTruthOf(Tree(c))
  PROVE  /\ \A v \in Values, u \in {0, 2} : Holds(c, EnvOf(v, u)) <=> IF Negated(c) THEN v = 0 ELSE v # 0
         /\ ExcludesZero(Tree(c), TargetOf(c)) <=> (Negated(c) <=> ~Polarity(TargetOf(c)))
<1> DEFINE t == Tree(c)
           test == StripParens(t, Condition)
           y == Append(test, 1)
           inner == StripParens(t, y)
<1>1. IsTree(t) /\ "v" \in Carried /\ Values \subseteq Int
  BY GuardsAssumption
<1>2. Condition \in DOMAIN t /\ Condition # Root
  BY <1>1 DEF IsTree, Condition, Root
<1>3. \/ IsVar(t, test, "v")
      \/ t[test].kind = "UnaryOp" /\ t[test].op = "!" /\ IsVar(t, inner, "v")
  BY DEF TestsTruthOf
<1>4. test \in DOMAIN t /\ y # Root
  <2>1. test \in DOMAIN t
    BY <1>1, <1>2, StripValue
  <2>2. test \in Seq(Nat)
    BY <1>1, <2>1 DEF IsTree
  <2> HIDE DEF test
  <2>3. y # Root
    BY <2>2 DEF Root
  <2> QED
    BY <2>1, <2>3
<1>5. TestsOneTruth(t)
  BY <1>3 DEF TestsOneTruth, IsVar
<1>6. ExcludesZero(t, TargetOf(c)) <=> Truthiness(t, TargetOf(c))
  <2>1. CASE Occ(c) = None
    BY <2>1 DEF ExcludesZero, Occ
  <2>2. CASE Occ(c) # None
    <3>1. Occ(c) \in DOMAIN t /\ IsPrefix(Condition, Occ(c))
      BY <1>1, <2>2, OccurrenceFacts DEF Occ
    <3>2. Cmp(c) = None
      <4>1. SUFFICES ASSUME Cmp(c) # None PROVE FALSE
        OBVIOUS
      <4>2. Cmp(c) \in DOMAIN t /\ IsComparison(t, Cmp(c)) /\ IsPrefix(Condition, Cmp(c))
        BY <1>1, <3>1, <4>1, ComparisonFacts DEF Cmp
      <4> QED
        BY <1>1, <1>5, <4>2, NoComparison DEF IsComparison
    <3> QED
      BY <2>2, <3>2 DEF ExcludesZero, Occ, Cmp
  <2> QED
    BY <2>1, <2>2
<1>7. Truthiness(t, TargetOf(c)) <=>
        IF t[test].kind = "UnaryOp" /\ t[test].op = "!"
        THEN IsOccurrence(t, inner) /\ ~Polarity(TargetOf(c))
        ELSE IsOccurrence(t, test) /\ Polarity(TargetOf(c))
  BY DEF Truthiness
<1>8. \A p : IsVar(t, p, "v") => IsOccurrence(t, p) /\ t[p].kind # "UnaryOp"
  BY <1>1 DEF IsVar, IsOccurrence
<1>9. Negated(c) <=> t[test].kind = "UnaryOp"
  BY DEF Negated
<1>10. ASSUME NEW v \in Values, NEW u \in {0, 2}
       PROVE  Holds(c, EnvOf(v, u)) <=> IF Negated(c) THEN v = 0 ELSE v # 0
  <2> DEFINE e == EnvOf(v, u)
             val == Value(t, e)
  <2>1. val[Condition] = val[test]
    BY <1>1, <1>2, StripValue
  <2>2. Holds(c, e) <=> val[Condition] # 0
    BY DEF Holds
  <2>3. \A p \in DOMAIN t : val[p] = ValueAt(t, e, val, p)
    BY <1>1, ValueDef
  <2>4. \A p \in DOMAIN t : IsVar(t, p, "v") => val[p] = v
    <3> HIDE DEF t, val
    <3> QED
      BY <2>3 DEF IsVar, ValueAt, EnvOf
  <2>5. CASE IsVar(t, test, "v")
    BY <1>4, <1>8, <1>9, <2>1, <2>2, <2>4, <2>5
  <2>6. CASE t[test].kind = "UnaryOp" /\ t[test].op = "!" /\ IsVar(t, inner, "v")
    <3>1. y \in DOMAIN t
      BY <1>1, <1>4, <2>6 DEF IsTree, Operands
    <3>2. inner \in DOMAIN t /\ val[inner] = val[y]
      <4> HIDE DEF t, y, e
      <4> QED
        BY <1>1, <1>4, <3>1, StripValue
    <3>3. val[inner] = v
      BY <2>4, <2>6, <3>2
    <3>4. val[test] = ValueAt(t, e, val, test)
      BY <1>4, <2>3
    <3>5. val[test] = Truth(v = 0)
      <4> HIDE DEF t, test, inner, val, e
      <4> QED
        BY <2>6, <3>2, <3>3, <3>4 DEF ValueAt
    <3> QED
      BY <1>9, <2>1, <2>2, <2>6, <3>5 DEF Truth
  <2> QED
    BY <1>3, <2>5, <2>6
<1> HIDE DEF t, test, inner
<1>11. Truthiness(t, TargetOf(c)) <=> (Negated(c) <=> ~Polarity(TargetOf(c)))
  BY <1>3, <1>7, <1>8, <1>9
<1> QED
  BY <1>6, <1>10, <1>11 DEF t

\* The verdict of upper_bounds against a known capacity.
LEMMA UpperVerdict ==
  ASSUME NEW c \in Cases, Trustworthy(c, Tree(c)), NEW capacity, capacity # None
  PROVE  UpperBounds(Tree(c), TargetOf(c), capacity)
           <=> ReadOp(c) \in {"<", "<="} /\ Within(ReadOp(c), BoundOf(c), Threshold(capacity, OffsetOf(c)))
<1>1. Occ(c) # None /\ Cmp(c) # None /\ IsInt(Tree(c), BoundSide(Tree(c), Cmp(c), Occ(c)))
  BY TrustworthyFacts
<1> QED
  BY <1>1 DEF UpperBounds, Occ, Cmp, ReadOp, BoundOf, OffsetOf

----------------------------------------------------------------------------
(* The runs *)

VerdictsOf(c) ==
  [zero |-> Precedes(c) /\ ExcludesZero(Tree(c), TargetOf(c)),
   upper |-> Precedes(c) /\ UpperBounds(Tree(c), TargetOf(c), Capacity(c)),
   guarded |-> IsGuarded(c, Tree(c), TargetOf(c), Capacity(c))]

\* This run has values of the variables, and is where the condition has led it.
Ran(c, e, at) ==
  /\ \E v \in Values, u \in {0, 2} : e = EnvOf(v, u)
  /\ at = "then" => c.place # "before" /\ Holds(c, e)
  /\ at = "else" => c.place # "before" /\ ~Holds(c, e)
  /\ at = "target" => Reaches(c, e)

\* The inductive invariant: the verdicts are those of the case, the run is one of its runs.
RunInv ==
  /\ case \in Cases
  /\ pc \in {"ask", "start", "then", "else", "target", "left"}
  /\ pc # "ask" => verdicts = VerdictsOf(case)
  /\ pc \notin {"ask", "start"} => Ran(case, env, pc)

\* The invariant holds of every behaviour.
LEMMA RunInvHolds == Spec => []RunInv
<1>1. Init => RunInv
  BY DEF Init, RunInv
<1>2. RunInv /\ [Next]_vars => RunInv'
  <2> SUFFICES ASSUME RunInv, [Next]_vars PROVE RunInv'
    OBVIOUS
  <2>1. CASE Ask
    <3>1. verdicts' = VerdictsOf(case) /\ pc' = "start" /\ case' = case
      BY <2>1 DEF Ask, VerdictsOf
    <3> QED
      BY <3>1 DEF RunInv
  <2>2. CASE Run
    <3>1. PICK v \in Values, u \in {0, 2} :
            /\ env' = EnvOf(v, u)
            /\ pc' = IF case.place = "before" THEN "target" ELSE IF Holds(case, env') THEN "then" ELSE "else"
      BY <2>2 DEF Run
    <3>2. pc = "start" /\ case' = case /\ verdicts' = verdicts
      BY <2>2 DEF Run
    <3>3. Ran(case, env', pc')
      BY <3>1 DEF Ran, Reaches
    <3>4. pc' \in {"then", "else", "target"}
      BY <3>1
    <3> QED
      BY <3>2, <3>3, <3>4 DEF RunInv
  <2>3. CASE Branch
    <3>1. /\ pc \in {"then", "else"} /\ case' = case /\ verdicts' = verdicts /\ env' = env
          /\ pc' = CASE pc = case.place -> "target"
                     [] pc = "then" /\ case.place = "after" -> IF case.stops THEN "left" ELSE "target"
                     [] pc = "else" /\ case.place = "after" -> "target"
                     [] OTHER -> "left"
      BY <2>3 DEF Branch
    <3>2. Ran(case, env, pc) /\ case.place \in Places
      BY <3>1, GuardsAssumption DEF RunInv
    <3>3. pc' \in {"target", "left"}
      BY <3>1
    <3>4. pc' = "target" => Reaches(case, env)
      <4>1. CASE pc = "then"
        <5>1. Holds(case, env)
          BY <3>2, <4>1 DEF Ran
        <5>2. pc' = "target" => case.place = "then" \/ (case.place = "after" /\ ~case.stops)
          BY <3>1, <4>1
        <5> QED
          BY <5>1, <5>2 DEF Reaches
      <4>2. CASE pc = "else"
        <5>1. ~Holds(case, env)
          BY <3>2, <4>2 DEF Ran
        <5>2. pc' = "target" => case.place = "else" \/ case.place = "after"
          BY <3>1, <4>2
        <5> QED
          BY <5>1, <5>2 DEF Reaches
      <4> QED
        BY <3>1, <4>1, <4>2
    <3>5. Ran(case, env, pc')
      BY <3>2, <3>3, <3>4 DEF Ran
    <3> QED
      BY <3>1, <3>3, <3>5 DEF RunInv
  <2>4. CASE UNCHANGED vars
    BY <2>4 DEF RunInv, vars
  <2> QED
    BY <2>1, <2>2, <2>3, <2>4 DEF Next
<1> QED
  BY <1>1, <1>2, PTL DEF Spec

\* A run at the target that the condition settles has the outcome that leads there.
LEMMA AtTarget ==
  ASSUME RunInv, pc = "target"
  PROVE  /\ case \in Cases /\ verdicts = VerdictsOf(case)
         /\ \E v \in Values, u \in {0, 2} :
              /\ env = EnvOf(v, u) /\ env["v"] = v
              /\ Settled(case) => (Holds(case, EnvOf(v, u)) <=> Polarity(TargetOf(case)))
<1>1. case \in Cases /\ verdicts = VerdictsOf(case) /\ Ran(case, env, "target")
  BY DEF RunInv
<1>2. PICK v \in Values, u \in {0, 2} : env = EnvOf(v, u)
  BY <1>1 DEF Ran
<1>3. env["v"] = v
  BY <1>2 DEF EnvOf
<1>4. Reaches(case, env)
  BY <1>1 DEF Ran
<1>5. Settled(case) => (Holds(case, env) <=> Polarity(TargetOf(case)))
  BY <1>1, <1>4, SettledMeans
<1> QED
  BY <1>1, <1>2, <1>3, <1>5

----------------------------------------------------------------------------
(* Theorems *)

\* What excludes_zero clears is not zero when the target is reached, for every program whose
\* constants fold to what it computes (guard.rs: excludes_zero, find_enclosing_comparison,
\* flip_operator, negate_operator, branch_polarity).
THEOREM ZeroStaysExcluded ==
  ASSUME NothingOverflows
  PROVE  Spec => []ZeroIsExcluded
<1>1. RunInv => ZeroIsExcluded
  <2> SUFFICES ASSUME RunInv, pc = "target", verdicts.zero,
                      \/ Trustworthy(case, Tree(case)) /\ Direct(Tree(case))
                      \/ Settled(case) /\ TestsTruthOf(Tree(case))
               PROVE  env["v"] # 0
    BY DEF ZeroIsExcluded
  <2>1. case \in Cases /\ verdicts = VerdictsOf(case)
    BY AtTarget
  <2>2. PICK v \in Values, u \in {0, 2} :
          env["v"] = v /\ (Settled(case) => (Holds(case, EnvOf(v, u)) <=> Polarity(TargetOf(case))))
    BY AtTarget
  <2>3. ExcludesZero(Tree(case), TargetOf(case))
    BY <2>1 DEF VerdictsOf
  <2>4. v \in Int
    BY GuardsAssumption
  <2>5. CASE Trustworthy(case, Tree(case)) /\ Direct(Tree(case))
    <3>1. Sym(Tree(case))[BoundSide(Tree(case), Cmp(case), Occ(case))] = Int_(0) /\ ReadOp(case) = "!="
      BY <2>1, <2>3, <2>5, ZeroVerdict
    <3>2. BoundOf(case) = 0
      BY <3>1 DEF BoundOf, IntOf, Int_
    <3>3. OffsetOf(case) = 0 /\ Relate(v + OffsetOf(case), ReadOp(case), BoundOf(case))
      BY <2>1, <2>2, <2>5, ComparisonSays, TrustworthyFacts
    <3>4. v + 0 # 0
      BY <3>1, <3>2, <3>3 DEF Relate
    <3> QED
      BY <2>2, <2>4, <3>4
  <2>6. CASE Settled(case) /\ TestsTruthOf(Tree(case))
    <3>1. Holds(case, EnvOf(v, u)) <=> IF Negated(case) THEN v = 0 ELSE v # 0
      BY <2>1, <2>6, TruthSays
    <3>2. Negated(case) <=> ~Polarity(TargetOf(case))
      BY <2>1, <2>3, <2>6, TruthSays
    <3> QED
      BY <2>2, <2>6, <3>1, <3>2
  <2> QED
    BY <2>5, <2>6
<1> QED
  BY <1>1, RunInvHolds, PTL

\* What bounds_value clears against a known capacity, and what the taint engine takes to be
\* guarded by its length, is below the extent of the buffer when the target is reached, for
\* every program whose constants fold to what it computes and whose buffer has the capacity
\* that its extent is (guard.rs: upper_bounds, extract_offset; taint.rs: is_guarded).
THEOREM ValueStaysBounded ==
  ASSUME NothingOverflows
  PROVE  Spec /\ []CapacityIsExtent => []ValueIsBounded
<1> DEFINE Sized1 == case.buffer.declarators <= 1 =>
             Capacity(case) \in {None, case.buffer.extent} \cup (IF case.buffer.extent >= Half THEN {Half - 1} ELSE {})
<1>1. Init /\ CapacityIsExtent => Sized1
  BY DEF Init, CapacityIsExtent
<1>2. Sized1 /\ [Next]_vars => Sized1'
  <2> SUFFICES ASSUME Sized1, [Next]_vars PROVE Sized1'
    OBVIOUS
  <2>1. case' = case
    BY DEF Next, Ask, Run, Branch, vars
  <2> QED
    BY <2>1
<1>3. RunInv /\ Sized1 => ValueIsBounded
  <2> DEFINE capacity == Capacity(case)
  <2> SUFFICES ASSUME RunInv, Sized1, pc = "target",
                      verdicts.upper \/ (verdicts.guarded /\ "valid" \notin Called(Tree(case))),
                      capacity # None, Trustworthy(case, Tree(case)), case.buffer.declarators <= 1
               PROVE  env["v"] < case.buffer.extent
    BY DEF ValueIsBounded
  <2>1. case \in Cases /\ verdicts = VerdictsOf(case)
    BY AtTarget
  <2>2. PICK v \in Values, u \in {0, 2} :
          env["v"] = v /\ (Settled(case) => (Holds(case, EnvOf(v, u)) <=> Polarity(TargetOf(case))))
    BY AtTarget
  <2>3. v \in Int /\ capacity \in Int /\ case.buffer.extent \in Int /\ Half \in Int
    BY <2>1, GuardsAssumption, BitsAssumption DEF Half
  <2>4. UpperBounds(Tree(case), TargetOf(case), capacity)
    <3>1. CASE verdicts.upper
      BY <2>1, <3>1 DEF VerdictsOf
    <3>2. CASE verdicts.guarded /\ "valid" \notin Called(Tree(case))
      <4>1. GuardCalled(Tree(case), TargetOf(case), capacity)
        BY <2>1, <3>2 DEF VerdictsOf, IsGuarded
      <4> QED
        BY <3>2, <4>1 DEF GuardCalled, Called, LengthFunctions
    <3> QED
      BY <3>1, <3>2
  <2>5. ReadOp(case) \in {"<", "<="} /\ Within(ReadOp(case), BoundOf(case), Threshold(capacity, OffsetOf(case)))
    BY <2>1, <2>4, UpperVerdict
  <2>6. /\ BoundOf(case) \in Int /\ OffsetOf(case) \in Int
        /\ Relate(v + OffsetOf(case), ReadOp(case), BoundOf(case))
    BY <2>1, <2>2, ComparisonSays, TrustworthyFacts
  <2>7. capacity <= case.buffer.extent
    BY <2>3
  <2> HIDE DEF capacity, Sized1
  <2>8. Threshold(capacity, OffsetOf(case)) \in Int
        /\ Threshold(capacity, OffsetOf(case)) <= capacity + OffsetOf(case)
    BY <2>3, <2>6 DEF Threshold
  <2>9. v < capacity
    <3> DEFINE n == BoundOf(case)
               o == OffsetOf(case)
               top == Threshold(capacity, o)
    <3>1. n \in Int /\ o \in Int /\ top \in Int /\ top <= capacity + o
      BY <2>6, <2>8
    <3>2. CASE ReadOp(case) = "<"
      <4>1. v + o < n /\ n <= top
        BY <2>5, <2>6, <3>2 DEF Relate, Within
      <4> HIDE DEF n, o, top
      <4> QED
        BY <2>3, <3>1, <4>1
    <3>3. CASE ReadOp(case) = "<="
      <4>1. v + o <= n /\ n < top
        BY <2>5, <2>6, <3>3 DEF Relate, Within
      <4> HIDE DEF n, o, top
      <4> QED
        BY <2>3, <3>1, <4>1
    <3> QED
      BY <2>5, <3>2, <3>3
  <2> QED
    BY <2>2, <2>3, <2>7, <2>9
<1> HIDE DEF Sized1
<1> QED
  BY <1>1, <1>2, <1>3, RunInvHolds, PTL DEF Spec

\* The verdicts on a single test are complete as well as sound, when the variables take every
\* integer: zero is excluded, and the value bounded, whenever no run says otherwise.
THEOREM SingleTestsStayExact ==
  ASSUME NothingOverflows, Values = Int
  PROVE  Spec => []SingleTestsAreExact
<1>1. RunInv => SingleTestsAreExact
  <2> DEFINE c == case
             t == Tree(case)
             n == BoundOf(case)
             o == OffsetOf(case)
  <2> SUFFICES ASSUME RunInv, pc = "start", Settled(c), ~Compound(t)
               PROVE  /\ TestsTruthOf(t) => (verdicts.zero <=> 0 \notin Reaching(c))
                      /\ Trustworthy(c, t) =>
                           /\ Direct(t) /\ OperatorOf(t) \in {"==", "!="} /\ Sym(t)[BoundSide(t, Cmp(c), Occ(c))] = Int_(0)
                                => (verdicts.zero <=> 0 \notin Reaching(c))
                           /\ OperatorOf(t) \notin {"==", "!="} /\ Capacity(c) # None /\ Capacity(c) + o < Half
                                => (verdicts.upper <=> \A v \in Reaching(c) : v < Capacity(c))
    BY DEF SingleTestsAreExact, Occ, Cmp, OffsetOf
  <2>1. c \in Cases /\ verdicts = VerdictsOf(c)
    BY DEF RunInv
  <2>2. Precedes(c) /\ \A e : Reaches(c, e) <=> (Holds(c, e) <=> Polarity(TargetOf(c)))
    BY <2>1, SettledMeans
  <2>3. verdicts.zero <=> ExcludesZero(t, TargetOf(c))
    BY <2>1, <2>2 DEF VerdictsOf
  <2>4. verdicts.upper <=> UpperBounds(t, TargetOf(c), Capacity(c))
    BY <2>1, <2>2 DEF VerdictsOf
  <2>5. \A v \in Int : v \in Reaching(c) <=> \E u \in {0, 2} : Holds(c, EnvOf(v, u)) <=> Polarity(TargetOf(c))
    BY <2>2 DEF Reaching
  <2>6. ASSUME TestsTruthOf(t) PROVE verdicts.zero <=> 0 \notin Reaching(c)
    <3>1. \A u \in {0, 2} : Holds(c, EnvOf(0, u)) <=> Negated(c)
      BY <2>1, <2>6, TruthSays
    <3>2. ExcludesZero(t, TargetOf(c)) <=> (Negated(c) <=> ~Polarity(TargetOf(c)))
      BY <2>1, <2>6, TruthSays
    <3>3. 0 \in Reaching(c) <=> (Negated(c) <=> Polarity(TargetOf(c)))
      BY <2>5, <3>1
    <3> QED
      BY <2>3, <3>2, <3>3
  <2>7. ASSUME Trustworthy(c, t) PROVE n \in Int /\ o \in Int /\ (Direct(t) => o = 0)
                                       /\ \A v \in Int : v \in Reaching(c) <=> Relate(v + o, ReadOp(c), n)
    <3>1. n \in Int /\ o \in Int /\ (Direct(t) => o = 0)
      BY <2>1, <2>7, 0 \in Values, 0 \in {0, 2}, ComparisonSays
    <3>2. ASSUME NEW v \in Int, NEW u \in {0, 2}
          PROVE  Relate(v + o, ReadOp(c), n) <=> (Holds(c, EnvOf(v, u)) <=> Polarity(TargetOf(c)))
      BY <2>1, <2>7, ComparisonSays
    <3> QED
      BY <2>5, <3>1, <3>2
  <2>8. ASSUME Trustworthy(c, t) PROVE ReadOp(c) \in Relations /\ (ReadOp(c) \in {"==", "!="} <=> OperatorOf(t) \in {"==", "!="})
    <3>1. IsComparison(t, Cmp(c))
      BY <2>1, <2>8, TrustworthyFacts
    <3> QED
      BY <3>1, ReadOps DEF IsComparison, ReadOp, OperatorOf, Cmp, Occ
  <2>9. ASSUME Trustworthy(c, t), Direct(t), OperatorOf(t) \in {"==", "!="},
               Sym(t)[BoundSide(t, Cmp(c), Occ(c))] = Int_(0)
        PROVE  verdicts.zero <=> 0 \notin Reaching(c)
    <3>1. n = 0
      BY <2>9 DEF BoundOf, IntOf, Int_
    <3>2. verdicts.zero <=> ReadOp(c) = "!="
      BY <2>1, <2>3, <2>9, ZeroVerdict
    <3>3. 0 \in Reaching(c) <=> Relate(0, ReadOp(c), 0)
      BY <2>7, <2>9, <3>1
    <3>4. ReadOp(c) \in {"==", "!="}
      BY <2>8, <2>9
    <3> QED
      BY <3>2, <3>3, <3>4 DEF Relate
  <2>10. ASSUME Trustworthy(c, t), OperatorOf(t) \notin {"==", "!="}, Capacity(c) # None, Capacity(c) + o < Half
         PROVE  verdicts.upper <=> \A v \in Reaching(c) : v < Capacity(c)
    <3> DEFINE cap == Capacity(c)
    <3>1. n \in Int /\ o \in Int /\ \A v \in Int : v \in Reaching(c) <=> Relate(v + o, ReadOp(c), n)
      BY <2>7, <2>10
    <3>2. ReadOp(c) \in {"<", "<=", ">", ">="}
      BY <2>8, <2>10 DEF Relations
    <3>3. cap \in Int /\ Half \in Int
      BY <2>1, <2>10, GuardsAssumption, BitsAssumption DEF Half
    <3>4. Threshold(cap, o) = cap + o
      BY <2>10, <3>1, <3>3 DEF Threshold
    <3>5. verdicts.upper <=> ReadOp(c) \in {"<", "<="} /\ Within(ReadOp(c), n, cap + o)
      BY <2>1, <2>4, <2>10, <3>4, UpperVerdict
    <3>6. Reaching(c) \subseteq Int
      BY DEF Reaching
    <3> HIDE DEF c, t, n, o, cap
    <3>7. CASE ReadOp(c) = "<"
      <4>1. \A v \in Int : v \in Reaching(c) <=> v + o < n
        BY <3>1, <3>7 DEF Relate
      <4>2. verdicts.upper <=> n <= cap + o
        BY <3>5, <3>7 DEF Within
      <4>3. n - o - 1 \in Int /\ (n - o - 1) + o < n
        BY <3>1
      <4> QED
        BY <3>1, <3>3, <3>6, <4>1, <4>2, <4>3 DEF cap
    <3>8. CASE ReadOp(c) = "<="
      <4>1. \A v \in Int : v \in Reaching(c) <=> v + o <= n
        BY <3>1, <3>8 DEF Relate
      <4>2. verdicts.upper <=> n < cap + o
        BY <3>5, <3>8 DEF Within
      <4>3. n - o \in Int /\ (n - o) + o <= n
        BY <3>1
      <4> QED
        BY <3>1, <3>3, <3>6, <4>1, <4>2, <4>3 DEF cap
    <3>9. CASE ReadOp(c) \in {">", ">="}
      <4>1. \A v \in Int : v + o > n => v \in Reaching(c)
        <5>1. CASE ReadOp(c) = ">"
          BY <3>1, <5>1 DEF Relate
        <5>2. CASE ReadOp(c) = ">="
          <6>1. \A v \in Int : v + o >= n => v \in Reaching(c)
            BY <3>1, <5>2 DEF Relate
          <6> QED
            BY <3>1, <6>1
        <5> QED
          BY <3>9, <5>1, <5>2
      <4>2. ~verdicts.upper
        BY <3>5, <3>9
      <4>3. \E v \in Int : v + o > n /\ ~(v < cap)
        <5>1. CASE cap > n - o
          <6>1. cap + o > n /\ ~(cap < cap)
            BY <3>1, <3>3, <5>1
          <6> QED
            BY <3>3, <6>1
        <5>2. CASE cap <= n - o
          <6>1. n - o + 1 \in Int /\ (n - o + 1) + o > n /\ ~(n - o + 1 < cap)
            BY <3>1, <3>3, <5>2
          <6> QED
            BY <6>1
        <5> QED
          BY <3>1, <3>3, <5>1, <5>2
      <4> QED
        BY <4>1, <4>2, <4>3 DEF cap
    <3> QED
      BY <3>2, <3>7, <3>8, <3>9
  <2> QED
    BY <2>6, <2>9, <2>10
<1> QED
  BY <1>1, RunInvHolds, PTL
=============================================================================
