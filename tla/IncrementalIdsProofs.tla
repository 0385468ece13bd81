------------------------- MODULE IncrementalIdsProofs -------------------------
(***************************************************************************)
(* For all files, edits, histories and reloads of IncrementalCpg: the ids  *)
(* of the nodes of a tree are distinct, were not deleted and are below the *)
(* next one (IdsStayDistinct), an id never comes to mean another function  *)
(* (IdsStayStable), and the tree has the items of the source in their      *)
(* order (TreeFollowsSource).                                              *)
(*                                                                         *)
(* The inductive invariant IdsInv has a GoodTree in memory and on disk.    *)
(* Reuse is shown to give an entry ids of the old entry it was matched     *)
(* with or new ones, and to keep an id only where the text is the same     *)
(* (ReuseFacts).  The trees of a parse, a rebuild and an edit are built    *)
(* entry by entry, no old entry being matched twice; Partial says what     *)
(* holds of the first k of them, and Recursion turns the recursive         *)
(* functions of StableIds into that induction.  A targeted update then     *)
(* deletes none of the ids that are left in the tree (TargetedTree).       *)
(***************************************************************************)
EXTENDS IncrementalCpg, TLAPS, FiniteSetTheorems, SequenceTheorems, WellFoundedInduction

----------------------------------------------------------------------------
(* Induction over the items of a file *)

\* A set of numbers has a least one.
LEMMA LeastExists ==
  ASSUME NEW S \in SUBSET Nat, S # {}
  PROVE  \E m \in S : \A k \in S : m <= k
<1>1. PICK m \in S : \A k \in S : <<k, m>> \notin OpToRel(<, Nat)
  BY NatLessThanWellFounded, WFMin
<1>2. ASSUME NEW k \in S, k < m PROVE FALSE
  <2>1. k \in Nat /\ m \in Nat
    OBVIOUS
  <2>2. <<k, m>> \in OpToRel(<, Nat)
    BY <1>2, <2>1 DEF OpToRel
  <2> QED
    BY <1>1, <2>2
<1> QED
  BY <1>2

\* Induction up to n.
LEMMA UpTo ==
  ASSUME NEW n \in Nat, NEW S, 0 \in S, \A k \in 0 .. n - 1 : k \in S => k + 1 \in S
  PROVE  \A k \in 0 .. n : k \in S
<1> SUFFICES ASSUME NEW k \in 0 .. n, k \notin S PROVE FALSE
  OBVIOUS
<1>1. PICK m \in 0 .. n \ S : \A i \in 0 .. n \ S : m <= i
  <2>1. 0 .. n \ S \in SUBSET Nat /\ 0 .. n \ S # {}
    OBVIOUS
  <2> QED
    BY <2>1, LeastExists
<1>2. m # 0 /\ m - 1 \in 0 .. n - 1 /\ m - 1 \in S
  BY <1>1
<1> QED
  BY <1>1, <1>2

\* A step leads from the k-1st of the sets `good` to the k-th.
StepsStay(n, good, base, step) ==
  base \in good[0] /\ \A k \in 1 .. n : \A x \in good[k - 1] : step[k][x] \in good[k]
StepsTaken(s, n, good, base, step) ==
  /\ s[0] = base
  /\ \A k \in 1 .. n : s[k] = step[k][s[k - 1]]
  /\ \A k \in 0 .. n : s[k] \in good[k]

\* A recursive function over 0 .. n exists and stays in the sets its steps lead to.
LEMMA Recursion ==
  ASSUME NEW n \in Nat, NEW good, NEW base, NEW step, StepsStay(n, good, base, step)
  PROVE  \E s : StepsTaken(s, n, good, base, step)
<1> DEFINE Is(s, m) == /\ s = [k \in 0 .. m |-> IF k = 0 THEN base ELSE step[k][s[k - 1]]]
                       /\ \A k \in 0 .. m : s[k] \in good[k]
           S == {m \in 0 .. n : \E s : Is(s, m)}
<1>0. base \in good[0] /\ \A k \in 1 .. n : \A x \in good[k - 1] : step[k][x] \in good[k]
  BY DEF StepsStay
<1>1. 0 \in S
  <2> DEFINE s == [k \in 0 .. 0 |-> base]
  <2>1. s = [k \in 0 .. 0 |-> IF k = 0 THEN base ELSE step[k][s[k - 1]]]
    OBVIOUS
  <2>2. \A k \in 0 .. 0 : s[k] \in good[k]
    BY <1>0
  <2> HIDE DEF s
  <2>3. Is(s, 0)
    BY <2>1, <2>2
  <2> QED
    BY <2>3
<1>2. ASSUME NEW m \in 0 .. n - 1, m \in S PROVE m + 1 \in S
  <2>1. PICK s : Is(s, m)
    BY <1>2
  <2> DEFINE t == [k \in 0 .. m + 1 |-> IF k = m + 1 THEN step[k][s[m]] ELSE s[k]]
  <2>2. \A k \in 0 .. m : t[k] = s[k]
    OBVIOUS
  <2>3. t[m + 1] = step[m + 1][s[m]] /\ step[m + 1][s[m]] \in good[m + 1]
    <3>1. s[m] \in good[m] /\ m + 1 \in 1 .. n /\ (m + 1) - 1 = m
      BY <2>1
    <3>2. step[m + 1][s[m]] \in good[m + 1]
      BY <3>1, <1>0
    <3> QED
      BY <3>2
  <2>4. ASSUME NEW k \in 0 .. m + 1 PROVE t[k] \in good[k]
    <3>1. CASE k = m + 1
      BY <3>1, <2>3
    <3>2. CASE k \in 0 .. m
      BY <3>2, <2>1, <2>2
    <3> QED
      BY <3>1, <3>2
  <2>5. \A k \in 0 .. m + 1 : t[k] = IF k = 0 THEN base ELSE step[k][t[k - 1]]
    <3> SUFFICES ASSUME NEW k \in 0 .. m + 1 PROVE t[k] = IF k = 0 THEN base ELSE step[k][t[k - 1]]
      OBVIOUS
    <3>1. CASE k = m + 1
      BY <2>2, <2>3, <3>1
    <3>2. CASE k \in 0 .. m
      <4>1. s[k] = IF k = 0 THEN base ELSE step[k][s[k - 1]]
        BY <2>1, <3>2
      <4>2. k # 0 => t[k - 1] = s[k - 1]
        BY <2>2, <3>2
      <4> QED
        BY <2>2, <3>2, <4>1, <4>2
    <3> QED
      BY <3>1, <3>2
  <2>6. t = [k \in 0 .. m + 1 |-> t[k]]
    OBVIOUS
  <2> HIDE DEF t
  <2>7. t = [k \in 0 .. m + 1 |-> IF k = 0 THEN base ELSE step[k][t[k - 1]]]
    BY <2>5, <2>6
  <2>8. Is(t, m + 1)
    BY <2>4, <2>7
  <2> QED
    BY <2>8
<1> HIDE DEF S
<1>3. n \in S
  BY <1>1, <1>2, UpTo
<1>4. PICK s : Is(s, n)
  BY <1>3 DEF S
<1>5. s[0] = base /\ \A k \in 1 .. n : s[k] = step[k][s[k - 1]]
  BY <1>4
<1> QED
  BY <1>4, <1>5 DEF StepsTaken

----------------------------------------------------------------------------
(* Fresh ids *)

\* When the deleted ids are below the next one, none of them is skipped.
LEMMA FreshIdsFollow ==
  ASSUME NEW k \in Nat, NEW n \in Nat, NEW gone \in SUBSET Nat, IsFiniteSet(gone),
         \A g \in gone : g < n
  PROVE  FreshIds(k, n, gone) = [j \in 1 .. k |-> n + j - 1]
<1> DEFINE free(x) == CHOOSE y \in x .. x + Cardinality(gone) :
                        y \notin gone /\ \A z \in x .. y - 1 : z \in gone
           f == CHOOSE f : f = [j \in 0 .. k |-> IF j = 0 THEN n - 1 ELSE free(f[j - 1] + 1)]
           h == [j \in 0 .. k |-> n + j - 1]
<1>1. ASSUME NEW x \in Nat, x >= n PROVE free(x) = x
  <2>1. Cardinality(gone) \in Nat
    BY FS_CardinalityType
  <2>2. x \in x .. x + Cardinality(gone) /\ x \notin gone /\ x .. x - 1 = {}
    BY <1>1, <2>1
  <2>3. ASSUME NEW y \in x .. x + Cardinality(gone), y # x, \A z \in x .. y - 1 : z \in gone
        PROVE  FALSE
    BY <2>1, <2>2, <2>3
  <2> QED
    BY <2>2, <2>3
<1> HIDE DEF free
<1>2. h = [j \in 0 .. k |-> IF j = 0 THEN n - 1 ELSE free(h[j - 1] + 1)]
  <2>1. \A j \in 0 .. k : h[j] = IF j = 0 THEN n - 1 ELSE free(h[j - 1] + 1)
    BY <1>1
  <2> QED
    BY <2>1
<1> HIDE DEF h
<1>3. f = [j \in 0 .. k |-> IF j = 0 THEN n - 1 ELSE free(f[j - 1] + 1)]
  BY <1>2
<1> HIDE DEF f
<1> DEFINE S == {j \in 0 .. k : f[j] = n + j - 1}
<1>4. 0 \in S
  BY <1>3
<1>5. ASSUME NEW j \in 0 .. k - 1, j \in S PROVE j + 1 \in S
  <2>1. f[j + 1] = free(f[j] + 1) /\ f[j] = n + j - 1
    BY <1>3, <1>5
  <2> QED
    BY <1>1, <2>1
<1> HIDE DEF S
<1>6. \A j \in 0 .. k : f[j] = n + j - 1
  BY <1>4, <1>5, UpTo DEF S
<1>7. FreshIds(k, n, gone) = [j \in 1 .. k |-> f[j]]
  BY DEF FreshIds, f, free
<1> QED
  BY <1>6, <1>7

----------------------------------------------------------------------------
(* What a tree of the file is like *)

OwnNames(item) == IsInjective([j \in DOMAIN item.methods |-> item.methods[j].name])

\* An entry has an id for each of its methods, and no id twice.
WellMade(e) ==
  /\ e \in Entry
  /\ OwnNames(e.item)
  /\ Len(e.ids) = Len(e.item.methods)
  /\ IsInjective(e.ids)
  /\ e.id \notin Range(e.ids)

\* A function or method of one entry that the other has too has the same text there.
SameMeaning(e, f) ==
  \A m \in ToSet(MethodsOf(e)), n \in ToSet(MethodsOf(f)) : m.id = n.id => m.item = n.item

Disjoint(ast) == \A i, j \in DOMAIN ast : i # j => IdsOf(ast[i]) \cap IdsOf(ast[j]) = {}

\* The ids of a tree are those of its entries only, were not deleted and are handed out.
GoodTree(ast, next, gone) ==
  /\ ast \in Seq(Entry)
  /\ \A i \in DOMAIN ast : WellMade(ast[i])
  /\ Disjoint(ast)
  /\ next \in Nat /\ gone \in SUBSET Nat
  /\ \A g \in gone : g < next
  /\ \A x \in Ids(ast) : x < next /\ x \notin gone

Items(ast) == [i \in DOMAIN ast |-> ast[i].item]

\* The inductive invariant, for the generator and for the file that it was saved in.
GoodCpg(c, text, next, gone) ==
  /\ "ast" \in DOMAIN c
  /\ GoodTree(c.ast, next, gone)
  /\ text \in Seq(Item)
  /\ Len(c.ast) = Len(text)
  /\ ~ OpenEnded => Items(c.ast) = text

IdsInv ==
  /\ edits \in Nat
  /\ cpg # None => GoodCpg(cpg, source, nextId, deleted)
  /\ disk # None => GoodCpg(disk.cpg, disk.source, disk.nextId, disk.deleted)

----------------------------------------------------------------------------
(* One item against one old entry *)

\* The numbers of a set that are below n are finitely many.
LEMMA FiniteBelow ==
  ASSUME NEW n \in Nat, NEW S \in SUBSET Nat, \A x \in S : x < n
  PROVE  IsFiniteSet(S)
BY FS_BoundedSetOfNaturals

\* Counting the members of a set of places up to a place numbers the members.
LEMMA Places ==
  ASSUME NEW n \in Nat, NEW S \in SUBSET (1 .. n)
  PROVE  LET Place(j) == Cardinality({i \in S : i <= j}) IN
         /\ IsFiniteSet(S) /\ Cardinality(S) \in Nat
         /\ \A j \in S : Place(j) \in 1 .. Cardinality(S)
         /\ \A i, j \in S : i # j => Place(i) # Place(j)
<1> DEFINE Up(j) == {i \in S : i <= j}
<1>1. IsFiniteSet(1 .. n)
  BY FS_Interval
<1>2. IsFiniteSet(S) /\ Cardinality(S) \in Nat
  BY <1>1, FS_Subset, FS_CardinalityType
<1>3. ASSUME NEW j \in S
      PROVE  IsFiniteSet(Up(j)) /\ Cardinality(Up(j)) \in Nat /\ Cardinality(Up(j)) <= Cardinality(S)
  BY <1>2, FS_Subset, FS_CardinalityType
<1>4. ASSUME NEW j \in S PROVE Cardinality(Up(j)) # 0
  <2>1. j \in Up(j)
    OBVIOUS
  <2> QED
    BY <1>3, <2>1, FS_EmptySet
<1>5. ASSUME NEW i \in S, NEW j \in S, i < j PROVE Cardinality(Up(i)) # Cardinality(Up(j))
  <2>0. S \in SUBSET Int /\ i \in Int /\ j \in Int
    OBVIOUS
  <2>1. Up(i) \in SUBSET Up(j) /\ j \in Up(j) /\ j \notin Up(i)
    <3>1. \A x \in Up(i) : x \in Up(j)
      BY <1>5, <2>0
    <3>2. j \in Up(j) /\ j \notin Up(i)
      BY <1>5, <2>0
    <3> QED
      BY <3>1, <3>2
  <2>2. Cardinality(Up(j)) = Cardinality(Up(i)) => Up(j) = Up(i)
    BY <1>3, <2>1, FS_Subset
  <2> QED
    BY <2>1, <2>2
<1>6. ASSUME NEW i \in S, NEW j \in S, i # j PROVE Cardinality(Up(i)) # Cardinality(Up(j))
  <2>1. i < j \/ j < i
    BY <1>6
  <2> QED
    BY <2>1, <1>5
<1> QED
  BY <1>2, <1>3, <1>4, <1>6

\* The entry an item becomes: its ids are those of the old entry or new, no id comes to
\* mean another function, and what is dropped is what the old entry had and it has not.
LEMMA ReuseFacts ==
  ASSUME NEW old, old = None \/ WellMade(old),
         NEW item \in Item, OwnNames(item),
         NEW next \in Nat, NEW gone \in SUBSET Nat, \A g \in gone : g < next,
         old # None => \A x \in IdsOf(old) : x < next
  PROVE  LET r == Reuse(old, item, next, gone) IN
         /\ r.next \in Nat /\ r.next >= next
         /\ WellMade(r.entry) /\ r.entry.item = item
         /\ r.gone = GivenUp(old, r.entry)
         /\ \A x \in IdsOf(r.entry) : \/ x \in next .. r.next - 1
                                      \/ old # None /\ x \in IdsOf(old)
         /\ old # None => SameMeaning(old, r.entry)
<1> DEFINE kept == old # None /\ Compatible(old.item, item)
           new == {j \in DOMAIN item.methods : Same(old, item, j) = {}}
           spent == IF kept THEN 0 ELSE 1
           taken == Cardinality(new) + spent
           fresh == FreshIds(taken, next, gone)
           count(j) == Cardinality({i \in new : i <= j})
           Place(j) == count(j) + spent
           pick(j) == CHOOSE i \in Same(old, item, j) : TRUE
           ids == [j \in DOMAIN item.methods |->
                     IF j \in new THEN fresh[Place(j)] ELSE old.ids[pick(j)]]
           entry == [item |-> item, id |-> IF kept THEN old.id ELSE fresh[1], ids |-> ids]
           end == IF taken = 0 THEN next ELSE fresh[taken] + 1
           n == Len(item.methods)
<1>1. Reuse(old, item, next, gone) = [entry |-> entry, next |-> end, gone |-> GivenUp(old, entry)]
  BY DEF Reuse
<1>2. item.methods \in Seq(Method) /\ n \in Nat /\ DOMAIN item.methods = 1 .. n
  BY DEF Item
<1>3. new \in SUBSET (1 .. n)
  BY <1>2
<1> HIDE DEF new
<1>4. /\ Cardinality(new) \in Nat
      /\ \A j \in new : count(j) \in 1 .. Cardinality(new)
      /\ \A i, j \in new : i # j => count(i) # count(j)
  BY <1>2, <1>3, Places
<1> HIDE DEF count, n
<1>5. taken \in Nat /\ spent \in {0, 1} /\ (kept <=> spent = 0) /\ taken = Cardinality(new) + spent
  BY <1>4
<1>6. IsFiniteSet(gone)
  BY FiniteBelow
<1>7. fresh = [j \in 1 .. taken |-> next + j - 1]
  BY <1>5, <1>6, FreshIdsFollow
<1> HIDE DEF fresh
<1>8. end = next + taken
  BY <1>5, <1>7
<1>9. ASSUME NEW j \in new PROVE Place(j) \in 1 + spent .. taken /\ fresh[Place(j)] = next + Place(j) - 1
  <2>1. Place(j) \in 1 + spent .. taken
    BY <1>4, <1>5
  <2> QED
    BY <1>5, <1>7, <2>1
<1>10. ASSUME NEW i \in new, NEW j \in new, i # j PROVE Place(i) # Place(j)
  <2>1. count(i) \in Nat /\ count(j) \in Nat /\ count(i) # count(j)
    BY <1>4, <1>10
  <2> QED
    BY <1>5, <2>1
<1> HIDE DEF Place
<1>11. ASSUME NEW j \in 1 .. n \ new
       PROVE  /\ kept /\ WellMade(old) /\ Len(old.ids) = n
              /\ pick(j) \in DOMAIN old.ids /\ old.item.methods[pick(j)] = item.methods[j]
  <2>1. Same(old, item, j) # {}
    BY <1>2 DEF new
  <2>2. pick(j) \in Same(old, item, j)
    BY <2>1
  <2> QED
    BY <2>1, <2>2 DEF Same, n
<1> HIDE DEF pick
<1>12. ASSUME NEW i \in 1 .. n \ new, NEW j \in 1 .. n \ new, pick(i) = pick(j) PROVE i = j
  <2>1. item.methods[i] = item.methods[j]
    BY <1>11, <1>12
  <2> QED
    BY <1>2, <2>1 DEF OwnNames, IsInjective
<1>13. ASSUME NEW e, WellMade(e)
       PROVE  /\ e.ids \in Seq(Nat) /\ DOMAIN e.ids = 1 .. Len(e.ids) /\ e.id \in Nat
              /\ \A i \in DOMAIN e.ids : e.ids[i] \in Nat /\ e.ids[i] \in IdsOf(e) /\ e.ids[i] # e.id
              /\ e.id \in IdsOf(e)
              /\ \A i, k \in DOMAIN e.ids : e.ids[i] = e.ids[k] => i = k
  BY <1>13 DEF WellMade, Entry, IdsOf, IsInjective, Range
<1>14. ASSUME kept PROVE WellMade(old) /\ old # None
  BY <1>14
<1>15. \A j \in new : /\ ids[j] \in Nat /\ ids[j] \in next + spent .. end - 1
                      /\ ids[j] = next + Place(j) - 1
  BY <1>2, <1>3, <1>5, <1>8, <1>9
<1>16. \A j \in 1 .. n \ new : ids[j] = old.ids[pick(j)]
  BY <1>2
<1>17. ids \in Seq(Nat) /\ Len(ids) = n /\ DOMAIN ids = 1 .. n
  <2>1. ASSUME NEW j \in 1 .. n PROVE ids[j] \in Nat
    <3>1. CASE j \in new
      BY <1>15, <1>5, <1>8, <3>1
    <3>2. CASE j \notin new
      BY <1>16, <1>11, <1>13, <3>2
    <3> QED
      BY <3>1, <3>2
  <2>2. DOMAIN ids = 1 .. n
    BY <1>2
  <2>3. ids = [j \in 1 .. n |-> ids[j]]
    BY <2>2 DEF ids
  <2> HIDE DEF ids
  <2>4. ids \in [1 .. n -> Nat]
    BY <2>1, <2>3
  <2> QED
    BY <1>2, <2>4
<1> HIDE DEF ids
<1>18. \A i, j \in 1 .. n : ids[i] = ids[j] => i = j
  <2> SUFFICES ASSUME NEW i \in 1 .. n, NEW j \in 1 .. n, ids[i] = ids[j] PROVE i = j
    OBVIOUS
  <2>1. CASE i \in new /\ j \in new
    <3>1. Place(i) = Place(j)
      BY <2>1, <1>15, <1>9, <1>5
    <3> QED
      BY <3>1, <2>1, <1>10
  <2>2. CASE i \notin new /\ j \notin new
    <3>1. pick(i) = pick(j)
      BY <2>2, <1>16, <1>11, <1>13
    <3> QED
      BY <3>1, <2>2, <1>12
  <2>3. \A k \in 1 .. n \ new : ids[k] \in Nat /\ ids[k] < next
    BY <1>16, <1>11, <1>13
  <2>4. \A k \in new : ids[k] \in Nat /\ ids[k] >= next
    BY <1>15, <1>5, <1>8
  <2> QED
    BY <2>1, <2>2, <2>3, <2>4
<1>19. entry.id = (IF kept THEN old.id ELSE next) /\ entry.id \in Nat
  <2>1. CASE kept
    BY <2>1, <1>14, <1>13
  <2>2. CASE ~ kept
    <3>1. taken >= 1
      BY <2>2, <1>4, <1>5
    <3> QED
      BY <3>1, <2>2, <1>5, <1>7
  <2> QED
    BY <2>1, <2>2
<1>20. \A j \in 1 .. n : ids[j] # entry.id
  <2> SUFFICES ASSUME NEW j \in 1 .. n PROVE ids[j] # entry.id
    OBVIOUS
  <2>1. CASE kept /\ j \in new
    BY <2>1, <1>15, <1>14, <1>13, <1>19, <1>5, <1>8
  <2>2. CASE ~ kept /\ j \in new
    BY <2>2, <1>15, <1>19, <1>5, <1>8
  <2>3. CASE j \notin new
    BY <2>3, <1>11, <1>16, <1>19, <1>13
  <2> QED
    BY <2>1, <2>2, <2>3
<1>21. entry \in Entry
  BY <1>17, <1>19 DEF Entry
<1>22. entry.item = item /\ entry.ids = ids
  OBVIOUS
<1> HIDE DEF entry
<1>23. WellMade(entry)
  <2>1. Len(entry.ids) = Len(entry.item.methods) /\ OwnNames(entry.item)
    BY <1>17, <1>22 DEF n
  <2>2. IsInjective(entry.ids) /\ entry.id \notin Range(entry.ids)
    BY <1>17, <1>18, <1>20, <1>22 DEF IsInjective, Range
  <2> QED
    BY <2>1, <2>2, <1>21 DEF WellMade
<1>24. ASSUME NEW x \in IdsOf(entry) PROVE x \in next .. end - 1 \/ (old # None /\ x \in IdsOf(old))
  <2>1. x = entry.id \/ \E j \in 1 .. n : x = ids[j]
    BY <1>17, <1>22 DEF IdsOf, Range
  <2>2. CASE x = entry.id
    <3>1. CASE kept
      BY <3>1, <2>2, <1>19, <1>14, <1>13
    <3>2. CASE ~ kept
      BY <3>2, <2>2, <1>19, <1>4, <1>5, <1>8
    <3> QED
      BY <3>1, <3>2
  <2>3. ASSUME NEW j \in 1 .. n, x = ids[j] PROVE x \in next .. end - 1 \/ (old # None /\ x \in IdsOf(old))
    BY <2>3, <1>15, <1>16, <1>11, <1>13, <1>5, <1>8
  <2> QED
    BY <2>1, <2>2, <2>3
<1>25. ASSUME old # None PROVE SameMeaning(old, entry)
  <2> SUFFICES ASSUME NEW m \in ToSet(MethodsOf(old)), NEW f \in ToSet(MethodsOf(entry)), m.id = f.id
               PROVE  m.item = f.item
    BY DEF SameMeaning
  <2>1. WellMade(old)
    BY <1>25
  <2>2. m.id \in IdsOf(old) /\ m.id \in Nat /\ m.id < next
    <3>1. m.id \in IdsOf(old)
      <4>1. CASE old.item.kind = "function"
        BY <4>1, <2>1, <1>13 DEF MethodsOf, ToSet
      <4>2. CASE old.item.kind # "function"
        <5>1. PICK j \in DOMAIN old.ids : m = [id |-> old.ids[j], item |-> old.item.methods[j]]
          BY <4>2 DEF MethodsOf, ToSet
        <5> QED
          BY <5>1, <2>1, <1>13
      <4> QED
        BY <4>1, <4>2
    <3> QED
      BY <3>1, <1>25, <1>13, <2>1 DEF IdsOf, Range
  <2>3. CASE item.kind = "function"
    <3>1. f = [id |-> entry.id, item |-> item]
      BY <2>3, <1>22 DEF MethodsOf, ToSet
    <3>2. kept
      BY <3>1, <2>2, <1>19
    <3>3. old.item.kind = "function" /\ old.item = item
      BY <3>2, <2>3 DEF Compatible, TextCompared
    <3>4. m = [id |-> old.id, item |-> old.item]
      BY <3>3 DEF MethodsOf, ToSet
    <3> QED
      BY <3>1, <3>3, <3>4
  <2>4. CASE item.kind # "function"
    <3>1. PICK j \in 1 .. n : f = [id |-> ids[j], item |-> item.methods[j]]
      BY <2>4, <1>22, <1>17 DEF MethodsOf, ToSet
    <3>2. j \notin new
      BY <3>1, <2>2, <1>15, <1>5, <1>8
    <3>3. kept /\ old.item.kind # "function"
      BY <3>2, <1>11, <2>4 DEF Compatible
    <3>4. PICK i \in DOMAIN old.ids : m = [id |-> old.ids[i], item |-> old.item.methods[i]]
      BY <3>3 DEF MethodsOf, ToSet
    <3>5. i = pick(j)
      BY <3>1, <3>2, <3>4, <1>11, <1>16, <1>13, <2>1
    <3> QED
      BY <3>1, <3>2, <3>4, <3>5, <1>11
  <2> QED
    BY <2>3, <2>4
<1> HIDE DEF end
<1> QED
  BY <1>1, <1>5, <1>8, <1>22, <1>23, <1>24, <1>25

----------------------------------------------------------------------------
(* One tree after another *)

\* The ids of an entry are numbers, those of its methods among them.
LEMMA IdsAreNat ==
  ASSUME NEW e, WellMade(e)
  PROVE  /\ \A x \in IdsOf(e) : x \in Nat
         /\ \A m \in ToSet(MethodsOf(e)) : m.id \in IdsOf(e)
<1>1. e.id \in Nat /\ e.ids \in Seq(Nat) /\ DOMAIN e.ids = 1 .. Len(e.ids)
  BY DEF WellMade, Entry
<1>2. ASSUME NEW m \in ToSet(MethodsOf(e)) PROVE m.id \in IdsOf(e)
  <2>1. CASE e.item.kind = "function"
    BY <2>1 DEF MethodsOf, ToSet, IdsOf
  <2>2. CASE e.item.kind # "function"
    <3>1. PICK j \in DOMAIN e.ids : m = [id |-> e.ids[j], item |-> e.item.methods[j]]
      BY <2>2 DEF MethodsOf, ToSet
    <3> QED
      BY <3>1 DEF IdsOf, Range
  <2> QED
    BY <2>1, <2>2
<1> QED
  BY <1>1, <1>2 DEF IdsOf, Range

\* The tree of the first k items, made from the entries `used` of an old tree and from
\* the ids from .. to - 1.
Partial(tree, items, k, old, used, from, to) ==
  /\ tree \in Seq(Entry) /\ Len(tree) = k
  /\ from \in Nat /\ to \in Nat /\ from <= to
  /\ used \in SUBSET DOMAIN old
  /\ \A i \in 1 .. k : WellMade(tree[i]) /\ tree[i].item = items[i]
  /\ Disjoint(tree)
  /\ \A i \in 1 .. k : \A x \in IdsOf(tree[i]) :
       x \in from .. to - 1 \/ \E u \in used : x \in IdsOf(old[u])
  /\ \A i \in 1 .. k, u \in DOMAIN old : SameMeaning(old[u], tree[i])

\* Ids of used entries that the tree does not have.
Dropped(tree, old, used, ids) ==
  /\ \A x \in ids : \E u \in used : x \in IdsOf(old[u])
  /\ \A i \in DOMAIN tree : IdsOf(tree[i]) \cap ids = {}

\* What the entries of a tree are to the tree that is made from it.
LEMMA OldEntries ==
  ASSUME NEW old, NEW from, NEW gone, GoodTree(old, from, gone)
  PROVE  /\ \A u \in DOMAIN old : /\ WellMade(old[u]) /\ old[u] # None /\ u # 0
                                  /\ \A x \in IdsOf(old[u]) : x \in Nat /\ x < from /\ x \notin gone
         /\ \A u, v \in DOMAIN old : u # v => IdsOf(old[u]) \cap IdsOf(old[v]) = {}
<1>1. ASSUME NEW u \in DOMAIN old
      PROVE  /\ WellMade(old[u]) /\ old[u] # None /\ u # 0
             /\ \A x \in IdsOf(old[u]) : x \in Nat /\ x < from /\ x \notin gone
  <2>1. WellMade(old[u]) /\ old[u] # None /\ u # 0
    BY NoneIsNoEntry DEF GoodTree, WellMade
  <2>2. ASSUME NEW x \in IdsOf(old[u]) PROVE x \in Nat /\ x < from /\ x \notin gone
    <3>1. x \in Ids(old)
      BY DEF Ids
    <3> QED
      BY <2>1, <3>1, IdsAreNat DEF GoodTree
  <2> QED
    BY <2>1, <2>2
<1> QED
  BY <1>1 DEF GoodTree, Disjoint

\* One more item, stabilized against an old entry that no item before it was, or none.
LEMMA PartialStep ==
  ASSUME NEW old, NEW from, NEW taken, GoodTree(old, from, taken),
         NEW items \in Seq(Item), NEW k \in 1 .. Len(items), OwnNames(items[k]),
         NEW tree, NEW used, NEW mid, Partial(tree, items, k - 1, old, used, from, mid),
         NEW i \in {0} \cup (DOMAIN old \ used),
         NEW gone \in SUBSET Nat, \A g \in gone : g < mid
  PROVE  LET r == Reuse(EntryAt(old, i), items[k], mid, gone) IN
         /\ Partial(Append(tree, r.entry), items, k, old, used \cup ({i} \ {0}), from, r.next)
         /\ \A ids : Dropped(tree, old, used, ids) =>
              Dropped(Append(tree, r.entry), old, used \cup ({i} \ {0}), ids \cup r.gone)
         /\ r.next \in Nat /\ r.next >= mid
<1> DEFINE o == EntryAt(old, i)
           r == Reuse(o, items[k], mid, gone)
           e == r.entry
           next == r.next
           new == Append(tree, e)
           now == used \cup ({i} \ {0})
<1>1. /\ tree \in Seq(Entry) /\ Len(tree) = k - 1
      /\ from \in Nat /\ mid \in Nat /\ from <= mid
      /\ used \in SUBSET DOMAIN old
      /\ \A j \in 1 .. k - 1 : WellMade(tree[j]) /\ tree[j].item = items[j]
      /\ \A j, l \in 1 .. k - 1 : j # l => IdsOf(tree[j]) \cap IdsOf(tree[l]) = {}
      /\ \A j \in 1 .. k - 1 : \A x \in IdsOf(tree[j]) :
           x \in from .. mid - 1 \/ \E u \in used : x \in IdsOf(old[u])
      /\ \A j \in 1 .. k - 1, u \in DOMAIN old : SameMeaning(old[u], tree[j])
  <2>1. /\ tree \in Seq(Entry) /\ Len(tree) = k - 1 /\ from \in Nat /\ mid \in Nat /\ from <= mid
        /\ used \in SUBSET DOMAIN old /\ Disjoint(tree)
    BY DEF Partial
  <2>2. \A j \in 1 .. k - 1 : /\ WellMade(tree[j]) /\ tree[j].item = items[j]
                             /\ \A x \in IdsOf(tree[j]) :
                                  x \in from .. mid - 1 \/ \E u \in used : x \in IdsOf(old[u])
    BY DEF Partial
  <2>3. \A j \in 1 .. k - 1, u \in DOMAIN old : SameMeaning(old[u], tree[j])
    BY DEF Partial
  <2>4. DOMAIN tree = 1 .. k - 1
    BY <2>1
  <2>5. \A j, l \in 1 .. k - 1 : j # l => IdsOf(tree[j]) \cap IdsOf(tree[l]) = {}
    BY <2>1, <2>4 DEF Disjoint
  <2> QED
    BY <2>1, <2>2, <2>3, <2>5
<1>2. /\ \A u \in DOMAIN old : /\ WellMade(old[u]) /\ old[u] # None /\ u # 0
                               /\ \A x \in IdsOf(old[u]) : x \in Nat /\ x < from
      /\ \A u, v \in DOMAIN old : u # v => IdsOf(old[u]) \cap IdsOf(old[v]) = {}
  BY OldEntries
<1>3. /\ i = 0 => o = None
      /\ i # 0 => i \in DOMAIN old /\ i \notin used /\ o = old[i] /\ o # None /\ WellMade(o)
  BY <1>2 DEF EntryAt
<1>4. /\ o = None \/ WellMade(o)
      /\ o # None => \A x \in IdsOf(o) : x < mid
  <2>1. CASE i = 0
    BY <2>1, <1>3
  <2>2. CASE i # 0
    <3>1. \A x \in IdsOf(o) : x \in Nat /\ x < from
      BY <2>2, <1>2, <1>3
    <3> QED
      BY <2>2, <3>1, <1>1, <1>3
  <2> QED
    BY <2>1, <2>2
<1> HIDE DEF o
<1>5. /\ next \in Nat /\ next >= mid
      /\ WellMade(e) /\ e.item = items[k]
      /\ r.gone = GivenUp(o, e)
      /\ \A x \in IdsOf(e) : x \in mid .. next - 1 \/ (o # None /\ x \in IdsOf(o))
      /\ o # None => SameMeaning(o, e)
  <2>1. items[k] \in Item
    OBVIOUS
  <2> QED
    BY <2>1, <1>1, <1>4, ReuseFacts
<1> HIDE DEF r, e, next
<1>6. e \in Entry
  BY <1>5 DEF WellMade
<1> HIDE DEF now
<1>7. now \in SUBSET DOMAIN old /\ used \subseteq now /\ (i # 0 => i \in now)
  BY <1>1, <1>3 DEF now
<1>8. /\ new \in Seq(Entry) /\ Len(new) = k /\ new[k] = e
      /\ \A j \in 1 .. k - 1 : new[j] = tree[j]
  BY <1>1, <1>6
<1> HIDE DEF new
<1>9. ASSUME NEW j \in 1 .. k PROVE WellMade(new[j]) /\ new[j].item = items[j]
  BY <1>1, <1>5, <1>8
<1>10. ASSUME NEW j \in 1 .. k - 1 PROVE IdsOf(tree[j]) \cap IdsOf(e) = {}
  <2> SUFFICES ASSUME NEW x \in IdsOf(tree[j]), x \in IdsOf(e) PROVE FALSE
    OBVIOUS
  <2>1. x \in from .. mid - 1 \/ \E u \in used : x \in IdsOf(old[u])
    BY <1>1
  <2>2. x \in Nat /\ x < mid
    BY <2>1, <1>1, <1>2
  <2>3. o # None /\ x \in IdsOf(o)
    BY <2>2, <1>5, <1>1
  <2>4. i # 0 /\ x \in IdsOf(old[i]) /\ x < from
    BY <2>3, <1>3, <1>2
  <2>5. \E u \in used : x \in IdsOf(old[u])
    BY <2>1, <2>4, <1>1
  <2> QED
    BY <2>4, <2>5, <1>1, <1>2, <1>3
<1>11. Disjoint(new)
  <2> SUFFICES ASSUME NEW j \in 1 .. k, NEW l \in 1 .. k, j # l PROVE IdsOf(new[j]) \cap IdsOf(new[l]) = {}
    BY <1>8 DEF Disjoint
  <2>1. CASE j = k
    BY <2>1, <1>8, <1>10
  <2>2. CASE l = k
    BY <2>2, <1>8, <1>10
  <2>3. CASE j # k /\ l # k
    <3>1. j \in 1 .. k - 1 /\ l \in 1 .. k - 1
      BY <2>3
    <3> QED
      BY <2>3, <3>1, <1>8, <1>1
  <2> QED
    BY <2>1, <2>2, <2>3
<1>12. ASSUME NEW j \in 1 .. k, NEW x \in IdsOf(new[j])
       PROVE  x \in from .. next - 1 \/ \E u \in now : x \in IdsOf(old[u])
  <2>1. CASE j = k
    <3>1. x \in mid .. next - 1 \/ (o # None /\ x \in IdsOf(o))
      BY <2>1, <1>5, <1>8
    <3>2. CASE x \in mid .. next - 1
      BY <3>2, <1>1, <1>5
    <3>3. CASE o # None /\ x \in IdsOf(o)
      BY <3>3, <1>3, <1>7
    <3> QED
      BY <3>1, <3>2, <3>3
  <2>2. CASE j # k
    <3>1. x \in from .. mid - 1 \/ \E u \in used : x \in IdsOf(old[u])
      BY <2>2, <1>1, <1>8
    <3> QED
      BY <3>1, <1>1, <1>5, <1>7
  <2> QED
    BY <2>1, <2>2
<1>13. ASSUME NEW j \in 1 .. k, NEW u \in DOMAIN old PROVE SameMeaning(old[u], new[j])
  <2>1. CASE j # k
    BY <2>1, <1>1, <1>8
  <2>2. CASE j = k /\ u = i
    BY <2>2, <1>2, <1>3, <1>5, <1>8
  <2>3. CASE j = k /\ u # i
    <3>1. IdsOf(old[u]) \cap IdsOf(e) = {}
      <4> SUFFICES ASSUME NEW x \in IdsOf(old[u]), x \in IdsOf(e) PROVE FALSE
        OBVIOUS
      <4>1. x \in Nat /\ x < mid
        BY <1>1, <1>2
      <4>2. o # None /\ x \in IdsOf(o)
        BY <4>1, <1>1, <1>5
      <4> QED
        BY <4>2, <1>2, <1>3, <2>3
    <3>2. \A m \in ToSet(MethodsOf(old[u])) : m.id \in IdsOf(old[u])
      BY <1>2, IdsAreNat
    <3>3. \A m \in ToSet(MethodsOf(e)) : m.id \in IdsOf(e)
      BY <1>5, IdsAreNat
    <3>4. SameMeaning(old[u], e)
      BY <3>1, <3>2, <3>3 DEF SameMeaning
    <3> QED
      BY <3>4, <2>3, <1>8
  <2> QED
    BY <2>1, <2>2, <2>3
<1>14. Partial(new, items, k, old, now, from, next)
  <2>1. from <= next
    BY <1>1, <1>5
  <2> QED
    BY <2>1, <1>1, <1>5, <1>7, <1>8, <1>9, <1>11, <1>12, <1>13 DEF Partial
<1>15. ASSUME NEW ids, Dropped(tree, old, used, ids) PROVE Dropped(new, old, now, ids \cup r.gone)
  <2>1. r.gone = IF o = None THEN {} ELSE IdsOf(o) \ IdsOf(e)
    BY <1>5 DEF GivenUp
  <2>2. ASSUME NEW x \in ids \cup r.gone PROVE \E u \in now : x \in IdsOf(old[u])
    <3>1. CASE x \in ids
      BY <3>1, <1>7, <1>15 DEF Dropped
    <3>2. CASE x \in r.gone
      BY <3>2, <2>1, <1>3, <1>7
    <3> QED
      BY <3>1, <3>2
  <2>3. ASSUME NEW j \in 1 .. k, NEW x \in IdsOf(new[j]), x \in ids PROVE FALSE
    <3>1. CASE j # k
      <4>1. j \in DOMAIN tree /\ x \in IdsOf(tree[j])
        BY <3>1, <1>1, <1>8
      <4> QED
        BY <4>1, <2>3, <1>15 DEF Dropped
    <3>2. CASE j = k
      <4>1. PICK u \in used : x \in IdsOf(old[u])
        BY <1>15, <2>3 DEF Dropped
      <4>2. x \in Nat /\ x < mid
        BY <4>1, <1>1, <1>2
      <4>3. o # None /\ x \in IdsOf(o)
        BY <3>2, <4>2, <1>1, <1>5, <1>8
      <4> QED
        BY <4>1, <4>3, <1>1, <1>2, <1>3
    <3> QED
      BY <3>1, <3>2
  <2>4. ASSUME NEW j \in 1 .. k, NEW x \in IdsOf(new[j]), x \in r.gone PROVE FALSE
    <3>1. CASE j = k
      BY <3>1, <2>1, <2>4, <1>8
    <3>2. CASE j # k
      <4>1. i # 0 /\ i \notin used /\ x \in IdsOf(old[i]) /\ x \in Nat /\ x < from
        BY <2>1, <2>4, <1>2, <1>3
      <4>2. x \in from .. mid - 1 \/ \E u \in used : x \in IdsOf(old[u])
        BY <3>2, <1>1, <1>8
      <4>3. PICK u \in used : x \in IdsOf(old[u])
        BY <4>1, <4>2, <1>1
      <4> QED
        BY <4>1, <4>3, <1>1, <1>2, <1>3
    <3> QED
      BY <3>1, <3>2
  <2>5. DOMAIN new = 1 .. k
    BY <1>8
  <2> QED
    BY <2>2, <2>3, <2>4, <2>5 DEF Dropped
<1> QED
  BY <1>5, <1>14, <1>15 DEF r, e, next, new, now, o

\* The empty tree.
LEMMA NoTree == \A from \in Nat : GoodTree(<<>>, from, {})
<1>1. Ids(<<>>) = {}
  BY DEF Ids
<1> QED
  BY <1>1 DEF GoodTree, Disjoint

\* The tree of no item.
LEMMA PartialStart ==
  ASSUME NEW old, NEW from \in Nat, NEW items
  PROVE  Partial(<<>>, items, 0, old, {}, from, from) /\ Dropped(<<>>, old, {}, {})
BY DEF Partial, Disjoint, Dropped

\* A tree built from nothing.
LEMMA FreshFacts ==
  ASSUME NEW file \in Seq(Item), \A k \in DOMAIN file : OwnNames(file[k])
  PROVE  Partial(Fresh(file).ast, file, Len(file), <<>>, {}, 1, Fresh(file).next)
<1> DEFINE n == Len(file)
           In(x, k) == /\ x \in [ast : Seq(Entry), next : Nat]
                       /\ Partial(x.ast, file, k, <<>>, {}, 1, x.next)
           good == [k \in 0 .. n |-> {x \in [ast : Seq(Entry), next : Nat] : In(x, k)}]
           grow(k, x) == LET r == Reuse(None, file[k], x.next, {})
                         IN [ast |-> Append(x.ast, r.entry), next |-> r.next]
           base == [ast |-> <<>>, next |-> 1]
           step == [k \in 1 .. n |-> [x \in good[k - 1] |-> grow(k, x)]]
           s == FreshSteps(file)
<1>1. n \in Nat /\ DOMAIN file = 1 .. n
  OBVIOUS
<1>2. In(base, 0)
  <2>1. base \in [ast : Seq(Entry), next : Nat] /\ base.ast = <<>> /\ base.next = 1
    OBVIOUS
  <2>2. Partial(<<>>, file, 0, <<>>, {}, 1, 1)
    BY PartialStart
  <2> QED
    BY <2>1, <2>2
<1>3. ASSUME NEW k \in 1 .. n, NEW x, In(x, k - 1) PROVE In(grow(k, x), k)
  <2>1. x.ast \in Seq(Entry) /\ x.next \in Nat
    BY <1>3
  <2>2. 1 <= x.next /\ Partial(x.ast, file, k - 1, <<>>, {}, 1, x.next)
    BY <1>3 DEF Partial
  <2> DEFINE r == Reuse(EntryAt(<<>>, 0), file[k], x.next, {})
  <2>3. /\ Partial(Append(x.ast, r.entry), file, k, <<>>, {} \cup ({0} \ {0}), 1, r.next)
        /\ r.next \in Nat /\ r.next >= x.next
    BY <2>1, <2>2, <1>1, NoTree, PartialStep
  <2>4. {} \cup ({0} \ {0}) = {} /\ EntryAt(<<>>, 0) = None
    BY DEF EntryAt
  <2>5. Append(x.ast, r.entry) \in Seq(Entry)
    BY <2>3 DEF Partial
  <2> QED
    BY <2>3, <2>4, <2>5
<1> HIDE DEF In, grow, base, n
<1>4. base \in good[0]
  BY <1>1, <1>2 DEF In
<1>5. \A k \in 1 .. n : \A x \in good[k - 1] : step[k][x] = grow(k, x) /\ grow(k, x) \in good[k]
  <2> SUFFICES ASSUME NEW k \in 1 .. n, NEW x \in good[k - 1]
               PROVE  step[k][x] = grow(k, x) /\ grow(k, x) \in good[k]
    OBVIOUS
  <2>1. k \in 0 .. n /\ k - 1 \in 0 .. n
    BY <1>1
  <2>2. In(grow(k, x), k)
    BY <1>3, <2>1
  <2> QED
    BY <2>1, <2>2 DEF In
<1> HIDE DEF step, good
<1>6. PICK t : StepsTaken(t, n, good, base, step)
  <2>1. StepsStay(n, good, base, step)
    BY <1>4, <1>5 DEF StepsStay
  <2> QED
    BY <2>1, <1>1, Recursion
<1> DEFINE h == [k \in 0 .. n |-> t[k]]
<1>7. h = [k \in 0 .. n |-> IF k = 0 THEN base ELSE grow(k, h[k - 1])]
  <2>1. \A k \in 1 .. n : step[k][t[k - 1]] = grow(k, t[k - 1])
    BY <1>1, <1>5, <1>6 DEF StepsTaken
  <2>2. \A k \in 0 .. n : h[k] = IF k = 0 THEN base ELSE grow(k, h[k - 1])
    BY <2>1, <1>1, <1>6 DEF StepsTaken
  <2> QED
    BY <2>2
<1> HIDE DEF h
<1>8. s = [k \in 0 .. n |-> IF k = 0 THEN base ELSE grow(k, s[k - 1])]
  BY <1>7 DEF FreshSteps, grow, base, n
<1> HIDE DEF s
<1> DEFINE S == {k \in 0 .. n : In(s[k], k)}
<1>9. 0 \in S
  BY <1>1, <1>2, <1>8
<1>10. ASSUME NEW k \in 0 .. n - 1, k \in S PROVE k + 1 \in S
  <2>1. k + 1 \in 1 .. n /\ (k + 1) - 1 = k /\ s[k + 1] = grow(k + 1, s[k])
    BY <1>1, <1>8
  <2>2. In(grow(k + 1, s[k]), k + 1)
    BY <2>1, <1>3, <1>10
  <2> QED
    BY <2>1, <2>2
<1> HIDE DEF S
<1>11. \A k \in 0 .. n : k \in S
  BY <1>1, <1>9, <1>10, UpTo
<1>12. In(s[n], n)
  BY <1>1, <1>11 DEF S
<1> QED
  BY <1>12 DEF Fresh, s, n, In

\* A full rebuild matches an item with an old entry that is not used yet.
LEMMA MatchFacts ==
  ASSUME NEW ast \in Seq(Entry), NEW file, NEW j \in Nat, NEW used
  PROVE  Match(ast, file, j, used) \in {0} \cup (DOMAIN ast \ used)
<1> DEFINE fit == {i \in DOMAIN ast \ used : Len(ast) = Len(file) /\ Compatible(ast[i].item, file[j])}
           far(i) == 100 - Score(ast, file, i, j)
<1>1. ASSUME NEW i \in fit PROVE Score(ast, file, i, j) \in Int /\ far(i) \in Nat
  BY DEF Score
<1>2. ASSUME fit # {} PROVE \E i \in fit : \A k \in fit : Score(ast, file, i, j) >= Score(ast, file, k, j)
  <2>1. {far(i) : i \in fit} \in SUBSET Nat /\ {far(i) : i \in fit} # {}
    BY <1>1, <1>2
  <2>2. PICK m \in {far(i) : i \in fit} : \A k \in {far(i) : i \in fit} : m <= k
    BY <2>1, LeastExists
  <2>3. PICK i \in fit : m = far(i)
    OBVIOUS
  <2>4. \A k \in fit : far(i) <= far(k)
    BY <2>2, <2>3
  <2>5. ASSUME NEW k \in fit PROVE Score(ast, file, i, j) >= Score(ast, file, k, j)
    <3>1. far(i) <= far(k)
      BY <2>4
    <3> QED
      BY <3>1, <1>1
  <2> HIDE DEF fit
  <2> QED
    BY <2>5
<1> DEFINE best == CHOOSE i \in fit : \A k \in fit : Score(ast, file, i, j) >= Score(ast, file, k, j)
<1>3. fit # {} => best \in fit
  BY <1>2
<1>4. Match(ast, file, j, used) = IF j \in fit THEN j ELSE IF fit = {} THEN 0 ELSE best
  BY DEF Match
<1> HIDE DEF best
<1>5. fit \subseteq DOMAIN ast \ used
  OBVIOUS
<1> HIDE DEF fit
<1> QED
  BY <1>3, <1>4, <1>5

\* An edit matches an item with an overlapped entry that is not consumed yet.
LEMMA MatchingOldFacts ==
  ASSUME NEW ast, NEW edit, edit.lo \in Nat, edit.hi \in Nat, NEW item, NEW consumed
  PROVE  MatchingOld(ast, edit, item, consumed) \in {0} \cup (Overlapped(edit) \ consumed)
<1> DEFINE fit == {i \in Overlapped(edit) \ consumed : ast[i].item.kind = item.kind}
           first == CHOOSE i \in fit : \A k \in fit : i <= k
<1>1. fit \in SUBSET Nat
  BY DEF Overlapped
<1>2. fit # {} => first \in fit
  BY <1>1, LeastExists
<1>3. MatchingOld(ast, edit, item, consumed) = IF fit = {} THEN 0 ELSE first
  BY DEF MatchingOld
<1> HIDE DEF first
<1> QED
  BY <1>2, <1>3

\* A tree built over an old one.
LEMMA RebuildFacts ==
  ASSUME NEW ast, NEW next, NEW gone, GoodTree(ast, next, gone),
         NEW file \in Seq(Item), \A k \in DOMAIN file : OwnNames(file[k])
  PROVE  LET r == Rebuilt(ast, file, next, gone) IN
         \E used : Partial(r.ast, file, Len(file), ast, used, next, r.next)
<1> DEFINE n == Len(file)
           Types == [ast : Seq(Entry), next : Nat, used : SUBSET DOMAIN ast]
           In(x, k) == /\ x \in Types
                       /\ Partial(x.ast, file, k, ast, x.used, next, x.next)
           good == [k \in 0 .. n |-> {x \in Types : In(x, k)}]
           grow(k, x) == LET i == Match(ast, file, k, x.used)
                             r == Reuse(EntryAt(ast, i), file[k], x.next, gone)
                         IN [ast |-> Append(x.ast, r.entry), next |-> r.next,
                             used |-> x.used \cup ({i} \ {0})]
           base == [ast |-> <<>>, next |-> next, used |-> {}]
           step == [k \in 1 .. n |-> [x \in good[k - 1] |-> grow(k, x)]]
           s == RebuildSteps(ast, file, next, gone)
<1>0. /\ ast \in Seq(Entry) /\ next \in Nat /\ gone \in SUBSET Nat
      /\ \A g \in gone : g < next
  BY DEF GoodTree
<1>1. n \in Nat /\ DOMAIN file = 1 .. n
  OBVIOUS
<1>2. In(base, 0)
  <2>1. base \in Types /\ base.ast = <<>> /\ base.next = next /\ base.used = {}
    BY <1>0
  <2>2. Partial(<<>>, file, 0, ast, {}, next, next)
    BY <1>0, PartialStart
  <2> QED
    BY <2>1, <2>2
<1>3. ASSUME NEW k \in 1 .. n, NEW x, In(x, k - 1) PROVE In(grow(k, x), k)
  <2>1. x.ast \in Seq(Entry) /\ x.next \in Nat /\ x.used \in SUBSET DOMAIN ast
    BY <1>3
  <2>2. next <= x.next /\ Partial(x.ast, file, k - 1, ast, x.used, next, x.next)
    BY <1>3 DEF Partial
  <2> DEFINE i == Match(ast, file, k, x.used)
             r == Reuse(EntryAt(ast, i), file[k], x.next, gone)
  <2>3. i \in {0} \cup (DOMAIN ast \ x.used)
    BY <1>0, <1>1, MatchFacts
  <2>4. ASSUME NEW g \in gone PROVE g < x.next
    <3>1. g \in Nat /\ g < next /\ next \in Nat
      BY <1>0
    <3> QED
      BY <3>1, <2>1, <2>2
  <2> HIDE DEF i
  <2>5. /\ Partial(Append(x.ast, r.entry), file, k, ast, x.used \cup ({i} \ {0}), next, r.next)
        /\ r.next \in Nat
    BY <2>1, <2>2, <2>3, <2>4, <1>0, <1>1, PartialStep
  <2> HIDE DEF r
  <2>6. grow(k, x) = [ast |-> Append(x.ast, r.entry), next |-> r.next, used |-> x.used \cup ({i} \ {0})]
    BY DEF r, i
  <2>7. Append(x.ast, r.entry) \in Seq(Entry) /\ x.used \cup ({i} \ {0}) \in SUBSET DOMAIN ast
    BY <2>5 DEF Partial
  <2> HIDE DEF grow
  <2> QED
    BY <2>5, <2>6, <2>7
<1> HIDE DEF In, grow, base, n
<1>4. base \in good[0]
  BY <1>1, <1>2 DEF In
<1>5. \A k \in 1 .. n : \A x \in good[k - 1] : step[k][x] = grow(k, x) /\ grow(k, x) \in good[k]
  <2> SUFFICES ASSUME NEW k \in 1 .. n, NEW x \in good[k - 1]
               PROVE  step[k][x] = grow(k, x) /\ grow(k, x) \in good[k]
    OBVIOUS
  <2>1. k \in 0 .. n /\ k - 1 \in 0 .. n
    BY <1>1
  <2>2. In(grow(k, x), k)
    BY <1>3, <2>1
  <2> QED
    BY <2>1, <2>2 DEF In
<1> HIDE DEF step, good
<1>6. PICK t : StepsTaken(t, n, good, base, step)
  <2>1. StepsStay(n, good, base, step)
    BY <1>4, <1>5 DEF StepsStay
  <2> QED
    BY <2>1, <1>1, Recursion
<1> DEFINE h == [k \in 0 .. n |-> t[k]]
<1>7. h = [k \in 0 .. n |-> IF k = 0 THEN base ELSE grow(k, h[k - 1])]
  <2>1. \A k \in 1 .. n : step[k][t[k - 1]] = grow(k, t[k - 1])
    BY <1>1, <1>5, <1>6 DEF StepsTaken
  <2>2. \A k \in 0 .. n : h[k] = IF k = 0 THEN base ELSE grow(k, h[k - 1])
    BY <2>1, <1>1, <1>6 DEF StepsTaken
  <2> QED
    BY <2>2
<1> HIDE DEF h
<1>8. s = [k \in 0 .. n |-> IF k = 0 THEN base ELSE grow(k, s[k - 1])]
  BY <1>7 DEF RebuildSteps, grow, base, n
<1> HIDE DEF s
<1> DEFINE S == {k \in 0 .. n : In(s[k], k)}
<1>9. 0 \in S
  BY <1>1, <1>2, <1>8
<1>10. ASSUME NEW k \in 0 .. n - 1, k \in S PROVE k + 1 \in S
  <2>1. k + 1 \in 1 .. n /\ (k + 1) - 1 = k /\ s[k + 1] = grow(k + 1, s[k])
    BY <1>1, <1>8
  <2>2. In(grow(k + 1, s[k]), k + 1)
    BY <2>1, <1>3, <1>10
  <2> QED
    BY <2>1, <2>2
<1> HIDE DEF S
<1>11. \A k \in 0 .. n : k \in S
  BY <1>1, <1>9, <1>10, UpTo
<1>12. In(s[n], n)
  BY <1>1, <1>11 DEF S
<1> QED
  BY <1>12 DEF Rebuilt, s, n, In

\* The entries that an edit puts in the place of those it overlaps.
LEMMA ReplaceFacts ==
  ASSUME NEW ast, NEW next, NEW gone, GoodTree(ast, next, gone),
         NEW edit, edit.lo \in Nat, edit.hi \in Nat, edit.lo >= 1, edit.hi <= Len(ast),
         edit.new \in Seq(Item), \A k \in DOMAIN edit.new : OwnNames(edit.new[k])
  PROVE  LET r == Replaced(ast, edit, next, gone) IN
         /\ Partial(r.ast, edit.new, Len(edit.new), ast, r.consumed, next, r.next)
         /\ Dropped(r.ast, ast, r.consumed, r.gone)
         /\ r.consumed \in SUBSET Overlapped(edit)
<1> DEFINE n == Len(edit.new)
           Types == [ast : Seq(Entry), next : Nat, gone : SUBSET Nat, consumed : SUBSET Overlapped(edit)]
           In(x, k) == /\ x \in Types
                       /\ Partial(x.ast, edit.new, k, ast, x.consumed, next, x.next)
                       /\ Dropped(x.ast, ast, x.consumed, x.gone)
           good == [k \in 0 .. n |-> {x \in Types : In(x, k)}]
           grow(k, x) == LET i == MatchingOld(ast, edit, edit.new[k], x.consumed)
                             r == Reuse(EntryAt(ast, i), edit.new[k], x.next, gone \cup x.gone)
                         IN [ast |-> Append(x.ast, r.entry), next |-> r.next,
                             gone |-> x.gone \cup r.gone,
                             consumed |-> x.consumed \cup ({i} \ {0})]
           base == [ast |-> <<>>, next |-> next, gone |-> {}, consumed |-> {}]
           step == [k \in 1 .. n |-> [x \in good[k - 1] |-> grow(k, x)]]
           s == ReplaceSteps(ast, edit, next, gone)
<1>0. /\ ast \in Seq(Entry) /\ next \in Nat /\ gone \in SUBSET Nat
      /\ \A g \in gone : g < next
      /\ Overlapped(edit) \subseteq DOMAIN ast
      /\ \A u \in DOMAIN ast : \A x \in IdsOf(ast[u]) : x \in Nat /\ x < next
  <2>1. ast \in Seq(Entry) /\ next \in Nat /\ gone \in SUBSET Nat /\ \A g \in gone : g < next
    BY DEF GoodTree
  <2>2. Overlapped(edit) \subseteq DOMAIN ast
    BY <2>1 DEF Overlapped
  <2> QED
    BY <2>1, <2>2, OldEntries
<1>1. n \in Nat /\ DOMAIN edit.new = 1 .. n
  OBVIOUS
<1>2. In(base, 0)
  <2>1. base \in Types /\ base.ast = <<>> /\ base.next = next /\ base.gone = {} /\ base.consumed = {}
    BY <1>0
  <2>2. Partial(<<>>, edit.new, 0, ast, {}, next, next) /\ Dropped(<<>>, ast, {}, {})
    BY <1>0, PartialStart
  <2> QED
    BY <2>1, <2>2
<1>3. ASSUME NEW k \in 1 .. n, NEW x, In(x, k - 1) PROVE In(grow(k, x), k)
  <2>1. /\ x.ast \in Seq(Entry) /\ x.next \in Nat /\ x.gone \in SUBSET Nat
        /\ x.consumed \in SUBSET Overlapped(edit)
    BY <1>3
  <2>2. /\ next <= x.next /\ Partial(x.ast, edit.new, k - 1, ast, x.consumed, next, x.next)
        /\ Dropped(x.ast, ast, x.consumed, x.gone)
    BY <1>3 DEF Partial
  <2> DEFINE i == MatchingOld(ast, edit, edit.new[k], x.consumed)
             r == Reuse(EntryAt(ast, i), edit.new[k], x.next, gone \cup x.gone)
             now == x.consumed \cup ({i} \ {0})
             out == x.gone \cup r.gone
  <2>3. i \in {0} \cup (Overlapped(edit) \ x.consumed)
    BY MatchingOldFacts
  <2>4. ASSUME NEW g \in gone \cup x.gone PROVE g \in Nat /\ g < x.next
    <3>1. g \in x.gone => g < next
      BY <2>1, <2>2, <1>0 DEF Dropped
    <3> QED
      BY <3>1, <2>1, <2>2, <1>0
  <2> HIDE DEF i
  <2>5. /\ Partial(Append(x.ast, r.entry), edit.new, k, ast, now, next, r.next)
        /\ Dropped(Append(x.ast, r.entry), ast, now, out)
        /\ r.next \in Nat
    <3>1. i \in {0} \cup (DOMAIN ast \ x.consumed)
      BY <2>3, <1>0
    <3>2. gone \cup x.gone \in SUBSET Nat /\ \A g \in gone \cup x.gone : g < x.next
      BY <2>4
    <3>3. k \in 1 .. Len(edit.new) /\ OwnNames(edit.new[k])
      BY <1>1
    <3> QED
      BY <3>1, <3>2, <3>3, <2>2, PartialStep
  <2> HIDE DEF r
  <2>6. grow(k, x) = [ast |-> Append(x.ast, r.entry), next |-> r.next, gone |-> out, consumed |-> now]
    BY DEF r, i
  <2>7. Append(x.ast, r.entry) \in Seq(Entry) /\ now \in SUBSET Overlapped(edit)
    BY <2>1, <2>3, <2>5 DEF Partial
  <2>8. out \in SUBSET Nat
    <3>1. now \subseteq DOMAIN ast
      BY <2>7, <1>0
    <3> QED
      BY <3>1, <2>5, <1>0 DEF Dropped
  <2> HIDE DEF grow, now, out
  <2> QED
    BY <2>5, <2>6, <2>7, <2>8
<1> HIDE DEF In, grow, base, n
<1>4. base \in good[0]
  BY <1>1, <1>2 DEF In
<1>5. \A k \in 1 .. n : \A x \in good[k - 1] : step[k][x] = grow(k, x) /\ grow(k, x) \in good[k]
  <2> SUFFICES ASSUME NEW k \in 1 .. n, NEW x \in good[k - 1]
               PROVE  step[k][x] = grow(k, x) /\ grow(k, x) \in good[k]
    OBVIOUS
  <2>1. k \in 0 .. n /\ k - 1 \in 0 .. n
    BY <1>1
  <2>2. In(grow(k, x), k)
    BY <1>3, <2>1
  <2> QED
    BY <2>1, <2>2 DEF In
<1> HIDE DEF step, good
<1>6. PICK t : StepsTaken(t, n, good, base, step)
  <2>1. StepsStay(n, good, base, step)
    BY <1>4, <1>5 DEF StepsStay
  <2> QED
    BY <2>1, <1>1, Recursion
<1> DEFINE h == [k \in 0 .. n |-> t[k]]
<1>7. h = [k \in 0 .. n |-> IF k = 0 THEN base ELSE grow(k, h[k - 1])]
  <2>1. \A k \in 1 .. n : step[k][t[k - 1]] = grow(k, t[k - 1])
    BY <1>1, <1>5, <1>6 DEF StepsTaken
  <2>2. \A k \in 0 .. n : h[k] = IF k = 0 THEN base ELSE grow(k, h[k - 1])
    BY <2>1, <1>1, <1>6 DEF StepsTaken
  <2> QED
    BY <2>2
<1> HIDE DEF h
<1>8. s = [k \in 0 .. n |-> IF k = 0 THEN base ELSE grow(k, s[k - 1])]
  BY <1>7 DEF ReplaceSteps, grow, base, n
<1> HIDE DEF s
<1> DEFINE S == {k \in 0 .. n : In(s[k], k)}
<1>9. 0 \in S
  BY <1>1, <1>2, <1>8
<1>10. ASSUME NEW k \in 0 .. n - 1, k \in S PROVE k + 1 \in S
  <2>1. k + 1 \in 1 .. n /\ (k + 1) - 1 = k /\ s[k + 1] = grow(k + 1, s[k])
    BY <1>1, <1>8
  <2>2. In(grow(k + 1, s[k]), k + 1)
    BY <2>1, <1>3, <1>10
  <2> QED
    BY <2>1, <2>2
<1> HIDE DEF S
<1>11. \A k \in 0 .. n : k \in S
  BY <1>1, <1>9, <1>10, UpTo
<1>12. In(s[n], n)
  BY <1>1, <1>11 DEF S
<1> QED
  BY <1>12 DEF Replaced, s, n, In

----------------------------------------------------------------------------
(* Whole trees *)

\* What a new tree is to the old one: an id means what it meant or is new.
Stable(old, new, from) ==
  /\ \A m \in Methods(old), n \in Methods(new) : m.id = n.id => m.item = n.item
  /\ \A x \in Ids(new) \ Ids(old) : x >= from

\* A whole tree that was built entry by entry, whatever of the old ids is deleted.
LEMMA PartialTree ==
  ASSUME NEW old, NEW from, NEW gone, GoodTree(old, from, gone),
         NEW tree, NEW items \in Seq(Item), NEW used, NEW to,
         Partial(tree, items, Len(items), old, used, from, to),
         NEW out, out \subseteq Ids(old) \ Ids(tree)
  PROVE  /\ GoodTree(tree, to, gone \cup out)
         /\ Stable(old, tree, from)
         /\ Items(tree) = items
         /\ to >= from
<1> DEFINE n == Len(items)
<1>1. /\ tree \in Seq(Entry) /\ Len(tree) = n /\ DOMAIN tree = 1 .. n
      /\ from \in Nat /\ to \in Nat /\ from <= to
      /\ used \in SUBSET DOMAIN old /\ Disjoint(tree)
  BY DEF Partial
<1>2. \A i \in 1 .. n : /\ WellMade(tree[i]) /\ tree[i].item = items[i]
                        /\ \A x \in IdsOf(tree[i]) :
                             x \in from .. to - 1 \/ \E u \in used : x \in IdsOf(old[u])
  BY DEF Partial
<1>3. \A i \in 1 .. n, u \in DOMAIN old : SameMeaning(old[u], tree[i])
  BY DEF Partial
<1>4. \A u \in DOMAIN old : \A x \in IdsOf(old[u]) : x \in Nat /\ x < from /\ x \notin gone /\ x \in Ids(old)
  BY OldEntries DEF Ids
<1>5. gone \in SUBSET Nat /\ (\A g \in gone : g < from) /\ \A x \in Ids(old) : x < from
  BY DEF GoodTree
<1>6. ASSUME NEW x \in Ids(tree)
      PROVE  x \in Nat /\ x < to /\ x \notin gone /\ (x \in Ids(old) \/ x >= from)
  <2>1. PICK i \in 1 .. n : x \in IdsOf(tree[i])
    BY <1>1 DEF Ids
  <2>2. CASE x \in from .. to - 1
    BY <2>2, <1>1, <1>5
  <2>3. ASSUME NEW u \in used, x \in IdsOf(old[u])
        PROVE  x \in Nat /\ x < to /\ x \notin gone /\ x \in Ids(old)
    BY <2>3, <1>1, <1>4
  <2> QED
    BY <2>1, <2>2, <2>3, <1>2
<1>7. \A g \in gone \cup out : g \in Nat /\ g < to
  <2>1. ASSUME NEW x \in out PROVE x \in Nat /\ x < to
    <3>1. PICK u \in DOMAIN old : x \in IdsOf(old[u])
      BY DEF Ids
    <3> QED
      BY <3>1, <1>1, <1>4
  <2>2. ASSUME NEW x \in gone PROVE x \in Nat /\ x < to
    BY <1>1, <1>5
  <2> QED
    BY <2>1, <2>2
<1>8. GoodTree(tree, to, gone \cup out)
  <2>1. \A i \in DOMAIN tree : WellMade(tree[i])
    BY <1>1, <1>2
  <2>2. \A x \in Ids(tree) : x < to /\ x \notin gone \cup out
    BY <1>6
  <2>3. gone \cup out \in SUBSET Nat /\ \A g \in gone \cup out : g < to
    BY <1>7
  <2> QED
    BY <2>1, <2>2, <2>3, <1>1 DEF GoodTree
<1>9. Stable(old, tree, from)
  <2>1. ASSUME NEW m \in Methods(old), NEW f \in Methods(tree), m.id = f.id PROVE m.item = f.item
    <3>1. PICK u \in DOMAIN old : m \in ToSet(MethodsOf(old[u]))
      BY DEF Methods
    <3>2. PICK i \in DOMAIN tree : f \in ToSet(MethodsOf(tree[i]))
      BY DEF Methods
    <3> QED
      BY <3>1, <3>2, <2>1, <1>1, <1>3 DEF SameMeaning
  <2> QED
    BY <2>1, <1>6 DEF Stable
<1>10. Items(tree) = items
  <2>1. items = [i \in 1 .. n |-> items[i]]
    OBVIOUS
  <2>2. Items(tree) = [i \in 1 .. n |-> items[i]]
    BY <1>1, <1>2 DEF Items
  <2> QED
    BY <2>1, <2>2
<1> QED
  BY <1>1, <1>8, <1>9, <1>10

\* A tree built from nothing is good and is the tree of its file.
LEMMA FreshTree ==
  ASSUME NEW file \in Seq(Item), \A k \in DOMAIN file : OwnNames(file[k])
  PROVE  GoodTree(Fresh(file).ast, Fresh(file).next, {}) /\ Items(Fresh(file).ast) = file
<1>1. GoodTree(<<>>, 1, {})
  BY NoTree
<1>2. Partial(Fresh(file).ast, file, Len(file), <<>>, {}, 1, Fresh(file).next)
  BY FreshFacts
<1>3. {} \subseteq Ids(<<>>) \ Ids(Fresh(file).ast)
  OBVIOUS
<1>4. GoodTree(Fresh(file).ast, Fresh(file).next, {} \cup {}) /\ Items(Fresh(file).ast) = file
  BY <1>1, <1>2, <1>3, PartialTree
<1> QED
  BY <1>4

\* So is a tree rebuilt over an old one, and no id changes its meaning.
LEMMA RebuiltTree ==
  ASSUME NEW ast, NEW next, NEW gone, GoodTree(ast, next, gone),
         NEW file \in Seq(Item), \A k \in DOMAIN file : OwnNames(file[k])
  PROVE  LET r == Rebuilt(ast, file, next, gone) IN
         /\ GoodTree(r.ast, r.next, gone \cup r.gone)
         /\ Stable(ast, r.ast, next)
         /\ Items(r.ast) = file
         /\ r.next >= next
<1> DEFINE r == Rebuilt(ast, file, next, gone)
<1>1. PICK used : Partial(r.ast, file, Len(file), ast, used, next, r.next)
  BY RebuildFacts
<1>2. r.gone = Ids(ast) \ Ids(r.ast)
  BY DEF Rebuilt
<1> HIDE DEF r
<1>3. r.gone \subseteq Ids(ast) \ Ids(r.ast)
  BY <1>2
<1>4. /\ GoodTree(r.ast, r.next, gone \cup r.gone)
      /\ Stable(ast, r.ast, next)
      /\ Items(r.ast) = file
      /\ r.next >= next
  BY <1>1, <1>3, PartialTree
<1> QED
  BY <1>4 DEF r

----------------------------------------------------------------------------
(* A part of a sequence replaced *)

\* Picking every place of a sequence gives the sequence.
LEMMA PickedAll ==
  ASSUME NEW n \in Nat, NEW s, DOMAIN s = 1 .. n, s = [i \in 1 .. n |-> s[i]]
  PROVE  PickedAt(s, 1 .. n) = s
<1> DEFINE Nth(k) == CHOOSE i \in 1 .. n : Cardinality({j \in 1 .. n : j <= i}) = k
<1>1. ASSUME NEW i \in 1 .. n PROVE Cardinality({j \in 1 .. n : j <= i}) = i
  <2>1. {j \in 1 .. n : j <= i} = 1 .. i
    OBVIOUS
  <2>2. Cardinality(1 .. i) = i
    BY FS_Interval
  <2> QED
    BY <2>1, <2>2
<1>2. \A k \in 1 .. n : Nth(k) = k
  BY <1>1
<1>3. Cardinality(1 .. n) = n
  BY FS_Interval
<1>4. PickedAt(s, 1 .. n) = [k \in 1 .. n |-> s[Nth(k)]]
  BY <1>3 DEF PickedAt
<1> HIDE DEF Nth
<1> QED
  BY <1>2, <1>4

\* Edits replace a part of the file, which may be empty.
EditShape(edit, n) ==
  /\ edit.lo \in 1 .. n + 1 /\ edit.hi \in edit.lo - 1 .. n
  /\ edit.swallow \in Nat /\ edit.hi + edit.swallow <= n
  /\ edit.new \in Seq(Item)

\* r is s with the part that the edit replaces replaced by t.
Spliced(r, s, t, edit) ==
  LET k == Len(t)
      lo == edit.lo
      a == edit.hi + edit.swallow + 1
  IN /\ Len(r) = lo + k + Len(s) - a
     /\ \A i \in 1 .. Len(r) :
          /\ i < lo => i \in 1 .. Len(s) /\ r[i] = s[i]
          /\ i >= lo /\ i < lo + k => i - lo + 1 \in 1 .. k /\ r[i] = t[i - lo + 1]
          /\ i >= lo + k => i - lo - k + a \in a .. Len(s) /\ r[i] = s[i - lo - k + a]

\* What stands where after an edit: entries before it, new ones, entries after it.
LEMMA Splice ==
  ASSUME NEW X, NEW s \in Seq(X), NEW t \in Seq(X), NEW edit, EditShape(edit, Len(s))
  PROVE  /\ Before(s, edit) \o t \o After(s, edit) \in Seq(X)
         /\ Spliced(Before(s, edit) \o t \o After(s, edit), s, t, edit)
<1> DEFINE lo == edit.lo
           a == edit.hi + edit.swallow + 1
           b == SubSeq(s, 1, lo - 1)
           c == SubSeq(s, a, Len(s))
           bt == b \o t
           k == Len(t)
           r == bt \o c
<1>0. /\ k \in Nat /\ Len(s) \in Nat
      /\ lo \in Nat /\ a \in Nat /\ lo >= 1 /\ lo <= a /\ a <= Len(s) + 1
  BY DEF EditShape
<1> HIDE DEF lo, a
<1>1. /\ b \in Seq(X) /\ Len(b) = lo - 1
      /\ \A i \in 1 .. lo - 1 : b[i] = s[i]
  BY <1>0, SubSeqProperties
<1>2. /\ c \in Seq(X) /\ Len(c) = Len(s) - a + 1
      /\ \A i \in 1 .. Len(s) - a + 1 : c[i] = s[a + i - 1]
  BY <1>0, SubSeqProperties
<1> HIDE DEF b, c
<1>3. /\ bt \in Seq(X) /\ Len(bt) = lo - 1 + k
      /\ \A i \in 1 .. lo - 1 + k : bt[i] = IF i <= lo - 1 THEN b[i] ELSE t[i - (lo - 1)]
  <2>1. /\ bt \in Seq(X) /\ Len(bt) = Len(b) + Len(t)
        /\ \A i \in 1 .. Len(b) + Len(t) : bt[i] = IF i <= Len(b) THEN b[i] ELSE t[i - Len(b)]
    BY <1>1, ConcatProperties
  <2> HIDE DEF bt
  <2>2. Len(b) = lo - 1 /\ Len(t) = k
    BY <1>1
  <2> QED
    BY <2>1, <2>2
<1> HIDE DEF bt, k
<1>4. /\ r \in Seq(X) /\ Len(r) = lo - 1 + k + (Len(s) - a + 1)
      /\ \A i \in 1 .. Len(r) : r[i] = IF i <= lo - 1 + k THEN bt[i] ELSE c[i - (lo - 1 + k)]
  <2>1. /\ r \in Seq(X) /\ Len(r) = Len(bt) + Len(c)
        /\ \A i \in 1 .. Len(bt) + Len(c) : r[i] = IF i <= Len(bt) THEN bt[i] ELSE c[i - Len(bt)]
    BY <1>2, <1>3, ConcatProperties
  <2> HIDE DEF r
  <2> QED
    BY <2>1, <1>2, <1>3
<1> HIDE DEF r
<1>5. ASSUME NEW i \in 1 .. Len(r)
      PROVE  /\ i < lo => i \in 1 .. Len(s) /\ r[i] = s[i]
             /\ i >= lo /\ i < lo + k => i - lo + 1 \in 1 .. k /\ r[i] = t[i - lo + 1]
             /\ i >= lo + k => i - lo - k + a \in a .. Len(s) /\ r[i] = s[i - lo - k + a]
  <2>1. i \in Nat /\ i >= 1 /\ i <= lo - 1 + k + (Len(s) - a + 1)
    BY <1>0, <1>4
  <2>2. CASE i < lo
    <3>1. i \in 1 .. lo - 1 /\ i \in 1 .. lo - 1 + k /\ i <= lo - 1 + k
      BY <2>1, <2>2, <1>0
    <3>2. r[i] = bt[i] /\ bt[i] = b[i] /\ b[i] = s[i]
      BY <3>1, <1>1, <1>3, <1>4
    <3> QED
      BY <3>1, <3>2, <2>2, <1>0
  <2>3. CASE i >= lo /\ i < lo + k
    <3>1. /\ i - (lo - 1) = i - lo + 1 /\ i \in 1 .. lo - 1 + k
          /\ ~ (i <= lo - 1) /\ i <= lo - 1 + k
      BY <2>1, <2>3, <1>0
    <3>2. r[i] = bt[i] /\ bt[i] = t[i - (lo - 1)]
      BY <3>1, <2>3, <1>3, <1>4
    <3> QED
      BY <3>1, <3>2, <2>1, <2>3, <1>0
  <2>4. CASE i >= lo + k
    <3> DEFINE l == i - (lo - 1 + k)
    <3>1. l \in 1 .. Len(s) - a + 1 /\ a + l - 1 = i - lo - k + a
      BY <2>1, <2>4, <1>0
    <3>2. r[i] = c[l]
      <4>1. ~ (i <= lo - 1 + k)
        BY <2>1, <2>4, <1>0
      <4> QED
        BY <4>1, <1>4
    <3> HIDE DEF l
    <3>3. c[l] = s[a + l - 1]
      BY <3>1, <1>2
    <3> QED
      BY <2>1, <2>4, <3>1, <3>2, <3>3, <1>0
  <2> QED
    BY <2>2, <2>3, <2>4
<1>6. r = Before(s, edit) \o t \o After(s, edit) /\ k = Len(t) /\ lo = edit.lo
      /\ a = edit.hi + edit.swallow + 1
  BY DEF r, bt, b, c, k, lo, a, Before, After
<1>7. Len(r) = lo + k + Len(s) - a
  BY <1>0, <1>4
<1> HIDE DEF r, k, lo, a
<1>8. Spliced(r, s, t, edit)
  BY <1>5, <1>6, <1>7 DEF Spliced
<1> QED
  BY <1>4, <1>6, <1>8

----------------------------------------------------------------------------
(* A targeted update *)

\* Deleting ids that no node has leaves a tree as it is.
LEMMA WithoutNothing ==
  ASSUME NEW t \in Seq(Entry), \A i \in DOMAIN t : WellMade(t[i]),
         NEW removed, Ids(t) \cap removed = {}
  PROVE  Without(t, removed) = t
<1> DEFINE stay(e) == {j \in DOMAIN e.ids : e.ids[j] \notin removed}
           Left(e) == [e EXCEPT !.ids = PickedAt(@, stay(e)), !.item.methods = PickedAt(@, stay(e))]
           alive == {i \in DOMAIN t : t[i].id \notin removed}
           live == PickedAt(t, alive)
<1>1. \A i \in DOMAIN t : \A x \in IdsOf(t[i]) : x \notin removed
  BY DEF Ids
<1>2. alive = 1 .. Len(t) /\ DOMAIN t = 1 .. Len(t)
  BY <1>1 DEF IdsOf
<1>3. live = t
  <2>1. t = [i \in 1 .. Len(t) |-> t[i]] /\ Len(t) \in Nat
    OBVIOUS
  <2> HIDE DEF alive
  <2>2. PickedAt(t, 1 .. Len(t)) = t
    BY <2>1, <1>2, PickedAll
  <2> QED
    BY <2>2, <1>2
<1>4. ASSUME NEW i \in DOMAIN t PROVE Left(t[i]) = t[i]
  <2> DEFINE e == t[i]
             n == Len(e.ids)
  <2>1. /\ e = [item |-> e.item, id |-> e.id, ids |-> e.ids]
        /\ e.ids \in Seq(Nat) /\ n \in Nat /\ DOMAIN e.ids = 1 .. n
        /\ e.item = [kind |-> e.item.kind, name |-> e.item.name, calls |-> e.item.calls,
                     methods |-> e.item.methods]
        /\ e.item.methods \in Seq(Method) /\ Len(e.item.methods) = n
    BY DEF WellMade, Entry, Item
  <2>2. stay(e) = 1 .. n
    BY <1>1, <2>1 DEF IdsOf, Range
  <2>3. /\ e.ids = [j \in 1 .. n |-> e.ids[j]] /\ DOMAIN e.item.methods = 1 .. n
        /\ e.item.methods = [j \in 1 .. n |-> e.item.methods[j]]
    BY <2>1
  <2> HIDE DEF e, n, stay
  <2>4. PickedAt(e.ids, 1 .. n) = e.ids
    BY <2>1, <2>3, PickedAll
  <2>5. PickedAt(e.item.methods, 1 .. n) = e.item.methods
    BY <2>1, <2>3, PickedAll
  <2>6. Left(e) = [e EXCEPT !.ids = e.ids, !.item.methods = e.item.methods]
    BY <2>2, <2>4, <2>5
  <2> HIDE DEF Left
  <2>7. [e.item EXCEPT !.methods = e.item.methods] = e.item
    BY <2>1
  <2>8. [e EXCEPT !.ids = e.ids] = e
    BY <2>1
  <2>9. [e EXCEPT !.ids = e.ids, !.item.methods = e.item.methods] = e
    BY <2>1, <2>7, <2>8
  <2> QED
    BY <2>6, <2>9 DEF e
<1>5. Without(t, removed) = [i \in DOMAIN live |-> Left(live[i])]
  BY DEF Without
<1> HIDE DEF live, Left
<1>6. Without(t, removed) = [i \in DOMAIN t |-> t[i]]
  BY <1>3, <1>4, <1>5
<1> QED
  BY <1>6

\* Editing the tree and editing the text give the same items.
LEMMA AppliedItems ==
  ASSUME NEW ast \in Seq(Entry), NEW new \in Seq(Entry), NEW edit, EditShape(edit, Len(ast)),
         Items(new) = edit.new
  PROVE  Items(Before(ast, edit) \o new \o After(ast, edit)) = Applied(Items(ast), edit)
<1> DEFINE n == Len(ast)
           k == Len(new)
           lo == edit.lo
           a == edit.hi + edit.swallow + 1
           t == Before(ast, edit) \o new \o After(ast, edit)
           u == Applied(Items(ast), edit)
<1>1. lo \in 1 .. n + 1 /\ a \in lo .. n + 1
  BY DEF EditShape
<1>2. /\ Items(ast) \in Seq(Item) /\ Len(Items(ast)) = n
      /\ \A i \in 1 .. n : Items(ast)[i] = ast[i].item
  <2>1. ASSUME NEW i \in 1 .. n PROVE ast[i].item \in Item
    <3>1. ast[i] \in Entry
      OBVIOUS
    <3> QED
      BY <3>1 DEF Entry
  <2> QED
    BY <2>1 DEF Items
<1>3. edit.new \in Seq(Item) /\ Len(edit.new) = k /\ \A i \in 1 .. k : edit.new[i] = new[i].item
  <2>1. DOMAIN new = 1 .. k /\ k \in Nat
    OBVIOUS
  <2> HIDE DEF k
  <2>2. edit.new = [i \in 1 .. k |-> new[i].item]
    BY <2>1 DEF Items
  <2>3. edit.new \in Seq(Item)
    BY DEF EditShape
  <2> QED
    BY <2>1, <2>2, <2>3
<1>4. /\ t \in Seq(Entry) /\ Len(t) = lo + k + n - a
      /\ \A i \in 1 .. Len(t) :
           /\ i < lo => i \in 1 .. n /\ t[i] = ast[i]
           /\ i >= lo /\ i < lo + k => i - lo + 1 \in 1 .. k /\ t[i] = new[i - lo + 1]
           /\ i >= lo + k => i - lo - k + a \in a .. n /\ t[i] = ast[i - lo - k + a]
  <2>1. t \in Seq(Entry) /\ Spliced(t, ast, new, edit)
    BY Splice
  <2> HIDE DEF t
  <2> QED
    BY <2>1 DEF Spliced
<1>5. /\ u \in Seq(Item) /\ Len(u) = lo + k + n - a
      /\ \A i \in 1 .. Len(u) :
           /\ i < lo => i \in 1 .. n /\ u[i] = Items(ast)[i]
           /\ i >= lo /\ i < lo + k => i - lo + 1 \in 1 .. k /\ u[i] = edit.new[i - lo + 1]
           /\ i >= lo + k => i - lo - k + a \in a .. n /\ u[i] = Items(ast)[i - lo - k + a]
  <2>1. u = Before(Items(ast), edit) \o edit.new \o After(Items(ast), edit)
    BY DEF Applied
  <2> HIDE DEF u
  <2>2. EditShape(edit, Len(Items(ast)))
    BY <1>2
  <2>3. u \in Seq(Item) /\ Spliced(u, Items(ast), edit.new, edit)
    BY <2>1, <2>2, <1>2, <1>3, Splice
  <2> QED
    BY <2>3, <1>2, <1>3 DEF Spliced
<1> HIDE DEF t, u, n, k, a, lo
<1>6. n \in Nat /\ k \in Nat /\ lo \in Nat /\ a \in Nat /\ lo >= 1 /\ lo <= a /\ a <= n + 1
  BY <1>1 DEF n, k
<1>7. ASSUME NEW i \in 1 .. Len(t) PROVE u[i] = t[i].item
  <2>1. i \in Nat /\ i \in 1 .. Len(u)
    BY <1>4, <1>5, <1>6
  <2>2. CASE i < lo
    BY <2>1, <2>2, <1>2, <1>4, <1>5
  <2>3. CASE i >= lo /\ i < lo + k
    BY <2>1, <2>3, <1>3, <1>4, <1>5
  <2>4. CASE i >= lo + k
    <3> DEFINE l == i - lo - k + a
    <3>1. l \in a .. n /\ u[i] = Items(ast)[l] /\ t[i] = ast[l]
      BY <2>1, <2>4, <1>4, <1>5
    <3> HIDE DEF l
    <3>2. l \in 1 .. n
      BY <3>1, <1>6
    <3> QED
      BY <3>1, <3>2, <1>2
  <2> QED
    BY <2>1, <2>2, <2>3, <2>4, <1>6
<1>8. Items(t) = [i \in 1 .. Len(t) |-> u[i]]
  BY <1>4, <1>7 DEF Items
<1>9. u = [i \in 1 .. Len(t) |-> u[i]]
  BY <1>4, <1>5
<1> QED
  BY <1>8, <1>9 DEF t, u

\* The methods of an entry have different ids.
LEMMA OwnMeaning ==
  ASSUME NEW e, WellMade(e)
  PROVE  SameMeaning(e, e)
<1> SUFFICES ASSUME NEW m \in ToSet(MethodsOf(e)), NEW f \in ToSet(MethodsOf(e)), m.id = f.id
             PROVE  m.item = f.item
  BY DEF SameMeaning
<1>1. CASE e.item.kind = "function"
  BY <1>1 DEF MethodsOf, ToSet
<1>2. CASE e.item.kind # "function"
  <2>1. PICK i \in DOMAIN e.ids : m = [id |-> e.ids[i], item |-> e.item.methods[i]]
    BY <1>2 DEF MethodsOf, ToSet
  <2>2. PICK j \in DOMAIN e.ids : f = [id |-> e.ids[j], item |-> e.item.methods[j]]
    BY <1>2 DEF MethodsOf, ToSet
  <2>3. i = j
    BY <2>1, <2>2 DEF WellMade, IsInjective
  <2> QED
    BY <2>1, <2>2, <2>3
<1> QED
  BY <1>1, <1>2

\* What a targeted update makes of a tree.
IsTargeted(r, ast, next, gone, edit) ==
  /\ GoodTree(r.ast, r.next, gone \cup r.removed)
  /\ Stable(ast, r.ast, next)
  /\ Items(r.ast) = Applied(Items(ast), edit)
  /\ r.next >= next
  /\ r.fresh \in Seq(Entry) /\ Items(r.fresh) = edit.new
  /\ Spliced(r.ast, ast, r.fresh, edit)

\* A targeted update deletes no node it kept, and makes the tree of the edited file.
LEMMA TargetedTree ==
  ASSUME NEW ast, NEW next, NEW gone, GoodTree(ast, next, gone),
         NEW edit, EditShape(edit, Len(ast)), \A k \in DOMAIN edit.new : OwnNames(edit.new[k])
  PROVE  IsTargeted(Targeted(ast, edit, next, gone), ast, next, gone, edit)
<1> DEFINE n == Len(ast)
           lo == edit.lo
           a == edit.hi + edit.swallow + 1
           new == Replaced(ast, edit, next, gone)
           k == Len(new.ast)
           removed == RemovedIds(ast, edit, new)
           t == Before(ast, edit) \o new.ast \o After(ast, edit)
           r == Targeted(ast, edit, next, gone)
<1>1. /\ ast \in Seq(Entry) /\ n \in Nat /\ DOMAIN ast = 1 .. n
      /\ next \in Nat /\ gone \in SUBSET Nat
      /\ \A g \in gone : g < next
  BY DEF GoodTree
<1>2. /\ \A u \in DOMAIN ast : /\ WellMade(ast[u])
                               /\ \A x \in IdsOf(ast[u]) : x \in Nat /\ x < next /\ x \notin gone
      /\ \A u, v \in DOMAIN ast : u # v => IdsOf(ast[u]) \cap IdsOf(ast[v]) = {}
  BY OldEntries
<1>3. /\ Partial(new.ast, edit.new, Len(edit.new), ast, new.consumed, next, new.next)
      /\ Dropped(new.ast, ast, new.consumed, new.gone)
      /\ new.consumed \in SUBSET Overlapped(edit)
  <2>1. edit.lo \in Nat /\ edit.hi \in Nat /\ edit.lo >= 1 /\ edit.hi <= Len(ast) /\ edit.new \in Seq(Item)
    BY <1>1 DEF EditShape
  <2> HIDE DEF new
  <2> QED
    BY <2>1, ReplaceFacts DEF new
<1> HIDE DEF new
<1>4. /\ new.ast \in Seq(Entry) /\ k = Len(edit.new) /\ k \in Nat /\ DOMAIN new.ast = 1 .. k
      /\ new.next \in Nat /\ next <= new.next /\ Disjoint(new.ast)
  BY <1>3 DEF Partial
<1>5. \A j \in 1 .. k : /\ WellMade(new.ast[j])
                        /\ \A x \in IdsOf(new.ast[j]) :
                             x \in next .. new.next - 1 \/ \E u \in new.consumed : x \in IdsOf(ast[u])
                        /\ IdsOf(new.ast[j]) \cap new.gone = {}
                        /\ \A u \in DOMAIN ast : SameMeaning(ast[u], new.ast[j])
  BY <1>3, <1>4 DEF Partial, Dropped
<1>6. lo \in Nat /\ a \in Nat /\ lo >= 1 /\ lo <= a /\ a <= n + 1
  BY <1>1 DEF EditShape
<1>60. /\ \A u \in Overlapped(edit) : u \in DOMAIN ast /\ u >= lo /\ u < a
       /\ DOMAIN ast \ Kept(ast, edit) = lo .. a - 1
  BY <1>1 DEF EditShape, Overlapped, Kept
<1>70. t \in Seq(Entry) /\ Spliced(t, ast, new.ast, edit)
  BY <1>1, <1>4, Splice
<1>7. /\ t \in Seq(Entry) /\ Len(t) = lo + k + n - a
      /\ \A i \in 1 .. Len(t) :
           /\ i < lo => i \in 1 .. n /\ t[i] = ast[i]
           /\ i >= lo /\ i < lo + k => i - lo + 1 \in 1 .. k /\ t[i] = new.ast[i - lo + 1]
           /\ i >= lo + k => i - lo - k + a \in a .. n /\ t[i] = ast[i - lo - k + a]
  <2>1. t \in Seq(Entry) /\ Spliced(t, ast, new.ast, edit)
    BY <1>70
  <2> HIDE DEF t
  <2> QED
    BY <2>1 DEF Spliced
<1>80. Items(new.ast) = edit.new
  <2>1. {} \subseteq Ids(ast) \ Ids(new.ast) /\ edit.new \in Seq(Item)
    BY DEF EditShape
  <2> QED
    BY <2>1, <1>3, PartialTree
<1>8. Items(t) = Applied(Items(ast), edit)
  BY <1>80, <1>1, <1>4, AppliedItems
<1> DEFINE isNew(i) == i >= lo /\ i < lo + k
           from(i) == IF i < lo THEN i ELSE i - lo - k + a
<1> HIDE DEF t, n, k, a, lo
<1>9. ASSUME NEW i \in 1 .. Len(t), ~ isNew(i)
      PROVE  from(i) \in DOMAIN ast /\ (from(i) < lo \/ from(i) >= a) /\ t[i] = ast[from(i)]
  <2>1. i \in Nat
    OBVIOUS
  <2>2. CASE i < lo
    BY <2>1, <2>2, <1>1, <1>6, <1>7
  <2>3. CASE i >= lo + k
    <3>4. k \in Nat
      BY <1>4
    <3>1. ~ (i < lo)
      BY <2>1, <2>3, <3>4, <1>6
    <3>3. from(i) = i - lo - k + a
      BY <3>1
    <3>2. from(i) \in a .. n /\ t[i] = ast[from(i)]
      BY <3>3, <2>3, <1>7
    <3> HIDE DEF from
    <3> QED
      BY <3>2, <1>1, <1>6
  <2> QED
    BY <2>1, <2>2, <2>3, <1>4, <1>6, <1>9
<1>10. ASSUME NEW i \in 1 .. Len(t), isNew(i)
       PROVE  i - lo + 1 \in 1 .. k /\ t[i] = new.ast[i - lo + 1]
  BY <1>7, <1>10
<1>11. ASSUME NEW i \in 1 .. Len(t), NEW j \in 1 .. Len(t), i # j
       PROVE  /\ ~ isNew(i) /\ ~ isNew(j) => from(i) # from(j)
              /\ isNew(i) /\ isNew(j) => i - lo + 1 # j - lo + 1
  <2>1. i \in Nat /\ j \in Nat
    OBVIOUS
  <2>2. ASSUME ~ isNew(i), ~ isNew(j) PROVE from(i) # from(j)
    <3>1. k \in Nat
      BY <1>4
    <3>2. i < lo \/ i >= lo + k
      BY <2>1, <2>2, <3>1, <1>6
    <3>3. j < lo \/ j >= lo + k
      BY <2>1, <2>2, <3>1, <1>6
    <3>4. (i < lo => from(i) = i) /\ (i >= lo => from(i) = i - lo - k + a)
      BY <2>1, <1>6
    <3>5. (j < lo => from(j) = j) /\ (j >= lo => from(j) = j - lo - k + a)
      BY <2>1, <1>6
    <3> HIDE DEF from
    <3> QED
      BY <2>1, <3>1, <3>2, <3>3, <3>4, <3>5, <1>6, <1>11
  <2>3. i - lo + 1 # j - lo + 1
    BY <2>1, <1>6, <1>11
  <2> QED
    BY <2>2, <2>3
<1> HIDE DEF isNew, from, removed
<1>12. ASSUME NEW j \in 1 .. k, NEW x \in IdsOf(new.ast[j]), NEW u \in DOMAIN ast, x \in IdsOf(ast[u])
       PROVE  u \in new.consumed /\ u >= lo /\ u < a
  <2>1. x \in Nat /\ x < next
    BY <1>2, <1>12
  <2>2. PICK v \in new.consumed : x \in IdsOf(ast[v])
    BY <2>1, <1>1, <1>4, <1>5
  <2>3. v \in DOMAIN ast /\ v >= lo /\ v < a
    BY <1>3, <1>6, <1>60
  <2> QED
    BY <2>2, <2>3, <1>2, <1>12
<1> DEFINE Loses(u, x) == /\ u >= lo /\ u < a /\ x \in IdsOf(ast[u])
                          /\ u \in new.consumed => x \in new.gone
<1>13. ASSUME NEW x \in removed PROVE \E u \in DOMAIN ast : Loses(u, x)
  <2>1. CASE x \in new.gone
    <3>1. PICK u \in new.consumed : x \in IdsOf(ast[u])
      BY <2>1, <1>3 DEF Dropped
    <3> QED
      BY <2>1, <3>1, <1>3, <1>6, <1>60
  <2>2. CASE x \notin new.gone
    <3>1. PICK u \in DOMAIN ast \ (Kept(ast, edit) \cup new.consumed) : x \in IdsOf(ast[u])
      BY <2>2, <1>13 DEF RemovedIds, removed
    <3>2. u \in lo .. a - 1
      BY <3>1, <1>6, <1>60
    <3>3. u >= lo /\ u < a
      BY <3>2, <1>6, <1>60
    <3> QED
      BY <3>1, <3>3
  <2> QED
    BY <2>1, <2>2
<1> HIDE DEF Loses
<1>14. ASSUME NEW i \in 1 .. Len(t), NEW x \in IdsOf(t[i]), x \in removed PROVE FALSE
  <2>0. PICK u \in DOMAIN ast : Loses(u, x)
    BY <1>13, <1>14
  <2>1. /\ u >= lo /\ u < a /\ x \in IdsOf(ast[u])
        /\ u \in new.consumed => x \in new.gone
    BY <2>0 DEF Loses
  <2>2. CASE isNew(i)
    <3>1. u \in new.consumed
      BY <2>1, <2>2, <1>10, <1>12
    <3> QED
      BY <2>1, <2>2, <3>1, <1>5, <1>10
  <2>3. CASE ~ isNew(i)
    <3>1. from(i) \in DOMAIN ast /\ (from(i) < lo \/ from(i) >= a) /\ x \in IdsOf(ast[from(i)])
      BY <2>3, <1>9
    <3>2. u = from(i)
      BY <2>1, <3>1, <1>2
    <3> QED
      BY <2>1, <3>1, <3>2, <1>1, <1>6, <1>60
  <2> QED
    BY <2>2, <2>3
<1>15. DOMAIN t = 1 .. Len(t) /\ \A i \in DOMAIN t : WellMade(t[i])
  <2>1. DOMAIN t = 1 .. Len(t)
    BY <1>7
  <2>2. ASSUME NEW i \in 1 .. Len(t) PROVE WellMade(t[i])
    BY <1>2, <1>5, <1>9, <1>10
  <2> QED
    BY <2>1, <2>2
<1>16. Disjoint(t)
  <2> SUFFICES ASSUME NEW i \in 1 .. Len(t), NEW j \in 1 .. Len(t), i # j,
                      NEW x \in IdsOf(t[i]), x \in IdsOf(t[j])
               PROVE  FALSE
    BY <1>15 DEF Disjoint
  <2>1. CASE isNew(i) /\ isNew(j)
    <3>1. i - lo + 1 \in DOMAIN new.ast /\ j - lo + 1 \in DOMAIN new.ast /\ i - lo + 1 # j - lo + 1
      BY <2>1, <1>4, <1>10, <1>11
    <3> QED
      BY <2>1, <3>1, <1>4, <1>10 DEF Disjoint
  <2>2. CASE ~ isNew(i) /\ ~ isNew(j)
    <3>1. from(i) \in DOMAIN ast /\ from(j) \in DOMAIN ast /\ from(i) # from(j)
      BY <2>2, <1>9, <1>11
    <3> QED
      BY <2>2, <3>1, <1>2, <1>9
  <2>3. ASSUME NEW v \in 1 .. Len(t), NEW w \in 1 .. Len(t), isNew(v), ~ isNew(w),
               x \in IdsOf(t[v]), x \in IdsOf(t[w])
        PROVE  FALSE
    <3>1. from(w) \in DOMAIN ast /\ (from(w) < lo \/ from(w) >= a) /\ x \in IdsOf(ast[from(w)])
      BY <2>3, <1>9
    <3>2. v - lo + 1 \in 1 .. k /\ x \in IdsOf(new.ast[v - lo + 1])
      BY <2>3, <1>10
    <3>3. from(w) >= lo /\ from(w) < a
      BY <3>1, <3>2, <1>12
    <3> QED
      BY <3>1, <3>3, <1>1, <1>6, <1>60
  <2> QED
    BY <2>1, <2>2, <2>3
<1>17. ASSUME NEW x \in Ids(t)
       PROVE  /\ x \in Nat /\ x < new.next /\ x \notin gone /\ x \notin removed
              /\ x \in Ids(ast) \/ x >= next
  <2>1. PICK i \in 1 .. Len(t) : x \in IdsOf(t[i])
    BY <1>15 DEF Ids
  <2>2. x \notin removed
    BY <2>1, <1>14
  <2>3. ASSUME NEW u \in DOMAIN ast, x \in IdsOf(ast[u])
        PROVE  x \in Nat /\ x < new.next /\ x \notin gone /\ x \in Ids(ast)
    <3>1. x \in Nat /\ x < next /\ x \notin gone
      BY <2>3, <1>2
    <3> QED
      BY <2>3, <3>1, <1>1, <1>4 DEF Ids
  <2>4. CASE ~ isNew(i)
    BY <2>1, <2>2, <2>3, <2>4, <1>9
  <2>5. CASE isNew(i)
    <3>1. x \in next .. new.next - 1 \/ \E u \in new.consumed : x \in IdsOf(ast[u])
      BY <2>1, <2>5, <1>5, <1>10
    <3>2. CASE x \in next .. new.next - 1
      <4>1. x \in Nat /\ x >= next /\ x < new.next
        BY <3>2, <1>1, <1>4
      <4> QED
        BY <4>1, <2>2, <1>1
    <3>3. ASSUME NEW u \in new.consumed, x \in IdsOf(ast[u]) PROVE u \in DOMAIN ast
      BY <1>3, <1>6, <1>60
    <3> QED
      BY <3>1, <3>2, <3>3, <2>2, <2>3
  <2> QED
    BY <2>4, <2>5
<1>18. \A g \in gone \cup removed : g \in Nat /\ g < new.next
  <2>1. ASSUME NEW g \in removed PROVE g \in Nat /\ g < next
    <3>1. PICK u \in DOMAIN ast : Loses(u, g)
      BY <1>13
    <3> QED
      BY <3>1, <1>2 DEF Loses
  <2>2. ASSUME NEW g \in gone PROVE g \in Nat /\ g < next
    BY <1>1
  <2> QED
    BY <2>1, <2>2, <1>1, <1>4
<1>19. GoodTree(t, new.next, gone \cup removed)
  <2>1. gone \cup removed \in SUBSET Nat /\ \A g \in gone \cup removed : g < new.next
    BY <1>18
  <2>2. \A x \in Ids(t) : x < new.next /\ x \notin gone \cup removed
    BY <1>17
  <2> QED
    BY <2>1, <2>2, <1>4, <1>7, <1>15, <1>16 DEF GoodTree
<1>20. Stable(ast, t, next)
  <2>1. ASSUME NEW m \in Methods(ast), NEW f \in Methods(t), m.id = f.id PROVE m.item = f.item
    <3>1. PICK u \in DOMAIN ast : m \in ToSet(MethodsOf(ast[u]))
      BY DEF Methods
    <3>2. PICK i \in 1 .. Len(t) : f \in ToSet(MethodsOf(t[i]))
      BY <1>15 DEF Methods
    <3>3. CASE isNew(i)
      BY <3>1, <3>2, <3>3, <2>1, <1>5, <1>10 DEF SameMeaning
    <3>4. CASE ~ isNew(i)
      <4>1. from(i) \in DOMAIN ast /\ t[i] = ast[from(i)]
        BY <3>4, <1>9
      <4>2. m.id \in IdsOf(ast[u]) /\ f.id \in IdsOf(ast[from(i)])
        BY <3>1, <3>2, <4>1, <1>2, IdsAreNat
      <4>3. u = from(i)
        BY <4>1, <4>2, <2>1, <1>2
      <4> QED
        BY <3>1, <3>2, <4>1, <4>3, <2>1, <1>2, OwnMeaning DEF SameMeaning
    <3> QED
      BY <3>3, <3>4
  <2> QED
    BY <2>1, <1>17 DEF Stable
<1>21. r.ast = t /\ r.next = new.next /\ r.removed = removed /\ r.fresh = new.ast
  <2>1. Ids(t) \cap removed = {}
    BY <1>17
  <2>2. Without(t, removed) = t
    BY <2>1, <1>7, <1>15, WithoutNothing
  <2> QED
    BY <2>2 DEF Targeted, t, removed, new
<1> HIDE DEF r
<1>22. r.next >= next
  BY <1>1, <1>4, <1>21
<1> QED
  BY <1>4, <1>8, <1>80, <1>70, <1>19, <1>20, <1>21, <1>22 DEF r, IsTargeted

----------------------------------------------------------------------------
(* The operations *)

\* The largest id of a tree, for compact_deleted_ids and init_from_cache.
LEMMA Largest ==
  ASSUME NEW ast, NEW next, NEW gone, GoodTree(ast, next, gone)
  PROVE  /\ Max0(Ids(ast)) \in Nat
         /\ \A x \in Ids(ast) : x <= Max0(Ids(ast))
         /\ Ids(ast) = {} => Max0(Ids(ast)) = 0
         /\ Ids(ast) # {} => Max0(Ids(ast)) < next
<1> DEFINE S == Ids(ast)
           top == CHOOSE x \in S : \A y \in S : y <= x
<1>1. next \in Nat /\ \A x \in S : x \in Nat /\ x < next
  <2>1. ASSUME NEW x \in S PROVE x \in Nat
    <3>1. PICK i \in DOMAIN ast : x \in IdsOf(ast[i])
      BY DEF Ids
    <3> QED
      BY <3>1, OldEntries
  <2> QED
    BY <2>1 DEF GoodTree
<1> HIDE DEF S
<1>2. ASSUME S # {} PROVE \E x \in S : \A y \in S : y <= x
  <2>1. {next - x : x \in S} \in SUBSET Nat /\ {next - x : x \in S} # {}
    BY <1>1, <1>2
  <2>2. PICK m \in {next - x : x \in S} : \A k \in {next - x : x \in S} : m <= k
    BY <2>1, LeastExists
  <2>3. PICK x \in S : m = next - x
    OBVIOUS
  <2>4. ASSUME NEW y \in S PROVE y <= x
    <3>1. next - x <= next - y
      BY <2>2, <2>3
    <3> QED
      BY <3>1, <1>1
  <2> QED
    BY <2>4
<1>3. S # {} => top \in S /\ \A y \in S : y <= top
  BY <1>2
<1>4. Max0(S) = IF S = {} THEN 0 ELSE top
  BY DEF Max0
<1> HIDE DEF top
<1>5. /\ Max0(S) \in Nat
      /\ \A x \in S : x <= Max0(S)
      /\ S = {} => Max0(S) = 0
      /\ S # {} => Max0(S) < next
  BY <1>1, <1>3, <1>4
<1> QED
  BY <1>5 DEF S

\* A tree stays good when the next id rises and ids are no longer known as deleted.
LEMMA LaterIsGood ==
  ASSUME NEW ast, NEW next, NEW gone, GoodTree(ast, next, gone),
         NEW later \in Nat, later >= next, NEW fewer \in SUBSET gone
  PROVE  GoodTree(ast, later, fewer)
<1>1. next \in Nat /\ gone \in SUBSET Nat /\ \A g \in gone : g < next
  BY DEF GoodTree
<1>2. \A g \in fewer : g \in Nat /\ g < later
  BY <1>1
<1>3. ASSUME NEW x \in Ids(ast) PROVE x < later /\ x \notin fewer
  <2>1. PICK i \in DOMAIN ast : x \in IdsOf(ast[i])
    BY DEF Ids
  <2>2. x \in Nat
    BY <2>1, OldEntries
  <2> QED
    BY <2>2, <1>1 DEF GoodTree
<1> QED
  BY <1>2, <1>3 DEF GoodTree

\* Compaction keeps a tree good and never lowers the next id.
LEMMA CompactFacts ==
  ASSUME NEW ast, NEW next, NEW gone, GoodTree(ast, next, gone), Compact(ast, next, gone)
  PROVE  GoodTree(ast, nextId', deleted') /\ nextId' >= next
<1> DEFINE max == Max0(Ids(ast))
<1>1. next \in Nat /\ max \in Nat
  BY Largest DEF GoodTree
<1>2. deleted' \in SUBSET gone
  BY DEF Compact
<1>3. nextId' \in {next, max + 1} /\ (nextId' = max + 1 => nextId' = next \/ next <= max)
  BY DEF Compact
<1> HIDE DEF max
<1>4. nextId' \in Nat /\ nextId' >= next
  BY <1>1, <1>3
<1> QED
  BY <1>2, <1>4, LaterIsGood

\* The ids that init_from_cache derives from the tree alone are good for it.
LEMMA NextIdFacts ==
  ASSUME NEW ast, NEW next, NEW gone, GoodTree(ast, next, gone)
  PROVE  NextIdAfter(ast) \in Nat /\ GoodTree(ast, NextIdAfter(ast), {})
<1>1. Max0(Ids(ast)) \in Nat /\ \A x \in Ids(ast) : x <= Max0(Ids(ast))
  BY Largest
<1>2. NextIdAfter(ast) \in Nat
  BY <1>1 DEF NextIdAfter
<1>3. ASSUME NEW x \in Ids(ast) PROVE x < NextIdAfter(ast)
  <2>1. PICK i \in DOMAIN ast : x \in IdsOf(ast[i])
    BY DEF Ids
  <2>2. x \in Nat
    BY <2>1, OldEntries
  <2> QED
    BY <2>2, <1>1 DEF NextIdAfter
<1> QED
  BY <1>2, <1>3 DEF GoodTree

\* A step of an edit: what it does to the ids.
KeepsIds == nextId' >= nextId /\ Stable(cpg.ast, cpg'.ast, nextId)

\* In a file with distinct names the methods of an item have distinct names.
LEMMA OwnNamesOf ==
  ASSUME NEW file, DistinctNames(file)
  PROVE  \A k \in DOMAIN file : OwnNames(file[k])
BY DEF DistinctNames, OwnNames

\* A tree has as many entries as its file has items.
LEMMA ItemsLen ==
  ASSUME NEW ast \in Seq(Entry), NEW file \in Seq(Item), Items(ast) = file
  PROVE  Len(ast) = Len(file)
<1>1. DOMAIN Items(ast) = 1 .. Len(ast) /\ DOMAIN file = 1 .. Len(file)
  BY DEF Items
<1> QED
  BY <1>1

\* A parse makes a good CPG of its file.
LEMMA ParseFacts ==
  ASSUME NEW file \in Seq(Item), DistinctNames(file), ParseFull(file) \/ ParseLightweight(file)
  PROVE  GoodCpg(cpg', source', nextId', deleted') /\ Items(cpg'.ast) = file
<1> DEFINE raw == Fresh(file)
<1>1. GoodTree(raw.ast, raw.next, {}) /\ Items(raw.ast) = file
  BY OwnNamesOf, FreshTree
<1> HIDE DEF raw
<1>2. source' = file /\ nextId' = raw.next /\ deleted' = {}
  BY DEF ParseFull, ParseLightweight, raw
<1>3. "ast" \in DOMAIN cpg' /\ cpg'.ast = raw.ast
  <2>1. CASE ParseFull(file)
    <3>1. cpg' = FullCpg(raw.ast, raw.ast)
      BY <2>1 DEF ParseFull, raw
    <3> QED
      BY <3>1 DEF FullCpg
  <2>2. CASE ParseLightweight(file)
    <3>1. cpg' = LightCpg(raw.ast)
      BY <2>2 DEF ParseLightweight, raw
    <3> QED
      BY <3>1 DEF LightCpg
  <2> QED
    BY <2>1, <2>2
<1>4. Len(raw.ast) = Len(file)
  BY <1>1, ItemsLen DEF GoodTree
<1> QED
  BY <1>1, <1>2, <1>3, <1>4 DEF GoodCpg

\* So does a full rebuild, and no id changes its meaning.
LEMMA RebuildKeepsIds ==
  ASSUME GoodCpg(cpg, source, nextId, deleted),
         NEW file \in Seq(Item), DistinctNames(file), Rebuild(file), source' = file
  PROVE  GoodCpg(cpg', source', nextId', deleted') /\ KeepsIds /\ Items(cpg'.ast) = file
<1> DEFINE new == Rebuilt(cpg.ast, file, nextId, deleted)
<1>1. GoodTree(cpg.ast, nextId, deleted)
  BY DEF GoodCpg
<1>2. /\ GoodTree(new.ast, new.next, deleted \cup new.gone)
      /\ Stable(cpg.ast, new.ast, nextId)
      /\ Items(new.ast) = file
      /\ new.next >= nextId
  BY <1>1, OwnNamesOf, RebuiltTree
<1> HIDE DEF new
<1>3. cpg' = FullCpg(new.ast, Fresh(file).ast) /\ Compact(new.ast, new.next, deleted \cup new.gone)
  BY DEF Rebuild, new
<1>4. "ast" \in DOMAIN cpg' /\ cpg'.ast = new.ast
  BY <1>3 DEF FullCpg
<1>5. GoodTree(new.ast, nextId', deleted') /\ nextId' >= new.next
  BY <1>2, <1>3, CompactFacts
<1>6. Len(new.ast) = Len(file)
  BY <1>2, ItemsLen DEF GoodTree
<1>7. nextId' >= nextId
  BY <1>1, <1>2, <1>5 DEF GoodTree
<1> QED
  BY <1>2, <1>4, <1>5, <1>6, <1>7 DEF GoodCpg, KeepsIds

\* So does a targeted update, as far as its tree is that of the file.
LEMMA TargetedKeepsIds ==
  ASSUME GoodCpg(cpg, source, nextId, deleted),
         NEW edit, EditShape(edit, Len(cpg.ast)), \A k \in DOMAIN edit.new : OwnNames(edit.new[k]),
         TargetedUpdate(edit)
  PROVE  /\ "ast" \in DOMAIN cpg'
         /\ GoodTree(cpg'.ast, nextId', deleted')
         /\ Items(cpg'.ast) = Applied(Items(cpg.ast), edit)
         /\ KeepsIds
<1> DEFINE new == Targeted(cpg.ast, edit, nextId, deleted)
           later == IF new.next > NextIdAfter(new.ast) THEN new.next ELSE NextIdAfter(new.ast)
<1>1. GoodTree(cpg.ast, nextId, deleted)
  BY DEF GoodCpg
<1>2. /\ GoodTree(new.ast, new.next, deleted \cup new.removed)
      /\ Stable(cpg.ast, new.ast, nextId)
      /\ Items(new.ast) = Applied(Items(cpg.ast), edit)
      /\ new.next >= nextId
  <2>1. IsTargeted(new, cpg.ast, nextId, deleted, edit)
    BY <1>1, TargetedTree
  <2> QED
    BY <2>1 DEF IsTargeted
<1> HIDE DEF new
<1>3. "ast" \in DOMAIN cpg' /\ cpg'.ast = new.ast /\ Compact(new.ast, later, deleted \cup new.removed)
  <2>1. new = Targeted(cpg.ast, edit, nextId, deleted)
    BY DEF new
  <2> QED
    BY <2>1 DEF TargetedUpdate, UpdatedCpg
<1>4. later \in Nat /\ later >= new.next
  <2>1. new.next \in Nat /\ NextIdAfter(new.ast) \in Nat
    BY <1>2, NextIdFacts DEF GoodTree
  <2> QED
    BY <2>1
<1> HIDE DEF later
<1>5. GoodTree(new.ast, later, deleted \cup new.removed)
  BY <1>2, <1>4, LaterIsGood
<1>6. GoodTree(new.ast, nextId', deleted') /\ nextId' >= later
  BY <1>3, <1>5, CompactFacts
<1>7. nextId' >= nextId
  BY <1>1, <1>2, <1>4, <1>6 DEF GoodTree
<1> QED
  BY <1>2, <1>3, <1>6, <1>7 DEF KeepsIds

\* The items of a tree are the items of a file.
LEMMA ItemsAreItems ==
  ASSUME NEW ast \in Seq(Entry)
  PROVE  Items(ast) \in Seq(Item) /\ Len(Items(ast)) = Len(ast)
<1>1. ASSUME NEW i \in 1 .. Len(ast) PROVE ast[i].item \in Item
  <2>1. ast[i] \in Entry
    OBVIOUS
  <2> QED
    BY <2>1 DEF Entry
<1> QED
  BY <1>1 DEF Items

\* The text after an edit, whether or not the tree of the text before it is there.
LEMMA AppliedFacts ==
  ASSUME NEW file \in Seq(Item), NEW edit, EditShape(edit, Len(file))
  PROVE  /\ Applied(file, edit) \in Seq(Item)
         /\ Len(Applied(file, edit)) = edit.lo + Len(edit.new) + Len(file) - (edit.hi + edit.swallow + 1)
         /\ \A k \in 1 .. Len(edit.new) :
              /\ edit.lo + k - 1 \in DOMAIN Applied(file, edit)
              /\ Applied(file, edit)[edit.lo + k - 1] = edit.new[k]
<1> DEFINE r == Applied(file, edit)
           n == Len(file)
           m == Len(edit.new)
           lo == edit.lo
           a == edit.hi + edit.swallow + 1
<1>1. r \in Seq(Item) /\ Spliced(r, file, edit.new, edit)
  <2>1. edit.new \in Seq(Item)
    BY DEF EditShape
  <2> QED
    BY <2>1, Splice DEF Applied
<1>2. /\ n \in Nat /\ m \in Nat /\ lo \in Nat /\ a \in Nat
      /\ lo >= 1 /\ lo <= a /\ a <= n + 1
  BY DEF EditShape
<1> HIDE DEF r, n, m, lo, a
<1>3. /\ Len(r) = lo + m + n - a
      /\ \A i \in 1 .. Len(r) : i >= lo /\ i < lo + m => r[i] = edit.new[i - lo + 1]
  BY <1>1 DEF Spliced, n, m, lo, a
<1>4. ASSUME NEW k \in 1 .. m PROVE lo + k - 1 \in DOMAIN r /\ r[lo + k - 1] = edit.new[k]
  <2> DEFINE i == lo + k - 1
  <2>1. i \in 1 .. Len(r) /\ i >= lo /\ i < lo + m /\ i - lo + 1 = k
    BY <1>2, <1>3
  <2> HIDE DEF i
  <2>2. i \in DOMAIN r /\ r[i] = edit.new[k]
    BY <2>1, <1>1, <1>3
  <2> QED
    BY <2>2 DEF i
<1> QED
  BY <1>1, <1>3, <1>4 DEF r, n, m, lo, a

\* The edits of a file lie inside it and leave its names distinct.
LEMMA EditsHaveShape ==
  ASSUME NEW file \in Seq(Item), NEW edit \in Edits(file)
  PROVE  /\ EditShape(edit, Len(file))
         /\ DistinctNames(Applied(file, edit))
         /\ \A k \in DOMAIN edit.new : OwnNames(edit.new[k])
<1>1. EditShape(edit, Len(file)) /\ DistinctNames(Applied(file, edit))
  <2>1. /\ edit.lo \in 1 .. Len(file) + 1 /\ edit.swallow \in Nat /\ edit.new \in NewTexts
        /\ edit.hi \in edit.lo - 1 .. Len(file) /\ edit.hi + edit.swallow <= Len(file)
        /\ DistinctNames(Applied(file, edit))
    BY TextAssumption DEF Edits
  <2> QED
    BY <2>1, TextAssumption DEF EditShape
<1>2. ASSUME NEW k \in DOMAIN edit.new PROVE OwnNames(edit.new[k])
  <2>1. k \in 1 .. Len(edit.new)
    BY <1>1 DEF EditShape
  <2>2. edit.lo + k - 1 \in DOMAIN Applied(file, edit) /\ Applied(file, edit)[edit.lo + k - 1] = edit.new[k]
    BY <1>1, <2>1, AppliedFacts
  <2>3. \A i \in DOMAIN Applied(file, edit) : OwnNames(Applied(file, edit)[i])
    BY <1>1, OwnNamesOf
  <2> QED
    BY <2>2, <2>3
<1> QED
  BY <1>1, <1>2

\* An edit, targeted or not, keeps the CPG good.
LEMMA EditKeepsIds ==
  ASSUME GoodCpg(cpg, source, nextId, deleted), NEW edit \in Edits(source), ApplyEdit(edit)
  PROVE  GoodCpg(cpg', source', nextId', deleted') /\ KeepsIds
<1> DEFINE text == Applied(source, edit)
<1>1. source \in Seq(Item) /\ Len(cpg.ast) = Len(source) /\ cpg.ast \in Seq(Entry)
  BY DEF GoodCpg, GoodTree
<1>2. /\ EditShape(edit, Len(source)) /\ DistinctNames(text)
      /\ \A k \in DOMAIN edit.new : OwnNames(edit.new[k])
  BY <1>1, EditsHaveShape
<1>3. text \in Seq(Item)
  BY <1>1, <1>2, AppliedFacts
<1>4. source' = text /\ (Rebuild(text) \/ TargetedUpdate(edit))
  BY DEF ApplyEdit
<1>5. CASE Rebuild(text)
  BY <1>2, <1>3, <1>4, <1>5, RebuildKeepsIds
<1>6. CASE TargetedUpdate(edit)
  <2>1. /\ "ast" \in DOMAIN cpg'
        /\ GoodTree(cpg'.ast, nextId', deleted')
        /\ Items(cpg'.ast) = Applied(Items(cpg.ast), edit)
        /\ KeepsIds
    BY <1>1, <1>2, <1>6, TargetedKeepsIds
  <2>2. Items(cpg.ast) \in Seq(Item) /\ Len(Items(cpg.ast)) = Len(source)
    BY <1>1, ItemsAreItems
  <2>3. Applied(Items(cpg.ast), edit) \in Seq(Item) /\ Len(Applied(Items(cpg.ast), edit)) = Len(text)
    BY <1>1, <1>2, <2>2, AppliedFacts
  <2>4. Len(cpg'.ast) = Len(text)
    BY <2>1, <2>3, ItemsLen DEF GoodTree
  <2>5. ~ OpenEnded => Items(cpg'.ast) = text
    BY <2>1 DEF GoodCpg
  <2> QED
    BY <1>3, <1>4, <2>1, <2>4, <2>5 DEF GoodCpg
<1> QED
  BY <1>4, <1>5, <1>6

\* So does an edit at the end of a function without a closing token.
LEMMA ExtendKeepsIds ==
  ASSUME GoodCpg(cpg, source, nextId, deleted), OpenEnded,
         NEW i \in DOMAIN source, NEW item \in Item, Extend(i, item)
  PROVE  GoodCpg(cpg', source', nextId', deleted') /\ KeepsIds
<1> DEFINE edit == [lo |-> i + 1, hi |-> i, swallow |-> 0, new |-> <<>>]
           text == [source EXCEPT ![i] = item]
<1>1. source \in Seq(Item) /\ Len(cpg.ast) = Len(source) /\ cpg.ast \in Seq(Entry)
  BY DEF GoodCpg, GoodTree
<1>2. text \in Seq(Item) /\ Len(text) = Len(source)
  BY <1>1
<1>3. EditShape(edit, Len(source)) /\ \A k \in DOMAIN edit.new : OwnNames(edit.new[k])
  BY <1>1 DEF EditShape
<1>4. edit.lo = i + 1 /\ edit.hi + edit.swallow + 1 = i + 1 /\ Len(edit.new) = 0 /\ i \in Nat
  BY <1>1
<1>5. source' = text /\ TargetedUpdate(edit)
  BY DEF Extend
<1> HIDE DEF edit, text
<1>6. /\ "ast" \in DOMAIN cpg'
      /\ GoodTree(cpg'.ast, nextId', deleted')
      /\ Items(cpg'.ast) = Applied(Items(cpg.ast), edit)
      /\ KeepsIds
  BY <1>1, <1>3, <1>5, TargetedKeepsIds
<1>7. Items(cpg.ast) \in Seq(Item) /\ Len(Items(cpg.ast)) = Len(source)
  BY <1>1, ItemsAreItems
<1>8. Applied(Items(cpg.ast), edit) \in Seq(Item) /\ Len(Applied(Items(cpg.ast), edit)) = Len(source)
  BY <1>1, <1>3, <1>4, <1>7, AppliedFacts
<1>9. Len(cpg'.ast) = Len(source)
  BY <1>6, <1>8, ItemsLen DEF GoodTree
<1> QED
  BY <1>2, <1>5, <1>6, <1>9 DEF GoodCpg

\* Every operation keeps the invariant, and every edit the ids.
LEMMA IdsStep ==
  ASSUME IdsInv, [Next]_vars
  PROVE  IdsInv' /\ (edits' = edits + 1 => KeepsIds)
<1> DEFINE Saved == disk # None => GoodCpg(disk.cpg, disk.source, disk.nextId, disk.deleted)
           Held == cpg # None => GoodCpg(cpg, source, nextId, deleted)
<1>0. edits \in Nat /\ Saved /\ Held /\ edits + 1 # edits
  BY DEF IdsInv
<1>1. ASSUME NEW file \in Files, Open(file) \/ Reparse(file) PROVE IdsInv' /\ edits' = edits
  <2>1. file \in Seq(Item) /\ DistinctNames(file)
    BY TextAssumption
  <2>2. (ParseFull(file) \/ ParseLightweight(file)) /\ disk' = disk /\ edits' = edits
    BY <1>1 DEF Open, Reparse
  <2>3. GoodCpg(cpg', source', nextId', deleted')
    BY <2>1, <2>2, ParseFacts
  <2> QED
    BY <1>0, <2>2, <2>3 DEF IdsInv
<1>2. CASE Generate
  <2>1. PICK ids \in SUBSET MethodIds(cpg.ast) : GenerateFunctionCpg(ids)
    BY <1>2 DEF Generate
  <2>2. cpg # None /\ UNCHANGED <<source, nextId, deleted, disk, edits>>
    BY <1>2, <2>1 DEF Generate, GenerateFunctionCpg
  <2>3. GoodCpg(cpg, source, nextId, deleted)
    BY <1>0, <2>2
  <2>4. "ast" \in DOMAIN cpg' /\ cpg'.ast = cpg.ast
    BY <2>1, <2>3 DEF GenerateFunctionCpg, GoodCpg
  <2> QED
    BY <1>0, <2>2, <2>3, <2>4 DEF IdsInv, GoodCpg
<1>3. CASE Edit
  <2>1. PICK e \in Edits(source) : ApplyEdit(e)
    BY <1>3 DEF Edit
  <2>2. edits' = edits + 1 /\ disk' = disk /\ cpg # None
    BY <1>3, <2>1 DEF Edit, ApplyEdit
  <2>3. GoodCpg(cpg', source', nextId', deleted') /\ KeepsIds
    BY <1>0, <2>1, <2>2, EditKeepsIds
  <2> QED
    BY <1>0, <2>2, <2>3 DEF IdsInv
<1>4. CASE EditTwice
  <2>1. PICK file \in Files : ApplyEdits(file)
    BY <1>4 DEF EditTwice
  <2>2. file \in Seq(Item) /\ DistinctNames(file)
    BY TextAssumption
  <2>3. Rebuild(file) /\ source' = file /\ edits' = edits + 1 /\ disk' = disk /\ cpg # None
    BY <1>4, <2>1 DEF EditTwice, ApplyEdits
  <2>4. GoodCpg(cpg', source', nextId', deleted') /\ KeepsIds
    BY <1>0, <2>2, <2>3, RebuildKeepsIds
  <2> QED
    BY <1>0, <2>3, <2>4 DEF IdsInv
<1>5. CASE ExtendLast
  <2>1. PICK i \in DOMAIN source, new \in NewTexts : Len(new) = 1 /\ Extend(i, new[1])
    BY <1>5 DEF ExtendLast
  <2>2. new[1] \in Item
    BY <2>1, TextAssumption
  <2>3. edits' = edits + 1 /\ disk' = disk /\ cpg # None /\ OpenEnded
    BY <1>5, <2>1 DEF ExtendLast, Extend
  <2>4. GoodCpg(cpg', source', nextId', deleted') /\ KeepsIds
    BY <1>0, <2>1, <2>2, <2>3, ExtendKeepsIds
  <2> QED
    BY <1>0, <2>3, <2>4 DEF IdsInv
<1>6. CASE SaveState
  <2>1. /\ cpg # None /\ UNCHANGED <<source, cpg, nextId, deleted, edits>>
        /\ disk' = [source |-> source, cpg |-> cpg, nextId |-> nextId, deleted |-> deleted]
    BY <1>6 DEF SaveState
  <2>2. GoodCpg(disk'.cpg, disk'.source, disk'.nextId, disk'.deleted)
    BY <1>0, <2>1
  <2> QED
    BY <1>0, <2>1, <2>2 DEF IdsInv
<1>7. CASE LoadState
  <2>1. disk # None /\ UNCHANGED <<disk, edits>>
    BY <1>7 DEF LoadState
  <2>2. GoodCpg(disk.cpg, disk.source, disk.nextId, disk.deleted)
    BY <1>0, <2>1
  <2>3. \/ cpg' = disk.cpg /\ source' = disk.source /\ nextId' = disk.nextId /\ deleted' = disk.deleted
        \/ cpg' = None
    BY <1>7 DEF LoadState, Derive
  <2> QED
    BY <1>0, <2>1, <2>2, <2>3 DEF IdsInv
<1>8. CASE InitFromCache
  <2>1. /\ disk # None /\ UNCHANGED <<disk, edits>>
        /\ cpg' = disk.cpg /\ source' = disk.source
        /\ nextId' = NextIdAfter(disk.cpg.ast) /\ deleted' = {}
    BY <1>8 DEF InitFromCache, Derive
  <2>2. GoodCpg(disk.cpg, disk.source, disk.nextId, disk.deleted)
    BY <1>0, <2>1
  <2>3. GoodTree(disk.cpg.ast, NextIdAfter(disk.cpg.ast), {})
    BY <2>2, NextIdFacts DEF GoodCpg
  <2>4. GoodCpg(cpg', source', nextId', deleted')
    BY <2>1, <2>2, <2>3 DEF GoodCpg
  <2> QED
    BY <1>0, <2>1, <2>4 DEF IdsInv
<1>9. CASE UNCHANGED vars
  BY <1>9, <1>0 DEF vars, IdsInv
<1> QED
  BY <1>0, <1>1, <1>2, <1>3, <1>4, <1>5, <1>6, <1>7, <1>8, <1>9 DEF Next

----------------------------------------------------------------------------
(* The theorems *)

\* The inductive invariant, whatever is parsed, edited, generated, saved and loaded.
THEOREM IdsAlways == Spec => []IdsInv
<1>1. Init => IdsInv
  BY DEF Init, IdsInv
<1>2. IdsInv /\ [Next]_vars => IdsInv'
  BY IdsStep
<1> QED
  BY <1>1, <1>2, PTL DEF Spec

\* No two nodes of a tree ever share an id, none has an id that was deleted, and the ids
\* to come are above all, also after a reload that is given only the CPG (init_from_cache).
THEOREM IdsStayDistinct == Spec => []IdsDistinct
<1>1. IdsInv => IdsDistinct
  <2> SUFFICES ASSUME IdsInv, cpg # None PROVE IdsDistinct
    BY DEF IdsDistinct
  <2>1. GoodTree(cpg.ast, nextId, deleted)
    BY DEF IdsInv, GoodCpg
  <2>2. \A i \in DOMAIN cpg.ast : WellMade(cpg.ast[i])
    BY <2>1 DEF GoodTree
  <2> QED
    BY <2>1, <2>2 DEF IdsDistinct, GoodTree, Disjoint, WellMade
<1> QED
  BY <1>1, IdsAlways, PTL

\* After any history the tree has the items of the source in their order, in a language
\* whose functions end with a token of their own.
THEOREM TreeFollowsSource == ASSUME ~ OpenEnded PROVE Spec => []AstIsSource
<1>1. IdsInv => AstIsSource
  BY DEF IdsInv, GoodCpg, AstIsSource, Items
<1> QED
  BY <1>1, IdsAlways, PTL

\* An edit, targeted or not, never lets an id mean another function, and gives out only
\* ids that were never used.
THEOREM IdsStayStable == Spec => IdsAreStable
<1>1. IdsInv /\ [Next]_vars =>
        [edits' = edits + 1 =>
           /\ nextId' >= nextId
           /\ \A m \in Methods(cpg.ast), n \in Methods(cpg'.ast) : m.id = n.id => m.item = n.item
           /\ \A i \in Ids(cpg'.ast) \ Ids(cpg.ast) : i >= nextId]_vars
  BY IdsStep DEF KeepsIds, Stable
<1> QED
  BY <1>1, IdsAlways, PTL DEF Spec, IdsAreStable

=============================================================================
