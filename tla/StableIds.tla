------------------------------ MODULE StableIds ------------------------------
(***************************************************************************)
(* How the incremental generator keeps node ids across edits               *)
(* (web-sitter/src/incremental.rs): stabilize_cpg_ids and match_subtrees   *)
(* pair an old tree with a new one, and the top-level part of              *)
(* try_targeted_update decides which entries of the file survive an edit.  *)
(*                                                                         *)
(* A file is a sequence of items, its top-level nodes in order.  An item   *)
(* is [kind, name, calls, methods].  kind stands for the tree-sitter kind: *)
(*   "function"     function_definition, function_declaration, ...         *)
(*   "class"        class_declaration, class_definition, impl_item, ...    *)
(*   "specifier"    class_specifier and struct_specifier of C++            *)
(*   "declaration"  a declaration of a function that does not return       *)
(* Two items with the same text are the same item.  The names of a file    *)
(* are distinct, so its functions and methods have distinct texts.         *)
(*                                                                         *)
(* An AST is a sequence of entries [item, id, ids]: the root of the item   *)
(* has the node id `id` and its methods have the ids of the sequence       *)
(* `ids`.  The other nodes of an item get ids with their root and share    *)
(* its fate; they are left out.                                            *)
(***************************************************************************)
EXTENDS Integers, Sequences, FiniteSets, SequencesExt

CONSTANTS
  Name,   \* what functions and methods are called
  None

Kind == {"function", "class", "specifier", "declaration"}
Method == [kind : {"function"}, name : Name, calls : SUBSET Name, methods : {<<>>}]
Item == [kind : Kind, name : Name, calls : SUBSET Name, methods : Seq(Method)]
Entry == [item : Item, id : Nat, ids : Seq(Nat)]

ASSUME NoneIsNoEntry == None \notin Entry /\ None \notin Nat

NamesOf(item) == IF item.methods = <<>> THEN {item.name} ELSE {m.name : m \in ToSet(item.methods)}
DistinctNames(file) ==
  /\ \A i, j \in DOMAIN file : i # j => NamesOf(file[i]) \cap NamesOf(file[j]) = {}
  /\ \A i \in DOMAIN file : IsInjective([j \in DOMAIN file[i].methods |-> file[i].methods[j].name])

\* nodes_compatible: these kinds are the same node only with the same text.
TextCompared == {"function", "class"}
Compatible(old, new) ==
  old.kind = new.kind /\ (old.kind \in TextCompared => old = new)

\* The ids an item takes in a tree.
IdsOf(e) == {e.id} \cup Range(e.ids)
Ids(ast) == UNION {IdsOf(ast[i]) : i \in DOMAIN ast}

\* The functions and methods (is_method_def) of an entry, and of a tree in file order.
MethodsOf(e) ==
  IF e.item.kind = "function" THEN <<[id |-> e.id, item |-> e.item]>>
  ELSE [j \in DOMAIN e.ids |-> [id |-> e.ids[j], item |-> e.item.methods[j]]]
FileOrder(ast) == FlattenSeq([i \in DOMAIN ast |-> MethodsOf(ast[i])])
Methods(ast) == UNION {ToSet(MethodsOf(ast[i])) : i \in DOMAIN ast}
MethodIds(ast) == {m.id : m \in Methods(ast)}

\* Mutant: n is taken for the last id in use.
FreshIdsFromLast(k, n, gone) == [j \in 1 .. k |-> n + j - 2]

\* The first k ids from n on that were not deleted.
FreshIds(k, n, gone) ==
  LET next(x) == CHOOSE y \in x .. x + Cardinality(gone) :
                   y \notin gone /\ \A z \in x .. y - 1 : z \in gone
      f[j \in 0 .. k] == IF j = 0 THEN n - 1 ELSE next(f[j - 1] + 1)
  IN [j \in 1 .. k |-> f[j]]

\* The ids of an old entry that the entry it became does not have.
GivenUp(old, entry) == IF old = None THEN {} ELSE IdsOf(old) \ IdsOf(entry)

\* The old methods that the j-th method of a new item is matched with: nodes with
\* different numbers of children are not compatible, so there are none unless the item
\* has as many methods as the old entry.
Same(old, item, j) ==
  IF old # None /\ Compatible(old.item, item) /\ Len(old.ids) = Len(item.methods)
  THEN {i \in DOMAIN old.ids : old.item.methods[i] = item.methods[j]}
  ELSE {}

\* stabilize_cpg_ids of a new item against an old entry (None: the empty tree): the
\* entry it becomes, the next free id, and the old ids that nothing took over.
Reuse(old, item, next, gone) ==
  LET kept == old # None /\ Compatible(old.item, item)
      new == {j \in DOMAIN item.methods : Same(old, item, j) = {}}
      spent == IF kept THEN 0 ELSE 1
      taken == Cardinality(new) + spent
      fresh == FreshIds(taken, next, gone)
      Place(j) == Cardinality({i \in new : i <= j}) + spent
      entry == [item |-> item,
                id |-> IF kept THEN old.id ELSE fresh[1],
                ids |-> [j \in DOMAIN item.methods |->
                           IF j \in new THEN fresh[Place(j)]
                           ELSE old.ids[CHOOSE i \in Same(old, item, j) : TRUE]]]
  IN [entry |-> entry,
      next |-> IF taken = 0 THEN next ELSE fresh[taken] + 1,
      gone |-> GivenUp(old, entry)]

\* The tree of the first k items of a file that no tree was built for before.
FreshSteps(file) ==
  LET s[k \in 0 .. Len(file)] ==
        IF k = 0 THEN [ast |-> <<>>, next |-> 1]
        ELSE LET r == Reuse(None, file[k], s[k - 1].next, {})
             IN [ast |-> Append(s[k - 1].ast, r.entry), next |-> r.next]
  IN s
Fresh(file) == FreshSteps(file)[Len(file)]

-----------------------------------------------------------------------------
(* A full rebuild: the new root is matched with the old one if they have   *)
(* as many children, and then its children with the old children at their  *)
(* index, or else with the best.                                           *)

Score(ast, file, i, j) ==
  (IF ast[i].item = file[j] THEN 100 ELSE 0) - (IF i < j THEN j - i ELSE i - j)

\* The old entry that the j-th item is matched with, 0 if there is none.
Match(ast, file, j, used) ==
  LET fit == {i \in DOMAIN ast \ used : Len(ast) = Len(file) /\ Compatible(ast[i].item, file[j])}
  IN IF j \in fit THEN j
     ELSE IF fit = {} THEN 0
     ELSE CHOOSE i \in fit : \A k \in fit : Score(ast, file, i, j) >= Score(ast, file, k, j)

EntryAt(ast, i) == IF i = 0 THEN None ELSE ast[i]

\* The tree of the first k items of the file.
RebuildSteps(ast, file, next, gone) ==
  LET s[k \in 0 .. Len(file)] ==
        IF k = 0 THEN [ast |-> <<>>, next |-> next, used |-> {}]
        ELSE LET i == Match(ast, file, k, s[k - 1].used)
                 r == Reuse(EntryAt(ast, i), file[k], s[k - 1].next, gone)
             IN [ast |-> Append(s[k - 1].ast, r.entry), next |-> r.next,
                 used |-> s[k - 1].used \cup ({i} \ {0})]
  IN s

Rebuilt(ast, file, next, gone) ==
  LET end == RebuildSteps(ast, file, next, gone)[Len(file)]
  IN [ast |-> end.ast, next |-> end.next, gone |-> Ids(ast) \ Ids(end.ast)]

-----------------------------------------------------------------------------
(* A targeted update.  An edit [lo, hi, swallow, new] overlaps the entries *)
(* lo .. hi and replaces them by the items `new`; the first `swallow`      *)
(* entries after it, which it does not overlap, end up inside the new text *)
(* (an opened comment or brace).                                           *)

Overlapped(edit) == edit.lo .. edit.hi
Kept(ast, edit) == DOMAIN ast \ (edit.lo .. edit.hi + edit.swallow)

Before(s, edit) == SubSeq(s, 1, edit.lo - 1)
After(s, edit) == SubSeq(s, edit.hi + edit.swallow + 1, Len(s))
Applied(file, edit) == Before(file, edit) \o edit.new \o After(file, edit)

\* The old entry a new item is stabilized against: the first overlapped one of its
\* kind that no earlier item of the edit has consumed.
MatchingOld(ast, edit, item, consumed) ==
  LET fit == {i \in Overlapped(edit) \ consumed : ast[i].item.kind = item.kind}
  IN IF fit = {} THEN 0 ELSE CHOOSE i \in fit : \A k \in fit : i <= k

\* The entries of the first k items of the edit.
ReplaceSteps(ast, edit, next, gone) ==
  LET s[k \in 0 .. Len(edit.new)] ==
        IF k = 0 THEN [ast |-> <<>>, next |-> next, gone |-> {}, consumed |-> {}]
        ELSE LET i == MatchingOld(ast, edit, edit.new[k], s[k - 1].consumed)
                 r == Reuse(EntryAt(ast, i), edit.new[k], s[k - 1].next, gone \cup s[k - 1].gone)
             IN [ast |-> Append(s[k - 1].ast, r.entry), next |-> r.next,
                 gone |-> s[k - 1].gone \cup r.gone,
                 consumed |-> s[k - 1].consumed \cup ({i} \ {0})]
  IN s
Replaced(ast, edit, next, gone) == ReplaceSteps(ast, edit, next, gone)[Len(edit.new)]

\* Mutant: consumed entries are removed with the ids that were taken over.
RemovedWithConsumed(ast, edit, replaced) ==
  replaced.gone \cup UNION {IdsOf(ast[i]) : i \in DOMAIN ast \ Kept(ast, edit)}

\* removed_ids: what the replaced entries gave up, and the whole of every old entry
\* that neither survived nor was consumed.
RemovedIds(ast, edit, replaced) ==
  replaced.gone \cup
  UNION {IdsOf(ast[i]) : i \in DOMAIN ast \ (Kept(ast, edit) \cup replaced.consumed)}

\* The elements of a sequence at the places S, in their order.
PickedAt(s, S) ==
  [k \in 1 .. Cardinality(S) |-> s[CHOOSE i \in S : Cardinality({j \in S : j <= i}) = k]]

\* Deleting ids from the tree drops the entries and the methods that have them.
Without(ast, removed) ==
  LET Left(e) == LET stay == {j \in DOMAIN e.ids : e.ids[j] \notin removed}
                 IN [e EXCEPT !.ids = PickedAt(@, stay), !.item.methods = PickedAt(@, stay)]
      live == PickedAt(ast, {i \in DOMAIN ast : ast[i].id \notin removed})
  IN [i \in DOMAIN live |-> Left(live[i])]

Targeted(ast, edit, next, gone) ==
  LET new == Replaced(ast, edit, next, gone)
      removed == RemovedIds(ast, edit, new)
  IN [ast |-> Without(Before(ast, edit) \o new.ast \o After(ast, edit), removed),
      fresh |-> new.ast,
      next |-> new.next,
      removed |-> removed]
=============================================================================
