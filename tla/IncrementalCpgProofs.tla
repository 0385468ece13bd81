------------------------- MODULE IncrementalCpgProofs -------------------------
(***************************************************************************)
(* After any history of a file whose functions are at its top level, with  *)
(* no edit that swallows an entry: the call graph of IncrementalCpg is     *)
(* live (CallGraphStaysLive), the cached calls are those of the tree       *)
(* (CacheStaysFresh) and the dataflow edges are those of a fresh build     *)
(* (FlowsStayFresh); the second half is about control flow.                *)
(*                                                                         *)
(* The hypotheses are where the code is right.  A method of an overlapped  *)
(* class, and a function that the text of an edit swallows, are not among  *)
(* the functions the update looks at, and their entries stay behind.  A    *)
(* generator used through parse_lightweight has no cached calls and no     *)
(* dataflow at first; edges to functions that are not function_definition  *)
(* nodes are not drawn again.                                              *)
(*                                                                         *)
(* Every function the update does not look at is the same in the old tree  *)
(* and the new one (TargetedScope, SameBut), so replacing the entries of   *)
(* the others gives what a fresh build would (MergedIsLive, CacheMerged,   *)
(* FlowsMerged).  That no entry is left with a call to a function that is  *)
(* gone is the point of the transitive callers (ClosureFacts).  StepKinds  *)
(* says what each operation does in these terms, and the three invariants  *)
(* CallsInv, CacheInv and FlowsInv are proved on top of one another, for   *)
(* the generator and for the file it was saved in.                         *)
(***************************************************************************)
EXTENDS IncrementalIdsProofs

\* No function is inside a class or a specifier.
Flat(text) == \A i \in DOMAIN text : text[i].methods = <<>>
NoContainers == (\A file \in Files : Flat(file)) /\ (\A text \in NewTexts : Flat(text))

----------------------------------------------------------------------------
(* Functions *)

\* An id is the id of one function.
Identified(methods) == \A m, n \in methods : m.id = n.id => m = n
IdsIn(methods) == {m.id : m \in methods}

\* The functions of two trees are the same, except those with an id of the set.
SameBut(old, new, ids) ==
  /\ \A m \in old : m \in new \/ m.id \in ids
  /\ \A m \in new : m \in old \/ m.id \in ids

\* A tree without containers has the functions at its top level.
LEMMA FlatMethods ==
  ASSUME NEW ast \in Seq(Entry), \A i \in DOMAIN ast : WellMade(ast[i]), Flat(Items(ast))
  PROVE  Methods(ast) = {[id |-> ast[i].id, item |-> ast[i].item] :
                           i \in {k \in DOMAIN ast : ast[k].item.kind = "function"}}
<1>1. ASSUME NEW i \in DOMAIN ast
      PROVE  ToSet(MethodsOf(ast[i])) = IF ast[i].item.kind = "function"
                                        THEN {[id |-> ast[i].id, item |-> ast[i].item]} ELSE {}
  <2>1. CASE ast[i].item.kind = "function"
    BY <2>1 DEF MethodsOf, ToSet
  <2>2. CASE ast[i].item.kind # "function"
    <3>1. ast[i].item.methods = <<>>
      BY DEF Flat, Items
    <3>2. Len(ast[i].ids) = 0 /\ ast[i].ids \in Seq(Nat)
      BY <3>1 DEF WellMade, Entry
    <3>3. DOMAIN ast[i].ids = {}
      BY <3>2
    <3> QED
      BY <2>2, <3>3 DEF MethodsOf, ToSet
  <2> QED
    BY <2>1, <2>2
<1> QED
  BY <1>1 DEF Methods

\* The functions of a good tree have ids of their own, which are below the next one.
LEMMA MethodFacts ==
  ASSUME NEW ast, NEW next, NEW gone, GoodTree(ast, next, gone)
  PROVE  /\ Identified(Methods(ast))
         /\ \A m \in Methods(ast) : m.id \in Nat /\ m.id < next /\ m.id # None
         /\ \A m \in Methods(ast) : m = [id |-> m.id, item |-> m.item]
         /\ IsFiniteSet(IdsIn(Methods(ast)))
<1>1. ASSUME NEW m \in Methods(ast)
      PROVE  \E i \in DOMAIN ast : m \in ToSet(MethodsOf(ast[i])) /\ m.id \in IdsOf(ast[i])
  <2>1. PICK i \in DOMAIN ast : m \in ToSet(MethodsOf(ast[i]))
    BY DEF Methods
  <2> QED
    BY <2>1, OldEntries, IdsAreNat
<1>2. ASSUME NEW m \in Methods(ast) PROVE m.id \in Nat /\ m.id < next /\ m.id # None
  BY <1>1, OldEntries, NoneIsNoEntry
<1>30. ASSUME NEW m \in Methods(ast) PROVE m = [id |-> m.id, item |-> m.item]
  <2>1. PICK i \in DOMAIN ast : m \in ToSet(MethodsOf(ast[i]))
    BY DEF Methods
  <2>2. PICK k \in DOMAIN MethodsOf(ast[i]) : m = MethodsOf(ast[i])[k]
    BY <2>1 DEF ToSet
  <2>3. CASE ast[i].item.kind = "function"
    <3>1. MethodsOf(ast[i]) = <<[id |-> ast[i].id, item |-> ast[i].item]>> /\ k = 1
      BY <2>2, <2>3 DEF MethodsOf
    <3> QED
      BY <2>2, <3>1
  <2>4. CASE ast[i].item.kind # "function"
    <3>1. m = [id |-> ast[i].ids[k], item |-> ast[i].item.methods[k]]
      BY <2>2, <2>4 DEF MethodsOf
    <3> QED
      BY <3>1
  <2> QED
    BY <2>3, <2>4
<1>3. ASSUME NEW m \in Methods(ast), NEW n \in Methods(ast), m.id = n.id PROVE m = n
  <2>1. PICK i \in DOMAIN ast : m \in ToSet(MethodsOf(ast[i])) /\ m.id \in IdsOf(ast[i])
    BY <1>1
  <2>2. PICK j \in DOMAIN ast : n \in ToSet(MethodsOf(ast[j])) /\ n.id \in IdsOf(ast[j])
    BY <1>1
  <2>3. i = j
    BY <1>3, <2>1, <2>2, OldEntries
  <2>4. m.item = n.item
    BY <1>3, <2>1, <2>2, <2>3, OldEntries, OwnMeaning DEF SameMeaning
  <2> QED
    BY <1>3, <1>30, <2>4
<1>4. IsFiniteSet(IdsIn(Methods(ast)))
  <2>1. next \in Nat
    BY DEF GoodTree
  <2> QED
    BY <1>2, <2>1, FiniteBelow DEF IdsIn
<1> QED
  BY <1>2, <1>3, <1>30, <1>4 DEF Identified

----------------------------------------------------------------------------
(* The call graph *)

LiveIn(calls, methods) ==
  /\ DOMAIN calls = IdsIn(methods)
  /\ \A m \in methods : calls[m.id].name = m.item.name /\ DOMAIN calls[m.id].to = m.item.calls
  /\ \A i \in DOMAIN calls : \A n \in DOMAIN calls[i].to :
       calls[i].to[n] # None =>
         \E m \in methods : m.id = calls[i].to[n] /\ m.item.name = n

\* A call that resolves leads to a function of that name.
LEMMA ResolveFacts ==
  ASSUME NEW methods, NEW name
  PROVE  \/ Resolve(methods, name) = None /\ \A m \in methods : m.item.name # name
         \/ \E m \in methods : m.id = Resolve(methods, name) /\ m.item.name = name
BY DEF Resolve

\* The call graph of functions with ids of their own, entry by entry.
LEMMA CallGraphFacts ==
  ASSUME NEW methods, Identified(methods)
  PROVE  /\ DOMAIN CallGraph(methods) = IdsIn(methods)
         /\ \A m \in methods :
              CallGraph(methods)[m.id] =
                [name |-> m.item.name, to |-> [n \in m.item.calls |-> Resolve(methods, n)]]
<1>1. DOMAIN CallGraph(methods) = IdsIn(methods)
  BY DEF CallGraph, IdsIn
<1>2. ASSUME NEW m \in methods
      PROVE  CallGraph(methods)[m.id] =
               [name |-> m.item.name, to |-> [n \in m.item.calls |-> Resolve(methods, n)]]
  <2>1. (CHOOSE x \in methods : x.id = m.id) = m
    BY DEF Identified
  <2>2. m.id \in {x.id : x \in methods}
    OBVIOUS
  <2> QED
    BY <2>1, <2>2 DEF CallGraph
<1> QED
  BY <1>1, <1>2

\* A call graph that is built anew is live.
LEMMA FreshCalls ==
  ASSUME NEW methods, Identified(methods)
  PROVE  LiveIn(CallGraph(methods), methods)
<1> DEFINE calls == CallGraph(methods)
<1>1. /\ DOMAIN calls = IdsIn(methods)
      /\ \A m \in methods : /\ calls[m.id].name = m.item.name
                            /\ DOMAIN calls[m.id].to = m.item.calls
                            /\ \A n \in m.item.calls : calls[m.id].to[n] = Resolve(methods, n)
  <2>1. DOMAIN calls = IdsIn(methods)
    BY CallGraphFacts
  <2>2. ASSUME NEW m \in methods
        PROVE  calls[m.id] = [name |-> m.item.name, to |-> [n \in m.item.calls |-> Resolve(methods, n)]]
    BY CallGraphFacts
  <2> HIDE DEF calls
  <2>3. ASSUME NEW m \in methods
        PROVE  /\ calls[m.id].name = m.item.name
               /\ DOMAIN calls[m.id].to = m.item.calls
               /\ \A n \in m.item.calls : calls[m.id].to[n] = Resolve(methods, n)
    <3> DEFINE to == [n \in m.item.calls |-> Resolve(methods, n)]
    <3>1. calls[m.id] = [name |-> m.item.name, to |-> to]
      BY <2>2
    <3>2. DOMAIN to = m.item.calls /\ \A n \in m.item.calls : to[n] = Resolve(methods, n)
      OBVIOUS
    <3> HIDE DEF to
    <3>3. calls[m.id].name = m.item.name /\ calls[m.id].to = to
      BY <3>1
    <3> QED
      BY <3>2, <3>3
  <2> QED
    BY <2>1, <2>3
<1> HIDE DEF calls
<1>2. ASSUME NEW i \in DOMAIN calls, NEW n \in DOMAIN calls[i].to, calls[i].to[n] # None
      PROVE  \E m \in methods : m.id = calls[i].to[n] /\ m.item.name = n
  <2>1. calls[i].to[n] = Resolve(methods, n)
    BY <1>1, <1>2 DEF IdsIn
  <2> QED
    BY <1>2, <2>1, ResolveFacts
<1> QED
  BY <1>1, <1>2 DEF LiveIn, calls

\* Replacing the entries of the functions in scope keeps a call graph live, when the other
\* functions are the same and call nothing that is gone.
LEMMA MergedIsLive ==
  ASSUME NEW old, NEW new, NEW ids, Identified(new), SameBut(old, new, ids),
         NEW calls, LiveIn(calls, old),
         \A m \in old : m.id \notin ids =>
           \A n \in DOMAIN calls[m.id].to : calls[m.id].to[n] # None =>
             \E x \in new : x.id = calls[m.id].to[n] /\ x.item.name = n
  PROVE  LiveIn(MergedCalls(calls, new, ids), new)
<1> DEFINE scope == {m \in new : m.id \in ids}
           top == CallGraph(scope)
           rest == Part(calls, DOMAIN calls \ ids)
           r == MergedCalls(calls, new, ids)
<1>1. LiveIn(top, scope)
  <2>1. Identified(scope)
    BY DEF Identified
  <2> QED
    BY <2>1, FreshCalls
<1>2. DOMAIN rest = IdsIn(old) \ ids /\ \A i \in DOMAIN rest : rest[i] = calls[i]
  BY DEF Part, Restrict, LiveIn
<1>3. DOMAIN top = IdsIn(scope)
  BY <1>1 DEF LiveIn
<1>4. r = Insert(top, rest)
  BY DEF MergedCalls
<1> HIDE DEF top, rest, r
<1>5. /\ DOMAIN r = IdsIn(scope) \cup (IdsIn(old) \ ids)
      /\ \A i \in IdsIn(scope) : r[i] = top[i]
      /\ \A i \in IdsIn(old) \ ids : r[i] = calls[i]
  <2>1. IdsIn(scope) \cap (IdsIn(old) \ ids) = {}
    BY DEF IdsIn
  <2> QED
    BY <1>2, <1>3, <1>4, <2>1 DEF Insert
<1>6. \A m \in new : m.id \notin ids => m \in old
  BY DEF SameBut
<1>7. \A m \in old : m.id \notin ids => m \in new
  BY DEF SameBut
<1>8. DOMAIN r = IdsIn(new)
  BY <1>5, <1>6, <1>7 DEF IdsIn
<1>9. ASSUME NEW m \in new PROVE r[m.id].name = m.item.name /\ DOMAIN r[m.id].to = m.item.calls
  <2>1. CASE m.id \in ids
    <3>1. m \in scope /\ m.id \in IdsIn(scope)
      BY <2>1 DEF IdsIn
    <3> QED
      BY <3>1, <1>1, <1>5 DEF LiveIn
  <2>2. CASE m.id \notin ids
    <3>1. m \in old /\ m.id \in IdsIn(old) \ ids
      BY <2>2, <1>6 DEF IdsIn
    <3> QED
      BY <3>1, <1>5 DEF LiveIn
  <2> QED
    BY <2>1, <2>2
<1>10. ASSUME NEW i \in DOMAIN r, NEW n \in DOMAIN r[i].to, r[i].to[n] # None
       PROVE  \E m \in new : m.id = r[i].to[n] /\ m.item.name = n
  <2>1. CASE i \in IdsIn(scope)
    <3>1. \E m \in scope : m.id = r[i].to[n] /\ m.item.name = n
      BY <2>1, <1>1, <1>3, <1>5, <1>10 DEF LiveIn
    <3> QED
      BY <3>1
  <2>2. CASE i \in IdsIn(old) \ ids
    <3>1. PICK m \in old : m.id = i
      BY <2>2 DEF IdsIn
    <3> QED
      BY <2>2, <3>1, <1>5, <1>10
  <2> QED
    BY <2>1, <2>2, <1>5
<1> QED
  BY <1>8, <1>9, <1>10 DEF LiveIn, r

\* Callers are functions of the old call graph or of the new tree.
LEMMA CallersAreThere ==
  ASSUME NEW frontier, NEW old, NEW methods
  PROVE  CallersOf(frontier, old, methods) \subseteq DOMAIN old \cup IdsIn(methods)
BY DEF CallersOf, IdsIn

\* The functions a targeted update looks at again have their callers among them.
LEMMA ClosureFacts ==
  ASSUME NEW targets, NEW frontier, NEW old, NEW methods,
         IsFiniteSet(targets), IsFiniteSet(DOMAIN old), IsFiniteSet(IdsIn(methods))
  PROVE  /\ targets \subseteq Closure(targets, frontier, old, methods)
         /\ CallersOf(frontier, old, methods) \subseteq Closure(targets, frontier, old, methods)
<1> DEFINE all == targets \cup DOMAIN old \cup {m.id : m \in methods}
           big == all \cup frontier
           n == Cardinality(all)
           first == CallersOf(frontier, old, methods)
           Type == [targets : SUBSET big, frontier : SUBSET big]
           In(x, k) == /\ x \in Type
                       /\ targets \subseteq x.targets
                       /\ k = 0 => x.frontier = frontier
                       /\ k > 0 => first \subseteq x.targets
           good == [k \in 0 .. n |-> {x \in Type : In(x, k)}]
           grow(k, x) == LET new == CallersOf(x.frontier, old, methods) \ x.targets
                         IN [targets |-> x.targets \cup new, frontier |-> new]
           base == [targets |-> targets, frontier |-> frontier]
           step == [k \in 1 .. n |-> [x \in good[k - 1] |-> grow(k, x)]]
           s[k \in 0 .. n] ==
             IF k = 0 THEN [targets |-> targets, frontier |-> frontier]
             ELSE LET prev == s[k - 1]
                      new == CallersOf(prev.frontier, old, methods) \ prev.targets
                  IN [targets |-> prev.targets \cup new, frontier |-> new]
<1>1. IsFiniteSet(all) /\ n \in Nat /\ (n = 0 => all = {})
  <2>1. all = targets \cup (DOMAIN old \cup IdsIn(methods))
    BY DEF IdsIn
  <2>2. IsFiniteSet(all)
    BY <2>1, FS_Union
  <2> HIDE DEF all
  <2> QED
    BY <2>2, FS_CardinalityType, FS_EmptySet
<1>2. In(base, 0)
  OBVIOUS
<1>3. ASSUME NEW k \in 1 .. n, NEW x, In(x, k - 1) PROVE In(grow(k, x), k)
  <2> DEFINE new == CallersOf(x.frontier, old, methods) \ x.targets
  <2>1. new \subseteq big
    BY CallersAreThere DEF IdsIn
  <2>2. x.targets \in SUBSET big /\ targets \subseteq x.targets
    BY <1>3
  <2>3. first \subseteq x.targets \cup new
    <3>1. CASE k = 1
      <4>1. x.frontier = frontier
        BY <1>3, <3>1
      <4> QED
        BY <4>1
    <3>2. CASE k > 1
      BY <1>3, <3>2
    <3> QED
      BY <3>1, <3>2
  <2> HIDE DEF new, first, big
  <2>4. [targets |-> x.targets \cup new, frontier |-> new] \in Type
    BY <2>1, <2>2
  <2>5. grow(k, x) = [targets |-> x.targets \cup new, frontier |-> new]
    BY DEF new
  <2>6. k # 0
    OBVIOUS
  <2> HIDE DEF grow
  <2> QED
    BY <2>2, <2>3, <2>4, <2>5, <2>6
<1> HIDE DEF In, grow, base, n, Type
<1>4. base \in good[0]
  BY <1>1, <1>2 DEF In
<1>5. \A k \in 1 .. n : \A x \in good[k - 1] : step[k][x] = grow(k, x) /\ grow(k, x) \in good[k]
  <2> SUFFICES ASSUME NEW k \in 1 .. n, NEW x \in good[k - 1]
               PROVE  step[k][x] = grow(k, x) /\ grow(k, x) \in good[k]
    OBVIOUS
  <2>1. k \in 0 .. n /\ k - 1 \in 0 .. n
    BY <1>1
  <2>2. In(grow(k, x), k)
    BY <1>3, <2>1
  <2> QED
    BY <2>1, <2>2 DEF In
<1> HIDE DEF step, good
<1>6. PICK t : StepsTaken(t, n, good, base, step)
  <2>1. StepsStay(n, good, base, step)
    BY <1>4, <1>5 DEF StepsStay
  <2> QED
    BY <2>1, <1>1, Recursion
<1> DEFINE h == [k \in 0 .. n |-> t[k]]
<1>7. h = [k \in 0 .. n |-> IF k = 0 THEN base ELSE grow(k, h[k - 1])]
  <2>1. \A k \in 1 .. n : step[k][t[k - 1]] = grow(k, t[k - 1])
    BY <1>1, <1>5, <1>6 DEF StepsTaken
  <2>2. \A k \in 0 .. n : h[k] = IF k = 0 THEN base ELSE grow(k, h[k - 1])
    BY <2>1, <1>1, <1>6 DEF StepsTaken
  <2> QED
    BY <2>2
<1> HIDE DEF h
<1>8. s = [k \in 0 .. n |-> IF k = 0 THEN base ELSE grow(k, s[k - 1])]
  BY <1>7 DEF s, grow, base
<1>9. s[n].targets = Closure(targets, frontier, old, methods)
  BY DEF Closure, s, n
<1> HIDE DEF s
<1> DEFINE S == {k \in 0 .. n : In(s[k], k)}
<1>10. 0 \in S
  BY <1>1, <1>2, <1>8
<1>11. ASSUME NEW k \in 0 .. n - 1, k \in S PROVE k + 1 \in S
  <2>1. k + 1 \in 1 .. n /\ (k + 1) - 1 = k /\ s[k + 1] = grow(k + 1, s[k])
    BY <1>1, <1>8
  <2>2. In(grow(k + 1, s[k]), k + 1)
    BY <2>1, <1>3, <1>11
  <2> QED
    BY <2>1, <2>2
<1> HIDE DEF S
<1>12. \A k \in 0 .. n : k \in S
  BY <1>1, <1>10, <1>11, UpTo
<1>13. In(s[n], n)
  BY <1>1, <1>12 DEF S
<1> HIDE DEF all
<1>14. CASE n = 0
  <2>1. first = {}
    BY <1>1, <1>14, CallersAreThere DEF all, IdsIn
  <2> QED
    BY <2>1, <1>9, <1>13 DEF In
<1>15. CASE n > 0
  BY <1>9, <1>13, <1>15 DEF In
<1> QED
  BY <1>1, <1>14, <1>15

----------------------------------------------------------------------------
(* The cached calls and the dataflow between functions *)

\* A name is the name of one function.
NamedApart(methods) == \A m, n \in methods : m.item.name = n.item.name => m = n

\* m calls t by its name.
Calling(m, t) == t.item.name \in m.item.calls

\* What is cached of the functions in scope and kept of the others is what they all call.
LEMMA CacheMerged ==
  ASSUME NEW old, NEW new, NEW ids, SameBut(old, new, ids)
  PROVE  MergedCache(CallsIn(old), new, ids) = CallsIn(new)
<1> DEFINE r == MergedCache(CallsIn(old), new, ids)
<1>1. \A methods : \A c : c \in CallsIn(methods) <=>
                            \E m \in methods : \E n \in m.item.calls : c = <<m.id, n>>
  BY DEF CallsIn
<1>2. \A c : c \in r <=> \/ c \in CallsIn(old) /\ c[1] \notin ids
                         \/ c \in CallsIn({m \in new : m.id \in ids})
  BY DEF MergedCache
<1> HIDE DEF r
<1>3. ASSUME NEW c \in r PROVE c \in CallsIn(new)
  <2>1. CASE c \in CallsIn(old) /\ c[1] \notin ids
    <3>1. PICK m \in old : \E n \in m.item.calls : c = <<m.id, n>>
      BY <1>1, <2>1
    <3>2. m \in new
      BY <2>1, <3>1 DEF SameBut
    <3> QED
      BY <3>1, <3>2, <1>1
  <2>2. CASE c \in CallsIn({m \in new : m.id \in ids})
    <3>1. PICK m \in {x \in new : x.id \in ids} : \E n \in m.item.calls : c = <<m.id, n>>
      BY <1>1, <2>2
    <3> QED
      BY <3>1, <1>1
  <2> QED
    BY <2>1, <2>2, <1>2
<1>4. ASSUME NEW c \in CallsIn(new) PROVE c \in r
  <2>1. PICK m \in new : \E n \in m.item.calls : c = <<m.id, n>>
    BY <1>1
  <2>2. CASE m.id \in ids
    <3>1. m \in {x \in new : x.id \in ids}
      BY <2>2
    <3>2. c \in CallsIn({x \in new : x.id \in ids})
      BY <2>1, <3>1, <1>1
    <3> QED
      BY <3>2, <1>2
  <2>3. CASE m.id \notin ids
    <3>1. m \in old
      BY <2>3 DEF SameBut
    <3>2. c \in CallsIn(old) /\ c[1] \notin ids
      BY <2>1, <2>3, <3>1, <1>1
    <3> QED
      BY <3>2, <1>2
  <2> QED
    BY <2>2, <2>3
<1> QED
  BY <1>3, <1>4 DEF r

\* A call resolves to the one function of its name, if there is one.
LEMMA ResolveNamed ==
  ASSUME NEW methods, NamedApart(methods)
  PROVE  /\ \A t \in methods : Resolve(methods, t.item.name) = t.id
         /\ \A n : Resolve(methods, n) # None =>
              \E t \in methods : t.item.name = n /\ t.id = Resolve(methods, n)
<1>1. ASSUME NEW t \in methods PROVE Resolve(methods, t.item.name) = t.id
  <2>1. (CHOOSE m \in methods : m.item.name = t.item.name) = t
    BY DEF NamedApart
  <2> QED
    BY <2>1 DEF Resolve
<1> QED
  BY <1>1, ResolveFacts

\* The edges of a fresh build lead from each function to those it calls.
LEMMA FlowFacts ==
  ASSUME NEW methods, Identified(methods), NamedApart(methods), \A m \in methods : m.id # None
  PROVE  \A p : p \in FlowsIn(methods) <=>
                  \E m, t \in methods : Calling(m, t) /\ p = <<m.id, t.id>>
<1>1. ASSUME NEW p \in FlowsIn(methods)
      PROVE  \E m, t \in methods : Calling(m, t) /\ p = <<m.id, t.id>>
  <2>1. p \in IdsIn(methods) \X IdsIn(methods)
    BY DEF FlowsIn, IdsIn
  <2>2. PICK m \in methods : m.id = p[1] /\ \E n \in m.item.calls : Resolve(methods, n) = p[2]
    BY DEF FlowsIn
  <2>3. PICK n \in m.item.calls : Resolve(methods, n) = p[2]
    BY <2>2
  <2>4. p[2] # None
    BY <2>1 DEF IdsIn
  <2>5. PICK t \in methods : t.item.name = n /\ t.id = p[2]
    BY <2>3, <2>4, ResolveNamed
  <2>6. p = <<m.id, t.id>>
    BY <2>1, <2>2, <2>5
  <2> QED
    BY <2>3, <2>5, <2>6 DEF Calling
<1>2. ASSUME NEW m \in methods, NEW t \in methods, Calling(m, t)
      PROVE  <<m.id, t.id>> \in FlowsIn(methods)
  <2>1. t.item.name \in m.item.calls /\ Resolve(methods, t.item.name) = t.id
    BY <1>2, ResolveNamed DEF Calling
  <2> QED
    BY <2>1 DEF FlowsIn
<1> QED
  BY <1>1, <1>2

\* The edges drawn from the cache are those from or to a function in scope.
LEMMA CachedFacts ==
  ASSUME NEW methods, NamedApart(methods), \A m \in methods : m.id # None, CachedFlows, NEW ids
  PROVE  \A p : p \in CachedEdges(CallsIn(methods), methods, ids) <=>
                  \E m, t \in methods : /\ Calling(m, t) /\ p = <<m.id, t.id>>
                                        /\ m.id \in ids \/ t.id \in ids
<1> DEFINE edges == CachedEdges(CallsIn(methods), methods, ids)
<1>1. \A c : c \in CallsIn(methods) <=> \E m \in methods : \E n \in m.item.calls : c = <<m.id, n>>
  BY DEF CallsIn
<1>2. \A p : p \in edges <=>
               \E c \in CallsIn(methods) : /\ p = <<c[1], Resolve(methods, c[2])>>
                                           /\ Resolve(methods, c[2]) # None
                                           /\ c[1] \in ids \/ Resolve(methods, c[2]) \in ids
  BY DEF CachedEdges
<1> HIDE DEF edges
<1>3. ASSUME NEW p \in edges
      PROVE  \E m, t \in methods : /\ Calling(m, t) /\ p = <<m.id, t.id>>
                                   /\ m.id \in ids \/ t.id \in ids
  <2>1. PICK c \in CallsIn(methods) : /\ p = <<c[1], Resolve(methods, c[2])>>
                                      /\ Resolve(methods, c[2]) # None
                                      /\ c[1] \in ids \/ Resolve(methods, c[2]) \in ids
    BY <1>2
  <2>2. PICK m \in methods : \E n \in m.item.calls : c = <<m.id, n>>
    BY <1>1
  <2>21. PICK n \in m.item.calls : c = <<m.id, n>>
    BY <2>2
  <2>3. c[1] = m.id /\ c[2] = n
    BY <2>21
  <2>4. PICK t \in methods : t.item.name = n /\ t.id = Resolve(methods, n)
    BY <2>1, <2>3, ResolveNamed
  <2> QED
    BY <2>1, <2>3, <2>4 DEF Calling
<1>4. ASSUME NEW m \in methods, NEW t \in methods, Calling(m, t), m.id \in ids \/ t.id \in ids
      PROVE  <<m.id, t.id>> \in edges
  <2> DEFINE c == <<m.id, t.item.name>>
  <2>1. c \in CallsIn(methods)
    BY <1>1, <1>4 DEF Calling
  <2>2. c[1] = m.id /\ Resolve(methods, c[2]) = t.id
    BY ResolveNamed
  <2> HIDE DEF c
  <2> QED
    BY <2>1, <2>2, <1>2, <1>4
<1> QED
  BY <1>3, <1>4 DEF edges

\* The edges kept between the functions out of scope, and those drawn from the cache, are
\* the edges of a fresh build.
LEMMA FlowsMerged ==
  ASSUME NEW old, NEW new, NEW ids, SameBut(old, new, ids), CachedFlows,
         Identified(old), Identified(new), NamedApart(old), NamedApart(new),
         \A m \in old \cup new : m.id # None
  PROVE  {p \in FlowsIn(old) : /\ p[1] \notin ids /\ p[2] \notin ids
                               /\ p[1] \in IdsIn(new) /\ p[2] \in IdsIn(new)}
           \cup CachedEdges(CallsIn(new), new, ids) = FlowsIn(new)
<1> DEFINE base == {p \in FlowsIn(old) : /\ p[1] \notin ids /\ p[2] \notin ids
                                         /\ p[1] \in IdsIn(new) /\ p[2] \in IdsIn(new)}
           drawn == CachedEdges(CallsIn(new), new, ids)
<1>1. \A p : p \in FlowsIn(old) <=> \E m, t \in old : Calling(m, t) /\ p = <<m.id, t.id>>
  BY FlowFacts
<1>2. \A p : p \in FlowsIn(new) <=> \E m, t \in new : Calling(m, t) /\ p = <<m.id, t.id>>
  BY FlowFacts
<1>3. \A p : p \in drawn <=> \E m, t \in new : /\ Calling(m, t) /\ p = <<m.id, t.id>>
                                               /\ m.id \in ids \/ t.id \in ids
  BY CachedFacts
<1> HIDE DEF drawn
<1>4. ASSUME NEW p \in base PROVE p \in FlowsIn(new)
  <2>1. PICK m \in old, t \in old : Calling(m, t) /\ p = <<m.id, t.id>>
    BY <1>1
  <2>2. m.id \notin ids /\ t.id \notin ids
    BY <2>1
  <2>3. m \in new /\ t \in new
    BY <2>2 DEF SameBut
  <2> QED
    BY <2>1, <2>3, <1>2
<1>5. ASSUME NEW p \in drawn PROVE p \in FlowsIn(new)
  BY <1>2, <1>3, <1>5
<1>6. ASSUME NEW p \in FlowsIn(new) PROVE p \in base \cup drawn
  <2>1. PICK m \in new, t \in new : Calling(m, t) /\ p = <<m.id, t.id>>
    BY <1>2
  <2>2. CASE m.id \in ids \/ t.id \in ids
    BY <2>1, <2>2, <1>3
  <2>3. CASE m.id \notin ids /\ t.id \notin ids
    <3>1. m \in old /\ t \in old
      BY <2>3 DEF SameBut
    <3>2. p \in FlowsIn(old)
      BY <2>1, <3>1, <1>1
    <3>3. p[1] = m.id /\ p[2] = t.id
      BY <2>1
    <3> QED
      BY <2>3, <3>2, <3>3 DEF IdsIn
  <2> QED
    BY <2>2, <2>3
<1> HIDE DEF base
<1> QED
  BY <1>4, <1>5, <1>6 DEF base, drawn

----------------------------------------------------------------------------
(* What a targeted update does to the functions *)

\* Nothing is the longest common prefix of nothing and a sequence.
LEMMA NoCommonLength ==
  ASSUME NEW X, NEW b \in Seq(X)
  PROVE  CommonLength(<<>>, b) = 0
<1> DEFINE S == {<<>>, b}
<1>1. <<>> \in CommonPrefixes(S)
  <2>1. SubSeq(<<>>, 1, 0) = <<>> /\ SubSeq(b, 1, 0) = <<>>
    OBVIOUS
  <2>2. <<>> \in Prefixes(<<>>)
    BY <2>1 DEF Prefixes
  <2>3. \A t \in S : IsPrefix(<<>>, t)
    BY <2>1 DEF IsPrefix
  <2> QED
    BY <2>2, <2>3 DEF CommonPrefixes
<1>2. ASSUME NEW p \in CommonPrefixes(S) PROVE p = <<>>
  <2>1. IsPrefix(p, <<>>)
    BY DEF CommonPrefixes
  <2>2. PICK s \in S : p \in Prefixes(s)
    BY DEF CommonPrefixes
  <2>3. PICK l \in 0 .. Len(s) : p = SubSeq(s, 1, l)
    BY <2>2 DEF Prefixes
  <2>4. s \in Seq(X)
    <3>1. s = <<>> \/ s = b
      BY <2>2
    <3>2. <<>> \in Seq(X)
      OBVIOUS
    <3> QED
      BY <3>1, <3>2
  <2>5. p \in Seq(X) /\ Len(p) = l
    BY <2>3, <2>4
  <2>6. Len(p) <= 0
    BY <2>1 DEF IsPrefix
  <2> QED
    BY <2>5, <2>6
<1>3. CommonPrefixes(S) = {<<>>}
  BY <1>1, <1>2
<1> HIDE DEF S
<1>4. LongestCommonPrefix(S) = <<>>
  BY <1>3 DEF LongestCommonPrefix
<1> QED
  BY <1>4 DEF CommonLength, S

\* Without containers the edit touches no method of a specifier.
LEMMA NothingTouched ==
  ASSUME NEW e, e.item.methods = <<>>, NEW new \in Seq(Item)
  PROVE  TouchedMethods(e, new) = {}
<1>1. CASE Len(new) # 1 \/ new[1].kind # "specifier"
  BY <1>1 DEF TouchedMethods
<1>2. CASE Len(new) = 1 /\ new[1].kind = "specifier"
  <2> DEFINE b == new[1].methods
             rest == Reverse(SubSeq(b, 1, Len(b)))
  <2>1. b \in Seq(Method)
    <3>1. new[1] \in Item
      BY <1>2, ElementOfSeq
    <3> QED
      BY <3>1 DEF Item
  <2>2. CommonLength(<<>>, b) = 0
    BY <2>1, NoCommonLength
  <2>3. rest \in Seq(Method)
    <3>1. SubSeq(b, 1, Len(b)) = b
      BY <2>1
    <3> QED
      BY <2>1, <3>1 DEF Reverse
  <2>4. Reverse(SubSeq(<<>>, 1, 0)) = <<>>
    BY DEF Reverse
  <2>5. CommonLength(<<>>, rest) = 0
    BY <2>3, NoCommonLength
  <2> QED
    BY <1>2, <2>2, <2>4, <2>5 DEF TouchedMethods
<1> QED
  BY <1>1, <1>2

\* The functions an edit affects are then those it overlaps.
LEMMA AffectedFlat ==
  ASSUME NEW ast \in Seq(Entry), Flat(Items(ast)), NEW edit, EditShape(edit, Len(ast))
  PROVE  AffectedOld(ast, edit) =
           {ast[i].id : i \in {k \in Overlapped(edit) : ast[k].item.kind = "function"}}
<1>1. Overlapped(edit) \subseteq DOMAIN ast /\ edit.new \in Seq(Item)
  BY DEF EditShape, Overlapped
<1>2. ASSUME NEW e \in OverlappedOf(ast, edit, "specifier") PROVE TouchedMethods(e, edit.new) = {}
  <2>1. e.item.methods = <<>>
    BY <1>1 DEF OverlappedOf, Flat, Items
  <2> QED
    BY <1>1, <2>1, NothingTouched
<1>3. UNION {TouchedMethods(e, edit.new) : e \in OverlappedOf(ast, edit, "specifier")} = {}
  BY <1>2
<1>4. {e.id : e \in OverlappedOf(ast, edit, "function")} =
        {ast[i].id : i \in {k \in Overlapped(edit) : ast[k].item.kind = "function"}}
  BY DEF OverlappedOf
<1> QED
  BY <1>3, <1>4 DEF AffectedOld

\* A function that an edit neither overlaps nor swallows is in the new tree, and a function
\* of the new tree is one of them or is rebuilt.
LEMMA TargetedFunctions ==
  ASSUME NEW ast, NEW next, NEW gone, GoodTree(ast, next, gone), Flat(Items(ast)),
         NEW edit, EditShape(edit, Len(ast)), edit.swallow = 0, Flat(edit.new),
         NEW r, IsTargeted(r, ast, next, gone, edit)
  PROVE  /\ Flat(Items(r.ast))
         /\ \A m \in Methods(ast) : m \in Methods(r.ast) \/ m.id \in AffectedOld(ast, edit)
         /\ \A m \in Methods(r.ast) :
              \/ m \in Methods(ast)
              \/ m.id \in {e.id : e \in {x \in ToSet(r.fresh) : x.item.kind = "function"}}
<1> DEFINE n == Len(ast)
           k == Len(r.fresh)
           lo == edit.lo
           a == edit.hi + 1
           t == r.ast
<1>1. /\ ast \in Seq(Entry) /\ n \in Nat /\ DOMAIN ast = 1 .. n
      /\ \A i \in DOMAIN ast : WellMade(ast[i]) /\ ast[i].item.methods = <<>>
  BY DEF GoodTree, Flat, Items
<1>2. lo \in Nat /\ a \in Nat /\ lo >= 1 /\ lo <= a /\ a <= n + 1
  BY <1>1 DEF EditShape
<1>3. /\ t \in Seq(Entry) /\ DOMAIN t = 1 .. Len(t) /\ \A i \in DOMAIN t : WellMade(t[i])
      /\ r.fresh \in Seq(Entry) /\ DOMAIN r.fresh = 1 .. k /\ k \in Nat
  BY DEF IsTargeted, GoodTree
<1>4. \A j \in 1 .. k : r.fresh[j].item.methods = <<>>
  <2>1. Items(r.fresh) = edit.new
    BY DEF IsTargeted
  <2>2. Flat(Items(r.fresh))
    BY <2>1
  <2> QED
    BY <2>2, <1>3 DEF Flat, Items
<1>5. /\ Len(t) = lo + k + n - a
      /\ \A i \in 1 .. Len(t) :
           /\ i < lo => i \in 1 .. n /\ t[i] = ast[i]
           /\ i >= lo /\ i < lo + k => i - lo + 1 \in 1 .. k /\ t[i] = r.fresh[i - lo + 1]
           /\ i >= lo + k => i - lo - k + a \in a .. n /\ t[i] = ast[i - lo - k + a]
  <2>1. edit.hi + edit.swallow + 1 = a
    <3>1. edit.hi \in Int
      BY DEF EditShape
    <3> QED
      BY <3>1
  <2>2. Spliced(t, ast, r.fresh, edit)
    BY DEF IsTargeted
  <2> HIDE DEF t
  <2> QED
    BY <2>1, <2>2 DEF Spliced
<1> HIDE DEF t, n, k, a, lo
<1>6. ASSUME NEW i \in 1 .. Len(t)
      PROVE  \/ \E u \in 1 .. n : t[i] = ast[u]
             \/ \E j \in 1 .. k : t[i] = r.fresh[j]
  <2>1. i \in Nat /\ (i < lo \/ (i >= lo /\ i < lo + k) \/ i >= lo + k)
    BY <1>2, <1>3
  <2>2. a .. n \subseteq 1 .. n
    BY <1>1, <1>2
  <2> QED
    BY <2>1, <2>2, <1>5
<1>7. ASSUME NEW u \in 1 .. n, u < lo \/ u >= a
      PROVE  \E i \in 1 .. Len(t) : t[i] = ast[u]
  <2>1. CASE u < lo
    <3>1. u \in 1 .. Len(t)
      BY <2>1, <1>1, <1>2, <1>3, <1>5
    <3> QED
      BY <2>1, <3>1, <1>5
  <2>2. CASE u >= a
    <3> DEFINE i == u - a + lo + k
    <3>1. i \in 1 .. Len(t) /\ i >= lo + k /\ i - lo - k + a = u
      BY <2>2, <1>1, <1>2, <1>3, <1>5
    <3> HIDE DEF i
    <3>2. t[i] = ast[u]
      BY <3>1, <1>5
    <3> QED
      BY <3>1, <3>2
  <2> QED
    BY <1>7, <2>1, <2>2
<1>8. Flat(Items(t))
  <2>1. \A i \in 1 .. Len(t) : t[i].item.methods = <<>>
    BY <1>1, <1>4, <1>6
  <2> QED
    BY <2>1, <1>3 DEF Flat, Items
<1>9. Methods(ast) = {[id |-> ast[i].id, item |-> ast[i].item] :
                        i \in {j \in DOMAIN ast : ast[j].item.kind = "function"}}
  BY <1>1, FlatMethods
<1>10. Methods(t) = {[id |-> t[i].id, item |-> t[i].item] :
                        i \in {j \in DOMAIN t : t[j].item.kind = "function"}}
  BY <1>3, <1>8, FlatMethods
<1>11. ASSUME NEW m \in Methods(ast) PROVE m \in Methods(t) \/ m.id \in AffectedOld(ast, edit)
  <2>1. PICK u \in 1 .. n : ast[u].item.kind = "function" /\ m = [id |-> ast[u].id, item |-> ast[u].item]
    BY <1>1, <1>9
  <2>2. CASE u < lo \/ u >= a
    <3>1. PICK i \in 1 .. Len(t) : t[i] = ast[u]
      BY <2>2, <1>7
    <3> QED
      BY <2>1, <3>1, <1>3, <1>10
  <2>3. CASE ~ (u < lo) /\ ~ (u >= a)
    <3>1. u \in Overlapped(edit)
      BY <2>3, <1>1, <1>2 DEF Overlapped, lo, a, EditShape
    <3>2. m.id = ast[u].id
      BY <2>1
    <3> QED
      BY <2>1, <3>1, <3>2, <1>1, AffectedFlat DEF n
  <2> QED
    BY <2>2, <2>3
<1>12. ASSUME NEW m \in Methods(t)
       PROVE  \/ m \in Methods(ast)
              \/ m.id \in {e.id : e \in {x \in ToSet(r.fresh) : x.item.kind = "function"}}
  <2>1. PICK i \in 1 .. Len(t) : t[i].item.kind = "function" /\ m = [id |-> t[i].id, item |-> t[i].item]
    BY <1>3, <1>10
  <2>2. CASE \E u \in 1 .. n : t[i] = ast[u]
    BY <2>1, <2>2, <1>1, <1>9
  <2>3. CASE \E j \in 1 .. k : t[i] = r.fresh[j]
    <3>1. t[i] \in ToSet(r.fresh)
      BY <2>3, <1>3 DEF ToSet
    <3> QED
      BY <2>1, <3>1
  <2> QED
    BY <2>2, <2>3, <1>6
<1> QED
  BY <1>8, <1>11, <1>12 DEF t

\* The scope of an update has the functions the edit affects, and the callers of those
\* that are gone, whatever signatures are known and whichever callers the delta tier adds.
LEMMA ScopeFacts ==
  ASSUME NEW edit, NEW methods, NEW affected, NEW ids \in Scopes(edit, methods, affected),
         IsFiniteSet(affected), IsFiniteSet(DOMAIN cpg.calls), IsFiniteSet(IdsIn(methods))
  PROVE  /\ affected \subseteq ids
         /\ CallersOf(affected \ IdsIn(methods), cpg.calls, methods) \subseteq ids
<1> DEFINE live == {m.id : m \in methods}
           frontier == IF HasGlobalChanges(cpg.ast, edit) THEN affected
                       ELSE {i \in affected : i \notin sigs \cap live}
<1>1. Closure(affected, frontier, cpg.calls, methods) \subseteq ids
  BY DEF Scopes
<1>2. affected \ IdsIn(methods) \subseteq frontier
  BY DEF IdsIn
<1> HIDE DEF frontier
<1>3. CallersOf(affected \ IdsIn(methods), cpg.calls, methods)
        \subseteq CallersOf(frontier, cpg.calls, methods)
  BY <1>2 DEF CallersOf
<1> QED
  BY <1>1, <1>3, ClosureFacts

\* What an update does with the blocks when the functions `affected` get new ones.
Reblocked(affected) ==
  LET new == Methods(cpg'.ast)
      rebuilt == ById({m \in new : m.id \in affected})
  IN /\ SameBut(Methods(cpg.ast), new, affected)
     /\ cpg'.blocks = Insert(NewBlocks(cpg'.ast, rebuilt, nextBB), OtherBlocks(cpg.blocks, affected))
     /\ \E local : /\ DOMAIN local \subseteq affected
                   /\ cpg'.at = Insert(NewAt(rebuilt, nextBB),
                                  Insert([i \in IdsIn(new) \cap affected |-> None],
                                    Insert(local, Part(cpg.at, IdsIn(new)))))
     /\ nextBB' = BlocksAfter(cpg'.blocks)

\* What a targeted update does with the functions `ids` in scope.
UpdatedIn(ids) ==
  LET old == Methods(cpg.ast)
      new == Methods(cpg'.ast)
  IN /\ Flat(Items(cpg'.ast))
     /\ SameBut(old, new, ids)
     /\ CallersOf({m.id : m \in old} \ IdsIn(new), cpg.calls, new) \subseteq ids
     /\ callCache' = MergedCache(callCache, new, ids)
     /\ "calls" \in DOMAIN cpg'
     /\ cpg'.calls = IF ids = {} THEN cpg.calls ELSE MergedCalls(cpg.calls, new, ids)
     /\ \/ /\ ids = {}
           /\ cpg'.flows = FlowsIn(new) \cup CachedEdges(callCache', new, ids)
        \/ cpg'.flows = {p \in cpg.flows : /\ p[1] \notin ids /\ p[2] \notin ids
                                           /\ p[1] \in IdsIn(new) /\ p[2] \in IdsIn(new)}
                          \cup CachedEdges(callCache', new, ids)
     /\ \E affected : Reblocked(affected)

\* A targeted update of a file without containers, of which the edit swallows nothing.
LEMMA TargetedScope ==
  ASSUME GoodCpg(cpg, source, nextId, deleted), Flat(Items(cpg.ast)),
         LiveIn(cpg.calls, Methods(cpg.ast)),
         NEW edit, EditShape(edit, Len(cpg.ast)), edit.swallow = 0, Flat(edit.new),
         \A k \in DOMAIN edit.new : OwnNames(edit.new[k]),
         TargetedUpdate(edit)
  PROVE  \E ids : UpdatedIn(ids)
<1> DEFINE ast == cpg.ast
           old == Methods(ast)
           r == Targeted(ast, edit, nextId, deleted)
           new == Methods(r.ast)
           affected == AffectedOld(ast, edit) \cup
                       {e.id : e \in {x \in ToSet(r.fresh) : x.item.kind = "function"}}
<1>1. GoodTree(ast, nextId, deleted) /\ ast \in Seq(Entry)
  BY DEF GoodCpg, GoodTree
<1>2. IsTargeted(r, ast, nextId, deleted, edit)
  BY <1>1, TargetedTree
<1> DEFINE live == {m.id : m \in new}
           Calls(ids) == IF ids = {} THEN cpg.calls ELSE MergedCalls(cpg.calls, new, ids)
           Base(ids) ==
             IF ids = {} /\ ~ RequiresFullDfg(ast, edit) THEN FlowsIn(new)
             ELSE {p \in cpg.flows : /\ p[1] \notin ids /\ p[2] \notin ids
                                     /\ p[1] \in live /\ p[2] \in live}
<1> HIDE DEF r, affected
<1>3. PICK ids \in Scopes(edit, new, affected) :
        /\ callCache' = MergedCache(callCache, new, ids)
        /\ cpg' = UpdatedCpg(edit, r, new, affected, ids, callCache')
        /\ nextBB' = BlocksAfter(cpg'.blocks)
  <2>1. /\ r = Targeted(ast, edit, nextId, deleted)
        /\ affected = AffectedOld(ast, edit) \cup
                       {e.id : e \in {x \in ToSet(r.fresh) : x.item.kind = "function"}}
    BY DEF r, affected
  <2> QED
    BY <2>1 DEF TargetedUpdate
<1>30. /\ "calls" \in DOMAIN cpg' /\ cpg'.ast = r.ast
       /\ cpg'.calls = Calls(ids)
       /\ cpg'.flows = Base(ids) \cup CachedEdges(callCache', new, ids)
  BY <1>3 DEF UpdatedCpg
<1> HIDE DEF Calls, Base
<1>4. /\ Flat(Items(r.ast))
      /\ \A m \in old : m \in new \/ m.id \in AffectedOld(ast, edit)
      /\ \A m \in new : \/ m \in old
                        \/ m.id \in {e.id : e \in {x \in ToSet(r.fresh) : x.item.kind = "function"}}
  BY <1>1, <1>2, TargetedFunctions
<1>5. \A m \in old : m \in new \/ m.id \in affected
  BY <1>4 DEF affected
<1>6. \A m \in new : m \in old \/ m.id \in affected
  BY <1>4 DEF affected
<1>7. GoodTree(r.ast, r.next, deleted \cup r.removed)
  BY <1>2 DEF IsTargeted
<1>8. IsFiniteSet(IdsIn(old)) /\ IsFiniteSet(IdsIn(new))
  BY <1>1, <1>7, MethodFacts
<1>81. \A j \in DOMAIN r.fresh : \E i \in DOMAIN r.ast : r.ast[i] = r.fresh[j]
  <2> DEFINE lo == edit.lo
             k == Len(r.fresh)
  <2>1. /\ r.ast \in Seq(Entry) /\ r.fresh \in Seq(Entry)
        /\ lo \in Nat /\ lo >= 1 /\ k \in Nat /\ lo + k - 1 <= Len(r.ast)
        /\ \A i \in 1 .. Len(r.ast) : i >= lo /\ i < lo + k => r.ast[i] = r.fresh[i - lo + 1]
    <3>1. Spliced(r.ast, ast, r.fresh, edit) /\ r.fresh \in Seq(Entry)
      BY <1>2 DEF IsTargeted
    <3>2. /\ lo \in 1 .. Len(ast) + 1 /\ edit.hi + edit.swallow \in Int
          /\ edit.hi + edit.swallow <= Len(ast)
      BY <1>1 DEF EditShape
    <3>3. Len(r.ast) = lo + k + Len(ast) - (edit.hi + edit.swallow + 1)
      BY <3>1 DEF Spliced
    <3>4. \A i \in 1 .. Len(r.ast) : i >= lo /\ i < lo + k => r.ast[i] = r.fresh[i - lo + 1]
      BY <3>1 DEF Spliced
    <3>5. r.ast \in Seq(Entry) /\ k \in Nat
      BY <3>1, <1>7 DEF GoodTree
    <3>6. Len(ast) \in Nat
      BY <1>1
    <3> HIDE DEF lo, k
    <3> QED
      BY <3>1, <3>2, <3>3, <3>4, <3>5, <3>6
  <2> HIDE DEF lo, k
  <2>2. ASSUME NEW j \in 1 .. k PROVE \E i \in DOMAIN r.ast : r.ast[i] = r.fresh[j]
    <3> DEFINE i == lo + j - 1
    <3>1. i \in 1 .. Len(r.ast) /\ i >= lo /\ i < lo + k /\ i - lo + 1 = j
      BY <2>1
    <3> HIDE DEF i
    <3> QED
      BY <2>1, <3>1
  <2>3. DOMAIN r.fresh = 1 .. k
    BY <2>1 DEF k
  <2> QED
    BY <2>2, <2>3
<1>9. IsFiniteSet(affected)
  <2>1. ASSUME NEW x \in AffectedOld(ast, edit) PROVE x \in Nat /\ x < nextId
    <3>1. Overlapped(edit) \subseteq DOMAIN ast
      BY <1>1 DEF EditShape, Overlapped
    <3>2. PICK i \in Overlapped(edit) : x = ast[i].id
      BY <1>1, AffectedFlat
    <3>3. x \in IdsOf(ast[i])
      BY <3>2 DEF IdsOf
    <3> QED
      BY <3>1, <3>3, <1>1, OldEntries
  <2>2. IsFiniteSet(AffectedOld(ast, edit))
    <3>1. nextId \in Nat
      BY <1>1 DEF GoodTree
    <3> QED
      BY <2>1, <3>1, FiniteBelow
  <2>3. IsFiniteSet({e.id : e \in {x \in ToSet(r.fresh) : x.item.kind = "function"}})
    <3>1. ASSUME NEW e \in ToSet(r.fresh) PROVE e.id \in Nat /\ e.id < r.next
      <4>1. PICK j \in DOMAIN r.fresh : e = r.fresh[j]
        BY DEF ToSet
      <4>2. PICK i \in DOMAIN r.ast : r.ast[i] = e
        BY <1>81, <4>1
      <4>3. e.id \in IdsOf(r.ast[i])
        BY <4>2 DEF IdsOf
      <4> QED
        BY <4>2, <4>3, <1>7, OldEntries
    <3>2. r.next \in Nat
      BY <1>7 DEF GoodTree
    <3> QED
      BY <3>1, <3>2, FiniteBelow
  <2> QED
    BY <2>2, <2>3, FS_Union DEF affected
<1>10. IsFiniteSet(DOMAIN cpg.calls)
  BY <1>8 DEF LiveIn
<1>11. /\ affected \subseteq ids
       /\ CallersOf(affected \ IdsIn(new), cpg.calls, new) \subseteq ids
  BY <1>3, <1>8, <1>9, <1>10, ScopeFacts
<1>12. SameBut(old, new, ids)
  BY <1>5, <1>6, <1>11 DEF SameBut
<1>13. CallersOf({m.id : m \in old} \ IdsIn(new), cpg.calls, new) \subseteq ids
  <2>1. {m.id : m \in old} \ IdsIn(new) \subseteq affected \ IdsIn(new)
    BY <1>5 DEF IdsIn
  <2>2. CallersOf({m.id : m \in old} \ IdsIn(new), cpg.calls, new)
          \subseteq CallersOf(affected \ IdsIn(new), cpg.calls, new)
    BY <2>1 DEF CallersOf
  <2> QED
    BY <2>2, <1>11
<1>14. Reblocked(affected)
  <2>1. DOMAIN LocalAt(r.fresh) \subseteq affected
    <3>1. Methods(r.fresh) = {[id |-> r.fresh[i].id, item |-> r.fresh[i].item] :
                                i \in {k \in DOMAIN r.fresh : r.fresh[k].item.kind = "function"}}
      <4>1. r.fresh \in Seq(Entry) /\ Flat(Items(r.fresh))
        BY <1>2 DEF IsTargeted
      <4>2. \A j \in DOMAIN r.fresh : WellMade(r.fresh[j])
        <5>1. ASSUME NEW j \in DOMAIN r.fresh PROVE WellMade(r.fresh[j])
          <6>1. \E i \in DOMAIN r.ast : r.ast[i] = r.fresh[j]
            BY <1>81
          <6> QED
            BY <6>1, <1>7, OldEntries
        <5> QED
          BY <5>1
      <4> QED
        BY <4>1, <4>2, FlatMethods
    <3>2. DOMAIN LocalAt(r.fresh) = {m.id : m \in Methods(r.fresh)}
      BY DEF LocalAt, MethodIds
    <3>3. ASSUME NEW i \in DOMAIN r.fresh, r.fresh[i].item.kind = "function"
          PROVE  r.fresh[i].id \in affected
      <4>1. r.fresh[i] \in ToSet(r.fresh)
        BY DEF ToSet
      <4> QED
        BY <4>1, <3>3 DEF affected
    <3> QED
      BY <3>1, <3>2, <3>3
  <2>2. SameBut(old, new, affected)
    BY <1>5, <1>6 DEF SameBut
  <2> DEFINE local == LocalAt(r.fresh)
  <2>3. /\ cpg'.at = Insert(NewAt(ById({m \in new : m.id \in affected}), nextBB),
                       Insert([i \in live \cap affected |-> None],
                         Insert(local, Part(cpg.at, live))))
        /\ cpg'.blocks = Insert(NewBlocks(r.ast, ById({m \in new : m.id \in affected}), nextBB),
                               OtherBlocks(cpg.blocks, affected))
    BY <1>3 DEF UpdatedCpg
  <2> HIDE DEF local
  <2>4. DOMAIN local \subseteq affected
    BY <2>1 DEF local
  <2> QED
    BY <2>2, <2>3, <2>4, <1>3, <1>30 DEF Reblocked, IdsIn
<1>15. UpdatedIn(ids)
  <2>1. CASE ids = {} /\ ~ RequiresFullDfg(ast, edit)
    <3>1. Base(ids) = FlowsIn(new)
      BY <2>1 DEF Base
    <3> QED
      BY <2>1, <3>1, <1>3, <1>30, <1>4, <1>12, <1>13, <1>14 DEF UpdatedIn, Calls
  <2>2. CASE ~ (ids = {} /\ ~ RequiresFullDfg(ast, edit))
    <3>1. Base(ids) = {p \in cpg.flows : /\ p[1] \notin ids /\ p[2] \notin ids
                                         /\ p[1] \in IdsIn(new) /\ p[2] \in IdsIn(new)}
      BY <2>2 DEF Base, IdsIn
    <3> QED
      BY <3>1, <1>3, <1>30, <1>4, <1>12, <1>13, <1>14 DEF UpdatedIn, Calls
  <2> QED
    BY <2>1, <2>2
<1> QED
  BY <1>15

\* A call graph stays live across a targeted update: a function out of scope calls nothing
\* that is gone, as it would be one of the callers that are in scope.
LEMMA UpdatedIsLive ==
  ASSUME NEW next, NEW gone, GoodTree(cpg.ast, next, gone),
         NEW later, NEW more, GoodTree(cpg'.ast, later, more),
         Stable(cpg.ast, cpg'.ast, next),
         LiveIn(cpg.calls, Methods(cpg.ast)), NEW ids, UpdatedIn(ids)
  PROVE  LiveIn(cpg'.calls, Methods(cpg'.ast))
<1> DEFINE old == Methods(cpg.ast)
           new == Methods(cpg'.ast)
           calls == cpg.calls
<1>1. Identified(old) /\ \A m \in old : m = [id |-> m.id, item |-> m.item]
  BY MethodFacts
<1>2. Identified(new) /\ \A m \in new : m = [id |-> m.id, item |-> m.item]
  BY MethodFacts
<1>3. /\ SameBut(old, new, ids)
      /\ CallersOf({m.id : m \in old} \ IdsIn(new), calls, new) \subseteq ids
      /\ cpg'.calls = IF ids = {} THEN calls ELSE MergedCalls(calls, new, ids)
  BY DEF UpdatedIn
<1>4. \A m \in old, n \in new : m.id = n.id => m = n
  BY <1>1, <1>2 DEF Stable
<1>40. LiveIn(calls, old)
  OBVIOUS
<1> HIDE DEF old, new, calls
<1>5. ASSUME NEW m \in old, m.id \notin ids,
             NEW n \in DOMAIN calls[m.id].to, calls[m.id].to[n] # None
      PROVE  \E x \in new : x.id = calls[m.id].to[n] /\ x.item.name = n
  <2>1. m.id \in DOMAIN calls
    BY <1>40 DEF LiveIn, IdsIn
  <2>2. PICK t \in old : t.id = calls[m.id].to[n] /\ t.item.name = n
    BY <1>5, <1>40, <2>1 DEF LiveIn
  <2>3. CASE t \in new
    BY <2>2, <2>3
  <2>4. CASE t \notin new
    <3>1. t.id \notin IdsIn(new)
      BY <2>4, <1>4 DEF IdsIn
    <3>2. m.id \in CallersOf({x.id : x \in old} \ IdsIn(new), calls, new)
      BY <3>1, <2>1, <2>2, <1>5 DEF CallersOf
    <3> QED
      BY <3>2, <1>3, <1>5
  <2> QED
    BY <2>3, <2>4
<1>6. CASE ids = {}
  <2>1. \A m : m \in old <=> m \in new
    BY <1>3, <1>6 DEF SameBut
  <2>2. old = new
    BY <2>1
  <2> QED
    BY <2>2, <1>3, <1>6, <1>40 DEF new
<1>7. CASE ids # {}
  <2>1. LiveIn(MergedCalls(calls, new, ids), new)
    BY <1>2, <1>3, <1>40, <1>5, MergedIsLive
  <2> QED
    BY <2>1, <1>3, <1>7 DEF new
<1> QED
  BY <1>6, <1>7

----------------------------------------------------------------------------
(* The operations *)

\* What a generator is given has only items of the set.
Among(S, text) == \A i \in DOMAIN text : text[i] \in S
TextsAmong(S) ==
  (\A file \in Files : Among(S, file)) /\ (\A text \in NewTexts : Among(S, text))

\* An edit puts no other items into a file than its own.
LEMMA AmongApplied ==
  ASSUME NEW S, NEW file \in Seq(Item), Among(S, file),
         NEW edit, EditShape(edit, Len(file)), Among(S, edit.new)
  PROVE  Among(S, Applied(file, edit))
<1> DEFINE r == Applied(file, edit)
           lo == edit.lo
           k == Len(edit.new)
           a == edit.hi + edit.swallow + 1
<1>1. edit.new \in Seq(Item) /\ lo \in Nat /\ k \in Nat
  BY DEF EditShape
<1>2. r \in Seq(Item) /\ Spliced(r, file, edit.new, edit)
  BY <1>1, Splice DEF Applied
<1>3. /\ DOMAIN r = 1 .. Len(r) /\ DOMAIN file = 1 .. Len(file) /\ DOMAIN edit.new = 1 .. k
      /\ a >= 1
  BY <1>1, <1>2 DEF EditShape
<1> HIDE DEF r, lo, k, a
<1>4. \A i \in 1 .. Len(r) :
        /\ i < lo => i \in 1 .. Len(file) /\ r[i] = file[i]
        /\ i >= lo /\ i < lo + k => i - lo + 1 \in 1 .. k /\ r[i] = edit.new[i - lo + 1]
        /\ i >= lo + k => i - lo - k + a \in a .. Len(file) /\ r[i] = file[i - lo - k + a]
  BY <1>2 DEF Spliced, lo, k, a
<1>5. ASSUME NEW i \in 1 .. Len(r)
      PROVE  (\E u \in 1 .. Len(file) : r[i] = file[u]) \/ (\E j \in 1 .. k : r[i] = edit.new[j])
  <2>1. i \in Nat /\ (i < lo \/ (i >= lo /\ i < lo + k) \/ i >= lo + k)
    BY <1>1
  <2>2. CASE i < lo
    BY <2>2, <1>4
  <2>3. CASE i >= lo /\ i < lo + k
    BY <2>3, <1>4
  <2>4. CASE i >= lo + k
    <3>1. i - lo - k + a \in a .. Len(file) /\ r[i] = file[i - lo - k + a]
      BY <2>4, <1>4
    <3>2. a \in Int /\ \A u \in a .. Len(file) : u \in 1 .. Len(file)
      <4>1. a \in Int
        BY DEF EditShape, a
      <4> QED
        BY <4>1, <1>3
    <3> QED
      BY <3>1, <3>2
  <2> QED
    BY <2>1, <2>2, <2>3, <2>4
<1>6. \A i \in 1 .. Len(r) : r[i] \in S
  BY <1>3, <1>5 DEF Among
<1> QED
  BY <1>3, <1>6 DEF Among, r

\* An edit without containers leaves a file without them.
LEMMA FlatApplied ==
  ASSUME NEW file \in Seq(Item), Flat(file), NEW edit, EditShape(edit, Len(file)), Flat(edit.new)
  PROVE  Flat(Applied(file, edit))
<1> DEFINE S == {x \in Item : x.methods = <<>>}
<1>1. edit.new \in Seq(Item)
  BY DEF EditShape
<1>2. Among(S, file) /\ Among(S, edit.new)
  BY <1>1, ElementOfSeq DEF Among, Flat
<1>3. \A x \in S : x.methods = <<>>
  OBVIOUS
<1> HIDE DEF S
<1>4. Among(S, Applied(file, edit))
  BY <1>2, AmongApplied
<1> QED
  BY <1>3, <1>4 DEF Among, Flat

\* A CPG and its text without containers, the call graph live.
GoodCalls(c, text) ==
  /\ "calls" \in DOMAIN c
  /\ Flat(Items(c.ast)) /\ Flat(text)
  /\ LiveIn(c.calls, Methods(c.ast))
CallsInv ==
  /\ IdsInv
  /\ cpg # None => GoodCalls(cpg, source)
  /\ disk # None => GoodCalls(disk.cpg, disk.source)

\* The kinds of steps there are for what is kept of the functions.
Built ==
  LET new == Methods(cpg'.ast)
  IN /\ Items(cpg'.ast) = source'
     /\ "calls" \in DOMAIN cpg' /\ cpg'.calls = CallGraph(new)
     /\ ~ Lazy => /\ callCache' = CallsIn(new) /\ cpg'.flows = FlowsIn(new)
                  /\ cpg'.at = NewAt(FileOrder(cpg'.ast), 0)
                  /\ cpg'.blocks = NewBlocks(cpg'.ast, FileOrder(cpg'.ast), 0)
                  /\ nextBB' = BlocksAfter(cpg'.blocks)
Generated ==
  /\ Lazy /\ cpg # None
  /\ "calls" \in DOMAIN cpg' /\ cpg'.ast = cpg.ast /\ source' = source
  /\ \E ids : cpg'.calls = MergedCalls(cpg.calls, Methods(cpg.ast), ids)
Unmoved == cpg' = cpg /\ callCache' = callCache /\ nextBB' = nextBB /\ source' = source
Loaded ==
  \/ cpg' = None
  \/ /\ disk # None
     /\ cpg' = disk.cpg /\ source' = disk.source
     /\ callCache' = CallsIn(Methods(disk.cpg.ast))
     /\ nextBB' = BlocksAfter(disk.cpg.blocks)
Saved == cpg # None /\ disk'.cpg = cpg /\ disk'.source = source

\* A parse makes everything anew.
LEMMA ParseBuilds ==
  ASSUME NEW file \in Seq(Item), DistinctNames(file),
         ParseFull(file) \/ (ParseLightweight(file) /\ Lazy)
  PROVE  Built
<1> DEFINE raw == Fresh(file)
<1>1. Items(raw.ast) = file /\ source' = file
  BY OwnNamesOf, FreshTree DEF ParseFull, ParseLightweight
<1> HIDE DEF raw
<1>2. CASE ParseFull(file)
  <2>1. /\ cpg' = FullCpg(raw.ast, raw.ast) /\ callCache' = CallsIn(Methods(raw.ast))
        /\ nextBB' = BlocksAfter(cpg'.blocks)
    BY <1>2 DEF ParseFull, raw
  <2>2. /\ "calls" \in DOMAIN cpg' /\ cpg'.ast = raw.ast
        /\ cpg'.calls = CallGraph(Methods(raw.ast)) /\ cpg'.flows = FlowsIn(Methods(raw.ast))
        /\ cpg'.at = NewAt(FileOrder(raw.ast), 0)
        /\ cpg'.blocks = NewBlocks(raw.ast, FileOrder(raw.ast), 0)
    BY <2>1 DEF FullCpg
  <2> QED
    BY <1>1, <2>1, <2>2 DEF Built
<1>3. CASE ParseLightweight(file) /\ Lazy
  <2>1. cpg' = LightCpg(raw.ast)
    BY <1>3 DEF ParseLightweight, raw
  <2>2. /\ "calls" \in DOMAIN cpg' /\ cpg'.ast = raw.ast
        /\ cpg'.calls = CallGraph(Methods(raw.ast))
    BY <2>1 DEF LightCpg
  <2> QED
    BY <1>1, <1>3, <2>2 DEF Built
<1> QED
  BY <1>2, <1>3

\* So does a full rebuild.
LEMMA RebuildBuilds ==
  ASSUME GoodCpg(cpg, source, nextId, deleted),
         NEW file \in Seq(Item), DistinctNames(file), Rebuild(file), source' = file
  PROVE  Built
<1> DEFINE new == Rebuilt(cpg.ast, file, nextId, deleted)
<1>1. Items(new.ast) = file
  <2>1. GoodTree(cpg.ast, nextId, deleted)
    BY DEF GoodCpg
  <2>2. /\ GoodTree(new.ast, new.next, deleted \cup new.gone)
        /\ Stable(cpg.ast, new.ast, nextId)
        /\ Items(new.ast) = file
        /\ new.next >= nextId
    BY <2>1, OwnNamesOf, RebuiltTree
  <2> QED
    BY <2>2
<1> HIDE DEF new
<1>2. /\ cpg' = FullCpg(new.ast, Fresh(file).ast) /\ callCache' = CallsIn(Methods(new.ast))
      /\ nextBB' = BlocksAfter(cpg'.blocks)
  BY DEF Rebuild, new
<1>3. /\ "calls" \in DOMAIN cpg' /\ cpg'.ast = new.ast
      /\ cpg'.calls = CallGraph(Methods(new.ast)) /\ cpg'.flows = FlowsIn(Methods(new.ast))
      /\ cpg'.at = NewAt(FileOrder(new.ast), 0)
      /\ cpg'.blocks = NewBlocks(new.ast, FileOrder(new.ast), 0)
  BY <1>2 DEF FullCpg
<1> QED
  BY <1>1, <1>2, <1>3 DEF Built

Updated == cpg # None /\ edits' = edits + 1 /\ \E ids : UpdatedIn(ids)

\* A tree has the names of its source, also where the text of an item grew unnoticed.
SameNames(items, text) == \A i \in DOMAIN items : items[i].name = text[i].name
NamesFollow == SameNames(Items(cpg.ast), source) => SameNames(Items(cpg'.ast), source')

\* The same edit of two texts with the same names gives texts with the same names.
LEMMA AppliedNames ==
  ASSUME NEW a \in Seq(Item), NEW b \in Seq(Item), Len(a) = Len(b), SameNames(a, b),
         NEW edit, EditShape(edit, Len(a))
  PROVE  SameNames(Applied(a, edit), Applied(b, edit))
<1> DEFINE r == Applied(a, edit)
           q == Applied(b, edit)
           lo == edit.lo
           k == Len(edit.new)
           u == edit.hi + edit.swallow + 1
<1>1. edit.new \in Seq(Item) /\ lo \in Nat /\ k \in Nat /\ u \in Int /\ u >= 1
  BY DEF EditShape
<1>2. r \in Seq(Item) /\ Spliced(r, a, edit.new, edit)
  BY <1>1, Splice DEF Applied
<1>3. q \in Seq(Item) /\ Spliced(q, b, edit.new, edit)
  BY <1>1, Splice DEF Applied
<1>4. Len(q) = Len(r) /\ DOMAIN r = 1 .. Len(r) /\ Len(r) \in Nat
  BY <1>2, <1>3 DEF Spliced
<1>5. \A j \in 1 .. Len(a) : a[j].name = b[j].name
  BY DEF SameNames
<1> HIDE DEF r, q, lo, k, u
<1>6. \A i \in 1 .. Len(r) :
        /\ i < lo => i \in 1 .. Len(a) /\ r[i] = a[i]
        /\ i >= lo /\ i < lo + k => r[i] = edit.new[i - lo + 1]
        /\ i >= lo + k => i - lo - k + u \in u .. Len(a) /\ r[i] = a[i - lo - k + u]
  BY <1>2 DEF Spliced, lo, k, u
<1>7. \A i \in 1 .. Len(r) :
        /\ i < lo => q[i] = b[i]
        /\ i >= lo /\ i < lo + k => q[i] = edit.new[i - lo + 1]
        /\ i >= lo + k => q[i] = b[i - lo - k + u]
  BY <1>3, <1>4 DEF Spliced, lo, k, u
<1>8. ASSUME NEW i \in 1 .. Len(r) PROVE r[i].name = q[i].name
  <2>1. i < lo \/ (i >= lo /\ i < lo + k) \/ i >= lo + k
    BY <1>1
  <2>2. CASE i < lo
    BY <2>2, <1>5, <1>6, <1>7
  <2>3. CASE i >= lo /\ i < lo + k
    BY <2>3, <1>6, <1>7
  <2>4. CASE i >= lo + k
    <3>1. PICK j \in u .. Len(a) : j = i - lo - k + u /\ r[i] = a[j] /\ q[i] = b[j]
      BY <2>4, <1>6, <1>7
    <3>2. j \in 1 .. Len(a)
      BY <3>1, <1>1
    <3> QED
      BY <3>1, <3>2, <1>5
  <2> QED
    BY <2>1, <2>2, <2>3, <2>4
<1> QED
  BY <1>4, <1>8 DEF SameNames, r, q

\* An edit that puts nothing in the place of nothing leaves a text as it is.
LEMMA NothingApplied ==
  ASSUME NEW a \in Seq(Item), NEW edit, EditShape(edit, Len(a)),
         edit.new = <<>>, edit.hi + edit.swallow + 1 = edit.lo
  PROVE  Applied(a, edit) = a
<1> DEFINE r == Applied(a, edit)
           lo == edit.lo
<1>1. edit.new \in Seq(Item) /\ lo \in Nat /\ Len(edit.new) = 0
  BY DEF EditShape
<1>2. r \in Seq(Item) /\ Spliced(r, a, edit.new, edit)
  BY <1>1, Splice DEF Applied
<1>3. Len(r) = lo + 0 + Len(a) - lo
  BY <1>1, <1>2 DEF Spliced
<1>4. \A i \in 1 .. Len(r) : /\ i < lo => r[i] = a[i]
                             /\ i >= lo + 0 => r[i] = a[i - lo - 0 + lo]
  BY <1>1, <1>2 DEF Spliced
<1> HIDE DEF r, lo
<1>5. Len(r) = Len(a) /\ \A i \in 1 .. Len(r) : r[i] = a[i]
  <2>1. Len(r) = Len(a)
    BY <1>1, <1>3
  <2>2. ASSUME NEW i \in 1 .. Len(r) PROVE r[i] = a[i]
    <3>1. i < lo \/ i >= lo + 0
      BY <1>1
    <3>2. i - lo - 0 + lo = i
      BY <1>1
    <3> QED
      BY <3>1, <3>2, <1>4
  <2> QED
    BY <2>1, <2>2
<1> QED
  BY <1>2, <1>5, SeqEqual DEF r

\* The steps, in files without containers of which no edit swallows an entry.
LEMMA StepKinds ==
  ASSUME NoContainers, MaxSwallow = 0, CallsInv, [Next]_vars
  PROVE  \/ /\ Built \/ (Updated /\ NamesFollow)
            /\ Flat(source') /\ DistinctNames(source') /\ disk' = disk
         \/ Generated /\ disk' = disk
         \/ Unmoved /\ (disk' = disk \/ Saved)
         \/ Loaded /\ disk' = disk
<1>0. /\ cpg # None => GoodCpg(cpg, source, nextId, deleted) /\ GoodCalls(cpg, source)
      /\ disk # None => GoodCalls(disk.cpg, disk.source)
  BY DEF CallsInv, IdsInv
<1>1. ASSUME NEW file \in Files, Open(file) \/ Reparse(file)
      PROVE  Built /\ Flat(source') /\ DistinctNames(source') /\ disk' = disk
  <2>1. file \in Seq(Item) /\ DistinctNames(file) /\ Flat(file)
    BY TextAssumption DEF NoContainers
  <2>2. ParseFull(file) \/ (ParseLightweight(file) /\ Lazy)
    BY <1>1 DEF Open, Reparse
  <2>3. disk' = disk /\ source' = file
    BY <1>1 DEF Open, Reparse, ParseFull, ParseLightweight
  <2> QED
    BY <2>1, <2>2, <2>3, ParseBuilds
<1>2. CASE Generate
  <2>1. PICK ids \in SUBSET MethodIds(cpg.ast) : GenerateFunctionCpg(ids)
    BY <1>2 DEF Generate
  <2>2. Lazy /\ cpg # None /\ source' = source /\ disk' = disk
    BY <1>2, <2>1 DEF Generate, GenerateFunctionCpg
  <2>3. "ast" \in DOMAIN cpg /\ "calls" \in DOMAIN cpg
    BY <1>0, <2>2 DEF GoodCpg, GoodCalls
  <2>4. /\ DOMAIN cpg' = DOMAIN cpg /\ cpg'.ast = cpg.ast
        /\ cpg'.calls = MergedCalls(cpg.calls, Methods(cpg.ast), ids)
    BY <2>1, <2>3 DEF GenerateFunctionCpg
  <2> QED
    BY <2>2, <2>3, <2>4 DEF Generated
<1>3. CASE Edit
  <2>1. PICK e \in Edits(source) : ApplyEdit(e)
    BY <1>3 DEF Edit
  <2>2. edits' = edits + 1 /\ disk' = disk /\ cpg # None /\ source' = Applied(source, e)
    BY <1>3, <2>1 DEF Edit, ApplyEdit
  <2>3. GoodCpg(cpg, source, nextId, deleted) /\ GoodCalls(cpg, source)
    BY <1>0, <2>2
  <2>4. source \in Seq(Item) /\ Len(cpg.ast) = Len(source)
    BY <2>3 DEF GoodCpg
  <2>5. /\ EditShape(e, Len(source)) /\ DistinctNames(source')
        /\ \A k \in DOMAIN e.new : OwnNames(e.new[k])
    BY <2>2, <2>4, EditsHaveShape
  <2>6. e.swallow = 0 /\ Flat(e.new)
    <3>1. e.swallow \in 0 .. MaxSwallow /\ e.new \in NewTexts
      BY DEF Edits
    <3> QED
      BY <3>1 DEF NoContainers
  <2>7. Flat(source')
    BY <2>2, <2>3, <2>4, <2>5, <2>6, FlatApplied DEF GoodCalls
  <2>8. Built \/ (Updated /\ NamesFollow)
    <3>1. CASE Rebuild(source')
      <4>1. source' \in Seq(Item)
        BY <2>2, <2>4, <2>5, AppliedFacts
      <4> QED
        BY <3>1, <4>1, <2>3, <2>5, <2>7, RebuildBuilds
    <3>2. CASE TargetedUpdate(e)
      <4>1. \E ids : UpdatedIn(ids)
        BY <3>2, <2>3, <2>4, <2>5, <2>6, TargetedScope DEF GoodCalls
      <4>2. Items(cpg'.ast) = Applied(Items(cpg.ast), e)
        BY <3>2, <2>3, <2>4, <2>5, TargetedKeepsIds
      <4>3. cpg.ast \in Seq(Entry)
        BY <2>3 DEF GoodCpg, GoodTree
      <4>4. NamesFollow
        BY <4>2, <4>3, <2>2, <2>4, <2>5, ItemsAreItems, AppliedNames DEF NamesFollow
      <4> QED
        BY <4>1, <4>4, <2>2 DEF Updated
    <3> QED
      BY <2>1, <3>1, <3>2 DEF ApplyEdit
  <2> QED
    BY <2>2, <2>5, <2>7, <2>8
<1>4. CASE EditTwice
  <2>1. PICK file \in Files : ApplyEdits(file)
    BY <1>4 DEF EditTwice
  <2>2. file \in Seq(Item) /\ DistinctNames(file) /\ Flat(file)
    BY TextAssumption DEF NoContainers
  <2>3. Rebuild(file) /\ source' = file /\ disk' = disk /\ cpg # None
    BY <1>4, <2>1 DEF EditTwice, ApplyEdits
  <2> QED
    BY <1>0, <2>2, <2>3, RebuildBuilds
<1>5. CASE ExtendLast
  <2>1. PICK i \in DOMAIN source, new \in NewTexts :
          /\ Len(new) = 1 /\ new[1].name = source[i].name
          /\ DistinctNames([source EXCEPT ![i] = new[1]])
          /\ Extend(i, new[1])
    BY <1>5 DEF ExtendLast
  <2> DEFINE edit == [lo |-> i + 1, hi |-> i, swallow |-> 0, new |-> <<>>]
  <2>2. /\ edits' = edits + 1 /\ disk' = disk /\ cpg # None /\ OpenEnded
        /\ source' = [source EXCEPT ![i] = new[1]] /\ TargetedUpdate(edit)
    BY <1>5, <2>1 DEF ExtendLast, Extend
  <2>3. GoodCpg(cpg, source, nextId, deleted) /\ GoodCalls(cpg, source)
    BY <1>0, <2>2
  <2>4. source \in Seq(Item) /\ Len(cpg.ast) = Len(source)
    BY <2>3 DEF GoodCpg
  <2>5. EditShape(edit, Len(source)) /\ \A k \in DOMAIN edit.new : OwnNames(edit.new[k])
    BY <2>4 DEF EditShape
  <2>6. edit.swallow = 0 /\ Flat(edit.new)
    BY DEF Flat
  <2>7. Flat(source')
    <3>1. new[1].methods = <<>>
      <4>1. 1 \in DOMAIN new
        BY <2>1, TextAssumption
      <4> QED
        BY <4>1 DEF NoContainers, Flat
    <3>2. \A j \in DOMAIN source' : source'[j] = IF j = i THEN new[1] ELSE source[j]
      BY <2>2
    <3>3. DOMAIN source' = DOMAIN source
      BY <2>2
    <3> QED
      BY <2>3, <3>1, <3>2, <3>3 DEF GoodCalls, Flat
  <2>70. edit.new = <<>> /\ edit.hi + edit.swallow + 1 = edit.lo
    BY <2>4
  <2> HIDE DEF edit
  <2>8. \E ids : UpdatedIn(ids)
    BY <2>2, <2>3, <2>4, <2>5, <2>6, TargetedScope DEF GoodCalls
  <2>9. Items(cpg.ast) \in Seq(Item) /\ Len(Items(cpg.ast)) = Len(source)
    BY <2>3, <2>4, ItemsAreItems DEF GoodCpg, GoodTree
  <2>10. Items(cpg'.ast) = Items(cpg.ast)
    <3>1. Items(cpg'.ast) = Applied(Items(cpg.ast), edit)
      BY <2>2, <2>3, <2>4, <2>5, TargetedKeepsIds
    <3> QED
      BY <3>1, <2>4, <2>5, <2>9, <2>70, NothingApplied
  <2>11. NamesFollow
    <3>1. \A j \in DOMAIN source : source'[j].name = source[j].name
      BY <2>1, <2>2
    <3>2. DOMAIN Items(cpg.ast) = DOMAIN source
      BY <2>4, <2>9
    <3> QED
      BY <3>1, <3>2, <2>10 DEF NamesFollow, SameNames
  <2>12. DistinctNames(source')
    BY <2>1, <2>2
  <2> QED
    BY <2>2, <2>7, <2>8, <2>11, <2>12 DEF Updated
<1>6. CASE SaveState
  BY <1>6 DEF SaveState, Unmoved, Saved
<1>7. CASE LoadState
  <2>1. disk' = disk /\ disk # None
    BY <1>7 DEF LoadState
  <2>2. CASE Derive(disk.cpg) /\ source' = disk.source
    BY <2>1, <2>2 DEF Derive, Loaded
  <2>3. CASE cpg' = None
    BY <2>1, <2>3 DEF Loaded
  <2> QED
    BY <1>7, <2>2, <2>3 DEF LoadState
<1>8. CASE InitFromCache
  BY <1>8 DEF InitFromCache, Derive, Loaded
<1>9. CASE UNCHANGED vars
  BY <1>9 DEF vars, Unmoved
<1> QED
  BY <1>1, <1>2, <1>3, <1>4, <1>5, <1>6, <1>7, <1>8, <1>9 DEF Next

----------------------------------------------------------------------------
(* The invariants *)

\* What the step lemmas need of the trees before and after a step.
LEMMA TreesAreGood ==
  ASSUME IdsInv, [Next]_vars
  PROVE  /\ IdsInv'
         /\ cpg # None => GoodTree(cpg.ast, nextId, deleted)
         /\ cpg' # None => GoodTree(cpg'.ast, nextId', deleted')
         /\ edits' = edits + 1 => Stable(cpg.ast, cpg'.ast, nextId)
<1>1. IdsInv' /\ (edits' = edits + 1 => KeepsIds)
  BY IdsStep
<1>2. cpg # None => GoodTree(cpg.ast, nextId, deleted)
  BY DEF IdsInv, GoodCpg
<1>3. cpg' # None => GoodTree(cpg'.ast, nextId', deleted')
  BY <1>1 DEF IdsInv, GoodCpg
<1> QED
  BY <1>1, <1>2, <1>3 DEF KeepsIds

\* Every step keeps the call graph live.
LEMMA CallsStep ==
  ASSUME NoContainers, MaxSwallow = 0, CallsInv, [Next]_vars
  PROVE  CallsInv'
<1>1. /\ IdsInv' /\ IdsInv
      /\ cpg # None => GoodTree(cpg.ast, nextId, deleted) /\ GoodCalls(cpg, source)
      /\ cpg' # None => GoodTree(cpg'.ast, nextId', deleted')
      /\ edits' = edits + 1 => Stable(cpg.ast, cpg'.ast, nextId)
      /\ disk # None => GoodCalls(disk.cpg, disk.source)
  BY TreesAreGood DEF CallsInv
<1>2. ASSUME Built \/ Updated, Flat(source'), disk' = disk PROVE CallsInv'
  <2>1. CASE Built
    <3>1. ASSUME cpg' # None PROVE GoodCalls(cpg', source')
      <4>1. Identified(Methods(cpg'.ast))
        BY <1>1, <3>1, MethodFacts
      <4>2. LiveIn(cpg'.calls, Methods(cpg'.ast))
        BY <2>1, <4>1, FreshCalls DEF Built
      <4> QED
        BY <1>2, <2>1, <4>2 DEF Built, GoodCalls
    <3> QED
      BY <1>1, <1>2, <3>1 DEF CallsInv
  <2>2. CASE Updated
    <3>1. ASSUME cpg' # None PROVE GoodCalls(cpg', source')
      <4>1. PICK ids : UpdatedIn(ids)
        BY <2>2 DEF Updated
      <4>2. LiveIn(cpg.calls, Methods(cpg.ast))
        BY <1>1, <2>2 DEF Updated, GoodCalls
      <4>3. /\ GoodTree(cpg.ast, nextId, deleted) /\ GoodTree(cpg'.ast, nextId', deleted')
            /\ Stable(cpg.ast, cpg'.ast, nextId)
        BY <1>1, <2>2, <3>1 DEF Updated
      <4>4. LiveIn(cpg'.calls, Methods(cpg'.ast))
        BY <4>1, <4>2, <4>3, UpdatedIsLive
      <4> QED
        BY <1>2, <4>1, <4>4 DEF UpdatedIn, GoodCalls
    <3> QED
      BY <1>1, <1>2, <3>1 DEF CallsInv
  <2> QED
    BY <1>2, <2>1, <2>2
<1>3. CASE Generated /\ disk' = disk
  <2>1. PICK ids : cpg'.calls = MergedCalls(cpg.calls, Methods(cpg.ast), ids)
    BY <1>3 DEF Generated
  <2>2. GoodTree(cpg.ast, nextId, deleted) /\ GoodCalls(cpg, source)
    BY <1>1, <1>3 DEF Generated
  <2> DEFINE methods == Methods(cpg.ast)
  <2>3. Identified(methods) /\ LiveIn(cpg.calls, methods) /\ SameBut(methods, methods, ids)
    BY <2>2, MethodFacts DEF GoodCalls, SameBut
  <2> HIDE DEF methods
  <2>4. ASSUME NEW m \in methods, NEW n \in DOMAIN cpg.calls[m.id].to, cpg.calls[m.id].to[n] # None
        PROVE  \E x \in methods : x.id = cpg.calls[m.id].to[n] /\ x.item.name = n
    <3>1. m.id \in DOMAIN cpg.calls
      BY <2>3 DEF LiveIn, IdsIn
    <3> QED
      BY <2>3, <2>4, <3>1 DEF LiveIn
  <2>5. LiveIn(MergedCalls(cpg.calls, methods, ids), methods)
    BY <2>3, <2>4, MergedIsLive
  <2> QED
    BY <1>1, <1>3, <2>1, <2>2, <2>5 DEF CallsInv, Generated, GoodCalls, methods
<1>4. CASE Unmoved /\ (disk' = disk \/ Saved)
  BY <1>1, <1>4 DEF CallsInv, Unmoved, Saved
<1>5. CASE Loaded /\ disk' = disk
  BY <1>1, <1>5 DEF CallsInv, Loaded
<1> QED
  BY <1>2, <1>3, <1>4, <1>5, StepKinds

\* The call graph is live after any history of a file whose functions are at its top level:
\* it has an entry for each function under its name, and a resolved call leads to a function
\* that is there and has the name that is called.
THEOREM CallGraphStaysLive ==
  ASSUME NoContainers, MaxSwallow = 0
  PROVE  Spec => []CallGraphIsLive
<1>1. Init => CallsInv
  BY DEF Init, CallsInv, IdsInv
<1>2. CallsInv /\ [Next]_vars => CallsInv'
  BY CallsStep
<1>3. CallsInv => CallGraphIsLive
  BY DEF CallsInv, GoodCalls, LiveIn, CallGraphIsLive, IdsIn
<1> QED
  BY <1>1, <1>2, <1>3, PTL DEF Spec

\* What is cached are the calls of the tree.
CacheInv ==
  /\ CallsInv
  /\ cpg # None => callCache = CallsIn(Methods(cpg.ast))

\* Every step keeps the cache in step with the tree.
LEMMA CacheStep ==
  ASSUME NoContainers, MaxSwallow = 0, ~ Lazy, CacheInv, [Next]_vars
  PROVE  CacheInv'
<1>1. CallsInv'
  BY CallsStep DEF CacheInv
<1>2. CASE Built
  BY <1>1, <1>2 DEF Built, CacheInv
<1>3. CASE Updated
  <2>1. PICK ids : UpdatedIn(ids)
    BY <1>3 DEF Updated
  <2>2. /\ SameBut(Methods(cpg.ast), Methods(cpg'.ast), ids)
        /\ callCache' = MergedCache(callCache, Methods(cpg'.ast), ids)
    BY <2>1 DEF UpdatedIn
  <2>3. callCache = CallsIn(Methods(cpg.ast))
    BY <1>3 DEF Updated, CacheInv
  <2>4. callCache' = CallsIn(Methods(cpg'.ast))
    BY <2>2, <2>3, CacheMerged
  <2> QED
    BY <1>1, <2>4 DEF CacheInv
<1>4. CASE Unmoved
  BY <1>1, <1>4 DEF Unmoved, CacheInv
<1>5. CASE Loaded
  BY <1>1, <1>5 DEF Loaded, CacheInv
<1>6. CallsInv
  BY DEF CacheInv
<1> QED
  BY <1>2, <1>3, <1>4, <1>5, <1>6, StepKinds DEF Generated

\* The calls that are cached for the next update are the calls of the tree, after any history
\* of a file whose functions are at its top level.
THEOREM CacheStaysFresh ==
  ASSUME NoContainers, MaxSwallow = 0, ~ Lazy
  PROVE  Spec => []CacheIsFresh
<1>1. Init => CacheInv
  BY DEF Init, CacheInv, CallsInv, IdsInv
<1>2. CacheInv /\ [Next]_vars => CacheInv'
  BY CacheStep
<1>3. CacheInv => CacheIsFresh
  BY DEF CacheInv, CacheIsFresh
<1> QED
  BY <1>1, <1>2, <1>3, PTL DEF Spec

\* The dataflow edges are those of the tree, whose functions have different names.
GoodFlows(c, text) ==
  /\ DistinctNames(text) /\ SameNames(Items(c.ast), text)
  /\ c.flows = FlowsIn(Methods(c.ast))
FlowsInv ==
  /\ CacheInv
  /\ cpg # None => GoodFlows(cpg, source)
  /\ disk # None => GoodFlows(disk.cpg, disk.source)

\* The functions of a file without containers have different names.
LEMMA NamesApart ==
  ASSUME NEW ast, NEW next, NEW gone, GoodTree(ast, next, gone), Flat(Items(ast)),
         NEW text \in Seq(Item), Len(ast) = Len(text), Flat(text), DistinctNames(text),
         SameNames(Items(ast), text)
  PROVE  NamedApart(Methods(ast))
<1>1. Methods(ast) = {[id |-> ast[i].id, item |-> ast[i].item] :
                        i \in {k \in DOMAIN ast : ast[k].item.kind = "function"}}
  BY FlatMethods DEF GoodTree
<1>2. DOMAIN Items(ast) = DOMAIN ast /\ DOMAIN ast = DOMAIN text
  BY DEF Items, GoodTree
<1>3. ASSUME NEW m \in Methods(ast), NEW n \in Methods(ast), m.item.name = n.item.name
      PROVE  m = n
  <2>1. PICK i \in DOMAIN ast : m = [id |-> ast[i].id, item |-> ast[i].item]
    BY <1>1
  <2>2. PICK j \in DOMAIN ast : n = [id |-> ast[j].id, item |-> ast[j].item]
    BY <1>1
  <2>3. text[i].name = m.item.name /\ text[j].name = n.item.name
    BY <2>1, <2>2, <1>2 DEF SameNames, Items
  <2>4. NamesOf(text[i]) = {m.item.name} /\ NamesOf(text[j]) = {n.item.name}
    BY <2>3, <1>2 DEF Flat, NamesOf
  <2>5. i # j => NamesOf(text[i]) \cap NamesOf(text[j]) = {}
    BY <1>2 DEF DistinctNames
  <2>6. i = j
    BY <1>3, <2>4, <2>5
  <2> QED
    BY <2>1, <2>2, <2>6
<1> QED
  BY <1>3 DEF NamedApart

\* Every step keeps the dataflow edges those of the tree.
LEMMA FlowsStep ==
  ASSUME NoContainers, MaxSwallow = 0, ~ Lazy, CachedFlows, FlowsInv, [Next]_vars
  PROVE  FlowsInv'
<1>1. CacheInv' /\ CacheInv /\ CallsInv
  BY CacheStep DEF FlowsInv, CacheInv
<1>2. IdsInv /\ IdsInv'
  BY <1>1 DEF CacheInv, CallsInv
<1>3. ASSUME Built, DistinctNames(source'), disk' = disk PROVE FlowsInv'
  BY <1>1, <1>3 DEF Built, FlowsInv, GoodFlows, SameNames
<1>4. ASSUME Updated, NamesFollow, Flat(source'), DistinctNames(source'), disk' = disk
      PROVE  FlowsInv'
  <2>1. PICK ids : UpdatedIn(ids)
    BY <1>4 DEF Updated
  <2> DEFINE old == Methods(cpg.ast)
             new == Methods(cpg'.ast)
  <2>2. ASSUME cpg' # None PROVE cpg'.flows = FlowsIn(new)
    <3>1. /\ GoodTree(cpg.ast, nextId, deleted) /\ GoodTree(cpg'.ast, nextId', deleted')
          /\ source \in Seq(Item) /\ source' \in Seq(Item)
          /\ Len(cpg.ast) = Len(source) /\ Len(cpg'.ast) = Len(source')
      BY <1>2, <1>4, <2>2 DEF Updated, IdsInv, GoodCpg
    <3>2. Flat(Items(cpg.ast)) /\ Flat(Items(cpg'.ast)) /\ Flat(source)
      BY <1>1, <1>4, <2>1 DEF Updated, UpdatedIn, CallsInv, GoodCalls
    <3>3. /\ DistinctNames(source) /\ SameNames(Items(cpg.ast), source)
          /\ cpg.flows = FlowsIn(old) /\ callCache = CallsIn(old)
      BY <1>1, <1>4 DEF Updated, FlowsInv, GoodFlows, CacheInv
    <3>4. NamedApart(old) /\ NamedApart(new)
      <4>1. NamedApart(old)
        BY <3>1, <3>2, <3>3, NamesApart
      <4>2. SameNames(Items(cpg'.ast), source')
        BY <1>4, <3>3 DEF NamesFollow
      <4>3. NamedApart(new)
        BY <1>4, <3>1, <3>2, <4>2, NamesApart
      <4> QED
        BY <4>1, <4>3
    <3>5. Identified(old) /\ Identified(new) /\ \A m \in old \cup new : m.id # None
      BY <3>1, MethodFacts
    <3>6. SameBut(old, new, ids) /\ callCache' = CallsIn(new)
      BY <1>1, <2>1, <2>2 DEF UpdatedIn, CacheInv
    <3> DEFINE kept == {p \in FlowsIn(old) : /\ p[1] \notin ids /\ p[2] \notin ids
                                             /\ p[1] \in IdsIn(new) /\ p[2] \in IdsIn(new)}
               drawn == CachedEdges(CallsIn(new), new, ids)
    <3>7. kept \cup drawn = FlowsIn(new)
      BY <3>4, <3>5, <3>6, FlowsMerged
    <3>8. \/ ids = {} /\ cpg'.flows = FlowsIn(new) \cup drawn
          \/ cpg'.flows = kept \cup drawn
      BY <2>1, <3>3, <3>6 DEF UpdatedIn
    <3> QED
      BY <3>7, <3>8
  <2> QED
    <3>1. SameNames(Items(cpg'.ast), source')
      BY <1>4 DEF NamesFollow, Updated, FlowsInv, GoodFlows
    <3> QED
      BY <1>1, <1>4, <2>2, <3>1 DEF FlowsInv, GoodFlows
<1>5. CASE Unmoved /\ (disk' = disk \/ Saved)
  BY <1>1, <1>5 DEF Unmoved, Saved, FlowsInv
<1>6. CASE Loaded /\ disk' = disk
  BY <1>1, <1>6 DEF Loaded, FlowsInv
<1> QED
  BY <1>1, <1>3, <1>4, <1>5, <1>6, StepKinds DEF Generated

\* The interprocedural dataflow edges are those of a fresh build after any history of a file
\* whose functions are at its top level, in a language whose functions are
\* function_definition nodes.
THEOREM FlowsStayFresh ==
  ASSUME NoContainers, MaxSwallow = 0, ~ Lazy, CachedFlows
  PROVE  Spec => []FlowsAreFresh
<1>1. Init => FlowsInv
  BY DEF Init, FlowsInv, CacheInv, CallsInv, IdsInv
<1>2. FlowsInv /\ [Next]_vars => FlowsInv'
  BY FlowsStep
<1>3. FlowsInv => FlowsAreFresh
  BY DEF FlowsInv, GoodFlows, FlowsAreFresh
<1> QED
  BY <1>1, <1>2, <1>3, PTL DEF Spec

----------------------------------------------------------------------------
(***************************************************************************)
(* Control flow (CfgStaysFresh).  After any history of a file that         *)
(* declares no functions that do not return, every function has one basic  *)
(* block, and the block has the control flow of a fresh build.             *)
(*                                                                         *)
(* Again the hypotheses are where the code is right.  Only overlapped      *)
(* functions get new control flow, so a declaration elsewhere may leave    *)
(* that of the others behind; generate_function_cpg numbers blocks from a  *)
(* next number that it does not move on, so that two generations may share *)
(* a block.                                                                *)
(*                                                                         *)
(* An order of the functions (Enumerates: FileOrder of a parse, ById of    *)
(* an update) gives each function one number from the next one on, which   *)
(* no old block has (Free), and an update gives new blocks to exactly the  *)
(* functions whose old blocks it drops (BlocksMerged).                     *)
(***************************************************************************)

----------------------------------------------------------------------------
(* Functions in an order *)

\* A sequence of the functions of a set, each of them once.
Enumerates(s, S) ==
  /\ s \in Seq(S)
  /\ \A j, k \in 1 .. Len(s) : s[j].id = s[k].id => j = k
  /\ \A m \in S : \E k \in 1 .. Len(s) : s[k] = m

\* What a property that every concatenation keeps says of a flattened sequence.
LEMMA Flattened ==
  ASSUME NEW X, NEW seqs \in Seq(Seq(X)), NEW good,
         \A k \in 0 .. Len(seqs) : good[k] \subseteq Seq(X),
         <<>> \in good[0],
         \A k \in 1 .. Len(seqs) : \A x \in good[k - 1] : x \o seqs[k] \in good[k]
  PROVE  FlattenSeq(seqs) \in good[Len(seqs)]
<1> DEFINE n == Len(seqs)
           step == [k \in 1 .. n |-> [x \in good[k - 1] |-> x \o seqs[k]]]
           Is(f) == f = [i \in 1 .. n |-> IF i = 1 THEN seqs[i] ELSE f[i - 1] \o seqs[i]]
           f == CHOOSE g : Is(g)
<1>1. n \in Nat /\ \A k \in 1 .. n : seqs[k] \in Seq(X)
  BY ElementOfSeq
<1>2. /\ \A k \in 0 .. n : good[k] \subseteq Seq(X)
      /\ <<>> \in good[0]
      /\ \A k \in 1 .. n : \A x \in good[k - 1] : x \o seqs[k] \in good[k]
  OBVIOUS
<1>3. n = 0 => seqs = <<>>
  BY EmptySeq
<1>4. FlattenSeq(seqs) = IF n = 0 THEN seqs ELSE f[n]
  BY DEF FlattenSeq
<1> HIDE DEF n
<1>5. StepsStay(n, good, <<>>, step)
  BY <1>2 DEF StepsStay
<1>6. PICK t : StepsTaken(t, n, good, <<>>, step)
  BY <1>1, <1>5, Recursion
<1>7. \A k \in 1 .. n : t[k] = t[k - 1] \o seqs[k]
  <2> SUFFICES ASSUME NEW k \in 1 .. n PROVE t[k] = t[k - 1] \o seqs[k]
    OBVIOUS
  <2>1. step[k][t[k - 1]] = t[k - 1] \o seqs[k]
    <3>1. k - 1 \in 0 .. n
      BY <1>1
    <3>2. t[k - 1] \in good[k - 1]
      BY <1>6, <3>1 DEF StepsTaken
    <3> QED
      BY <3>2
  <2> HIDE DEF step
  <2>2. t[k] = step[k][t[k - 1]]
    BY <1>6 DEF StepsTaken
  <2> QED
    BY <2>1, <2>2
<1>8. \A k \in 1 .. n : t[k] = IF k = 1 THEN seqs[k] ELSE t[k - 1] \o seqs[k]
  <2>1. t[0] = <<>>
    BY <1>6 DEF StepsTaken
  <2>2. ASSUME NEW k \in 1 .. n, k = 1 PROVE t[k] = seqs[k]
    <3>1. t[1] = t[0] \o seqs[1]
      <4>1. k - 1 = 0
        BY <2>2
      <4> QED
        BY <4>1, <1>7, <2>2
    <3>2. <<>> \o seqs[1] = seqs[1]
      BY <1>1, <2>2
    <3> QED
      BY <2>1, <2>2, <3>1, <3>2
  <2> QED
    BY <1>7, <2>2
<1> DEFINE h == [k \in 1 .. n |-> t[k]]
<1>9. Is(h)
  <2>1. \A k \in 1 .. n : h[k] = IF k = 1 THEN seqs[k] ELSE h[k - 1] \o seqs[k]
    BY <1>1, <1>8
  <2> QED
    BY <2>1
<1>10. Is(f)
  BY <1>9
<1> HIDE DEF f, h
<1>11. \A i \in 1 .. n : f[i] = IF i = 1 THEN seqs[i] ELSE f[i - 1] \o seqs[i]
  BY <1>10
<1> DEFINE S == {k \in 0 .. n : k = 0 \/ f[k] \in good[k]}
<1>12. \A k \in 0 .. n : k \in S
  <2>1. ASSUME NEW k \in 0 .. n - 1, k \in S PROVE k + 1 \in S
    <3>1. PICK i \in 1 .. n : i = k + 1 /\ i - 1 = k
      BY <1>1
    <3>2. CASE i = 1
      <4>1. <<>> \o seqs[i] = seqs[i]
        BY <1>1
      <4>2. <<>> \o seqs[i] \in good[i]
        <5>1. i - 1 = 0
          BY <3>2
        <5> QED
          BY <5>1, <1>2
      <4>3. f[i] = seqs[i]
        BY <3>2, <1>11
      <4> QED
        BY <3>1, <4>1, <4>2, <4>3
    <3>3. CASE i # 1
      <4>1. f[i] = f[i - 1] \o seqs[i]
        BY <3>3, <1>11
      <4>2. f[i - 1] \in good[i - 1]
        BY <2>1, <3>1, <3>3
      <4>3. f[i - 1] \o seqs[i] \in good[i]
        BY <4>2, <1>2
      <4>4. f[i] \in good[i]
        BY <4>1, <4>3
      <4> QED
        BY <3>1, <4>4
    <3> QED
      BY <3>2, <3>3
  <2>2. 0 \in S
    BY <1>1
  <2> HIDE DEF S
  <2> QED
    BY <2>1, <2>2, <1>1, UpTo
<1>13. n # 0 => f[n] \in good[n]
  BY <1>1, <1>12
<1> QED
  BY <1>2, <1>3, <1>4, <1>13 DEF n

\* Two orders one after the other.
LEMMA EnumeratesBoth ==
  ASSUME NEW S, NEW s, Enumerates(s, S), NEW T, NEW t, Enumerates(t, T),
         \A m \in S, x \in T : m.id # x.id
  PROVE  Enumerates(s \o t, S \cup T)
<1> DEFINE a == Len(s)
           b == Len(t)
           r == s \o t
<1>1. s \in Seq(S) /\ t \in Seq(T) /\ a \in Nat /\ b \in Nat
  BY DEF Enumerates
<1>2. s \in Seq(S \cup T) /\ t \in Seq(S \cup T)
  BY <1>1
<1>3. /\ r \in Seq(S \cup T) /\ Len(r) = a + b
      /\ \A k \in 1 .. a + b : r[k] = IF k <= a THEN s[k] ELSE t[k - a]
  BY <1>2, ConcatProperties
<1>4. /\ \A k \in 1 .. a : s[k] \in S /\ r[k] = s[k]
      /\ \A k \in a + 1 .. a + b : k - a \in 1 .. b /\ t[k - a] \in T /\ r[k] = t[k - a]
  BY <1>1, <1>3, ElementOfSeq
<1>5. /\ \A j, k \in 1 .. a : s[j].id = s[k].id => j = k
      /\ \A j, k \in 1 .. b : t[j].id = t[k].id => j = k
      /\ \A m \in S : \E k \in 1 .. a : s[k] = m
      /\ \A m \in T : \E k \in 1 .. b : t[k] = m
  BY DEF Enumerates
<1> HIDE DEF r, a, b
<1>6. ASSUME NEW j \in 1 .. a + b, NEW k \in 1 .. a + b, r[j].id = r[k].id PROVE j = k
  <2>1. CASE j <= a /\ k <= a
    BY <2>1, <1>1, <1>4, <1>5, <1>6
  <2>2. CASE j > a /\ k > a
    <3>1. j - a \in 1 .. b /\ k - a \in 1 .. b /\ r[j] = t[j - a] /\ r[k] = t[k - a]
      BY <2>2, <1>1, <1>4
    <3>2. j - a = k - a
      BY <3>1, <1>5, <1>6
    <3> QED
      BY <3>2, <1>1
  <2>3. CASE j <= a /\ k > a
    <3>1. r[j] \in S /\ r[k] \in T
      BY <2>3, <1>1, <1>4
    <3> QED
      BY <3>1, <1>6
  <2>4. CASE j > a /\ k <= a
    <3>1. r[j] \in T /\ r[k] \in S
      BY <2>4, <1>1, <1>4
    <3>2. r[k].id # r[j].id
      BY <3>1
    <3> QED
      BY <3>2, <1>6
  <2> QED
    BY <2>1, <2>2, <2>3, <2>4, <1>1
<1>7. ASSUME NEW m \in S \cup T PROVE \E k \in 1 .. a + b : r[k] = m
  <2>1. CASE m \in S
    BY <2>1, <1>1, <1>4, <1>5
  <2>2. CASE m \in T
    <3>1. PICK k \in 1 .. b : t[k] = m
      BY <2>2, <1>5
    <3>2. PICK i \in 1 .. a + b : i = a + k
      BY <1>1
    <3>3. i \in a + 1 .. a + b /\ i - a = k
      BY <3>2, <1>1
    <3>4. r[i] = t[k]
      BY <3>3, <1>4
    <3> QED
      BY <3>1, <3>4
  <2> QED
    BY <2>1, <2>2
<1> QED
  BY <1>3, <1>6, <1>7 DEF Enumerates, r

\* The functions of a tree in file order are each there once.
LEMMA FileOrderEnumerates ==
  ASSUME NEW ast, NEW next, NEW gone, GoodTree(ast, next, gone)
  PROVE  Enumerates(FileOrder(ast), Methods(ast))
<1> DEFINE n == Len(ast)
           X == Methods(ast)
           Upto(k) == UNION {ToSet(MethodsOf(ast[u])) : u \in 1 .. k}
           seqs == [i \in DOMAIN ast |-> MethodsOf(ast[i])]
           good == [k \in 0 .. n |-> {q \in Seq(X) : Enumerates(q, Upto(k))}]
<1>1. ast \in Seq(Entry) /\ n \in Nat /\ DOMAIN ast = 1 .. n
  BY DEF GoodTree
<1>2. /\ \A u \in 1 .. n : WellMade(ast[u])
      /\ \A u, v \in 1 .. n : u # v => IdsOf(ast[u]) \cap IdsOf(ast[v]) = {}
  BY <1>1, OldEntries
<1>3. ASSUME NEW u \in 1 .. n PROVE Enumerates(MethodsOf(ast[u]), ToSet(MethodsOf(ast[u])))
  <2> DEFINE e == ast[u]
             ms == MethodsOf(e)
  <2>1. WellMade(e) /\ e.ids \in Seq(Nat)
    BY <1>2 DEF WellMade, Entry
  <2>2. /\ ms \in Seq(ToSet(ms))
        /\ \A j, k \in 1 .. Len(ms) : ms[j].id = ms[k].id => j = k
    <3>1. CASE e.item.kind = "function"
      <4>1. ms = <<[id |-> e.id, item |-> e.item]>>
        BY <3>1 DEF MethodsOf
      <4> QED
        BY <4>1 DEF ToSet
    <3>2. CASE e.item.kind # "function"
      <4>1. ms = [j \in 1 .. Len(e.ids) |-> [id |-> e.ids[j], item |-> e.item.methods[j]]]
        BY <2>1, <3>2 DEF MethodsOf
      <4>2. Len(ms) = Len(e.ids) /\ DOMAIN ms = 1 .. Len(e.ids)
        BY <2>1, <4>1
      <4>3. ms \in Seq(ToSet(ms))
        <5> DEFINE l == Len(e.ids)
                   val(j) == [id |-> e.ids[j], item |-> e.item.methods[j]]
        <5>1. l \in Nat /\ ms = [j \in 1 .. l |-> val(j)]
          BY <2>1, <4>1
        <5> HIDE DEF l, val, ms
        <5>2. DOMAIN ms = 1 .. l /\ \A j \in 1 .. l : ms[j] = val(j) /\ ms[j] \in ToSet(ms)
          BY <5>1 DEF ToSet
        <5> DEFINE T == ToSet(ms)
        <5> HIDE DEF T
        <5>3. \A j \in 1 .. l : val(j) \in T
          BY <5>2 DEF T
        <5>4. [j \in 1 .. l |-> val(j)] \in Seq(T)
          BY <5>1, <5>3
        <5> QED
          BY <5>1, <5>4 DEF T
      <4>4. \A j, k \in 1 .. Len(e.ids) : e.ids[j] = e.ids[k] => j = k
        BY <2>1 DEF WellMade, IsInjective
      <4> QED
        BY <4>1, <4>2, <4>3, <4>4
    <3> QED
      BY <3>1, <3>2
  <2>3. DOMAIN ms = 1 .. Len(ms)
    BY <2>2
  <2> HIDE DEF ms
  <2>4. \A m \in ToSet(ms) : \E k \in 1 .. Len(ms) : ms[k] = m
    BY <2>3 DEF ToSet
  <2> QED
    BY <2>2, <2>4 DEF Enumerates, ms
<1>4. \A u \in 1 .. n : ToSet(MethodsOf(ast[u])) \subseteq X /\ MethodsOf(ast[u]) \in Seq(X)
  <2> SUFFICES ASSUME NEW u \in 1 .. n
               PROVE  ToSet(MethodsOf(ast[u])) \subseteq X /\ MethodsOf(ast[u]) \in Seq(X)
    OBVIOUS
  <2>1. ToSet(MethodsOf(ast[u])) \subseteq X
    BY <1>1 DEF Methods
  <2>2. MethodsOf(ast[u]) \in Seq(ToSet(MethodsOf(ast[u])))
    BY <1>3 DEF Enumerates
  <2> QED
    BY <2>1, <2>2
<1>5. Upto(n) = X
  BY <1>1 DEF Methods
<1>6. seqs \in Seq(Seq(X)) /\ Len(seqs) = n /\ \A k \in 1 .. n : seqs[k] = MethodsOf(ast[k])
  BY <1>1, <1>4
<1>7. <<>> \in good[0]
  <2>1. Upto(0) = {}
    OBVIOUS
  <2>2. Enumerates(<<>>, {})
    BY DEF Enumerates
  <2> HIDE DEF Upto
  <2>3. 0 \in 0 .. n /\ <<>> \in Seq(X)
    BY <1>1
  <2> HIDE DEF X, n
  <2> QED
    BY <2>1, <2>2, <2>3
<1>8. ASSUME NEW k \in 1 .. n, NEW q \in good[k - 1] PROVE q \o seqs[k] \in good[k]
  <2>1. k - 1 \in 0 .. n /\ q \in Seq(X) /\ Enumerates(q, Upto(k - 1))
    <3>1. k - 1 \in 0 .. n
      BY <1>1
    <3> QED
      BY <3>1
  <2>2. \A m \in Upto(k - 1), x \in ToSet(MethodsOf(ast[k])) : m.id # x.id
    <3> SUFFICES ASSUME NEW u \in 1 .. k - 1, NEW m \in ToSet(MethodsOf(ast[u])),
                        NEW x \in ToSet(MethodsOf(ast[k]))
                 PROVE  m.id # x.id
      OBVIOUS
    <3>1. u \in 1 .. n /\ u # k
      BY <1>1
    <3>2. m.id \in IdsOf(ast[u]) /\ x.id \in IdsOf(ast[k])
      BY <3>1, <1>2, IdsAreNat
    <3> QED
      BY <3>1, <3>2, <1>2
  <2>3. Upto(k) = Upto(k - 1) \cup ToSet(MethodsOf(ast[k]))
    <3>1. \A u : u \in 1 .. k <=> u \in 1 .. k - 1 \/ u = k
      BY <1>1
    <3> QED
      BY <3>1
  <2>4. Enumerates(q \o seqs[k], Upto(k))
    <3>1. Enumerates(MethodsOf(ast[k]), ToSet(MethodsOf(ast[k])))
      BY <1>3
    <3> DEFINE T == ToSet(MethodsOf(ast[k]))
               t == MethodsOf(ast[k])
               U == Upto(k - 1)
    <3>2. seqs[k] = t
      BY <1>6
    <3>3. Enumerates(q, U) /\ Enumerates(t, T) /\ \A m \in U, x \in T : m.id # x.id
      BY <2>1, <2>2, <3>1
    <3>4. Upto(k) = U \cup T
      BY <2>3
    <3> HIDE DEF Upto, T, U, t, seqs
    <3>5. Enumerates(q \o t, U \cup T)
      BY <3>3, EnumeratesBoth
    <3> QED
      BY <3>2, <3>4, <3>5
  <2>5. q \o seqs[k] \in Seq(X)
    BY <2>1, <1>4, <1>6
  <2> QED
    BY <2>4, <2>5
<1>9. \A k \in 0 .. n : good[k] \subseteq Seq(X)
  OBVIOUS
<1>10. \A q \in good[n] : Enumerates(q, X)
  <2> HIDE DEF Upto
  <2>1. n \in 0 .. n
    BY <1>1
  <2> HIDE DEF n, X
  <2>2. good[n] = {q \in Seq(X) : Enumerates(q, Upto(n))}
    BY <2>1
  <2> QED
    BY <2>2, <1>5
<1>11. FileOrder(ast) = FlattenSeq(seqs)
  BY DEF FileOrder
<1> HIDE DEF good, seqs, n, X
<1>12. FlattenSeq(seqs) \in good[n]
  BY <1>6, <1>7, <1>8, <1>9, Flattened
<1> QED
  BY <1>10, <1>11, <1>12 DEF X

\* There are as many functions as ids of theirs.
LEMMA FiniteFunctions ==
  ASSUME NEW S, Identified(S), IsFiniteSet(IdsIn(S))
  PROVE  IsFiniteSet(S) /\ Cardinality(S) \in Nat
<1> DEFINE f == [m \in S |-> m.id]
<1>1. f \in Injection(S, IdsIn(S))
  BY DEF Injection, IsInjective, Identified, IdsIn
<1> HIDE DEF f
<1> QED
  BY <1>1, FS_Injection, FS_CardinalityType

\* So are those of any finite set by their ids.
LEMMA ByIdEnumerates ==
  ASSUME NEW S, Identified(S), \A m \in S : m.id \in Nat, IsFiniteSet(IdsIn(S))
  PROVE  Enumerates(ById(S), S)
<1> DEFINE Up(m) == {x \in S : x.id <= m.id}
           n == Cardinality(S)
           place == [m \in S |-> Cardinality(Up(m))]
<1>1. IsFiniteSet(S) /\ n \in Nat
  BY FiniteFunctions
<1>2. ASSUME NEW m \in S
      PROVE  /\ IsFiniteSet(Up(m)) /\ Cardinality(Up(m)) \in 1 .. n
  <2>1. IsFiniteSet(Up(m)) /\ Cardinality(Up(m)) \in Nat /\ Cardinality(Up(m)) <= n
    BY <1>1, FS_Subset, FS_CardinalityType
  <2>2. m \in Up(m)
    OBVIOUS
  <2>3. Cardinality(Up(m)) # 0
    BY <2>1, <2>2, FS_EmptySet
  <2> QED
    BY <2>1, <2>3, <1>1
<1>3. ASSUME NEW l \in S, NEW m \in S, l.id < m.id PROVE Cardinality(Up(l)) # Cardinality(Up(m))
  <2>1. Up(l) \in SUBSET Up(m)
    <3>1. \A x \in S : x.id <= l.id => x.id <= m.id
      BY <1>3
    <3> QED
      BY <3>1
  <2>2. m \in Up(m) /\ m \notin Up(l)
    BY <1>3
  <2>3. Cardinality(Up(m)) = Cardinality(Up(l)) => Up(m) = Up(l)
    BY <1>2, <2>1, FS_Subset
  <2> QED
    BY <2>2, <2>3
<1>4. \A l, m \in S : place[l] = place[m] => l = m
  <2> SUFFICES ASSUME NEW l \in S, NEW m \in S, l # m PROVE place[l] # place[m]
    OBVIOUS
  <2>1. l.id # m.id
    BY DEF Identified
  <2>2. l.id < m.id \/ m.id < l.id
    BY <2>1
  <2> QED
    BY <2>2, <1>3
<1>5. place \in Injection(S, 1 .. n)
  BY <1>2, <1>4 DEF Injection, IsInjective
<1>6. place \in Surjection(S, 1 .. n)
  <2>1. IsFiniteSet(1 .. n) /\ Cardinality(1 .. n) = n
    BY <1>1, FS_Interval
  <2> HIDE DEF place
  <2> QED
    BY <2>1, <1>5, FS_Injection
<1>7. /\ \A m \in S : place[m] \in 1 .. n /\ place[m] = Cardinality(Up(m))
      /\ \A k \in 1 .. n : \E m \in S : place[m] = k
  BY <1>6 DEF Surjection
<1> DEFINE s == ById(S)
<1>8. s = [k \in 1 .. n |-> CHOOSE m \in S : Cardinality(Up(m)) = k]
  BY DEF ById
<1> HIDE DEF place, n, s, Up
<1>9. \A k \in 1 .. n : s[k] \in S /\ place[s[k]] = k
  BY <1>7, <1>8
<1>10. s \in Seq(S) /\ Len(s) = n
  <2>1. DOMAIN s = 1 .. n /\ s = [k \in 1 .. n |-> s[k]]
    BY <1>8
  <2> QED
    BY <1>1, <1>9, <2>1
<1>11. \A j, k \in 1 .. n : s[j].id = s[k].id => j = k
  BY <1>9 DEF Identified
<1>12. \A m \in S : \E k \in 1 .. n : s[k] = m
  BY <1>4, <1>7, <1>9
<1> QED
  BY <1>10, <1>11, <1>12 DEF Enumerates, s

----------------------------------------------------------------------------
(* Blocks *)

\* The number after the last block is above them all.
LEMMA AfterAll ==
  ASSUME NEW blocks, DOMAIN blocks \subseteq Nat, NEW n \in Nat, \A b \in DOMAIN blocks : b < n
  PROVE  BlocksAfter(blocks) \in Nat /\ \A b \in DOMAIN blocks : b < BlocksAfter(blocks)
<1> DEFINE S == DOMAIN blocks
           top == CHOOSE x \in S : \A y \in S : y <= x
<1>1. n \in Nat /\ \A x \in S : x \in Nat /\ x < n
  OBVIOUS
<1>2. BlocksAfter(blocks) = IF S = {} THEN 0 ELSE top + 1
  BY DEF BlocksAfter, Max0
<1> HIDE DEF S
<1>3. ASSUME S # {} PROVE \E x \in S : \A y \in S : y <= x
  <2>1. {n - x : x \in S} \in SUBSET Nat /\ {n - x : x \in S} # {}
    BY <1>1, <1>3
  <2>2. PICK m \in {n - x : x \in S} : \A k \in {n - x : x \in S} : m <= k
    BY <2>1, LeastExists
  <2>3. PICK x \in S : m = n - x
    OBVIOUS
  <2>4. ASSUME NEW y \in S PROVE y <= x
    <3>1. n - x <= n - y
      BY <2>2, <2>3
    <3> QED
      BY <3>1, <1>1
  <2> QED
    BY <2>4
<1>4. S # {} => top \in S /\ \A y \in S : y <= top
  BY <1>3
<1> HIDE DEF top
<1>5. BlocksAfter(blocks) \in Nat /\ \A x \in S : x < BlocksAfter(blocks)
  BY <1>1, <1>2, <1>4
<1> QED
  BY <1>5 DEF S

\* No file has a declaration, and so no call ends the control flow of a function.
PlainItem == {x \in Item : x.methods = <<>> /\ x.kind # "declaration"}

\* Every function has a block of its own, and there are no other blocks.
Placed(at, blocks, methods) ==
  /\ DOMAIN blocks \subseteq Nat
  /\ IdsIn(methods) \subseteq DOMAIN at
  /\ \A m \in methods : /\ at[m.id] \in DOMAIN blocks
                        /\ blocks[at[m.id]] = [function |-> m.id, ends |-> {}]
  /\ \A b \in DOMAIN blocks : \E m \in methods : b = at[m.id]

\* The blocks that are made for functions in an order are theirs, numbered from `start`.
LEMMA NewPlaced ==
  ASSUME NEW ast, Noreturn(ast) = {}, NEW S, NEW s, Enumerates(s, S), NEW start \in Nat
  PROVE  /\ Placed(NewAt(s, start), NewBlocks(ast, s, start), S)
         /\ DOMAIN NewAt(s, start) = IdsIn(S)
         /\ \E n \in Nat : \A b \in DOMAIN NewBlocks(ast, s, start) : start <= b /\ b < n
<1> DEFINE l == Len(s)
           at == NewAt(s, start)
           blocks == NewBlocks(ast, s, start)
<1>1. /\ s \in Seq(S) /\ l \in Nat /\ DOMAIN s = 1 .. l
      /\ \A k \in 1 .. l : s[k] \in S
      /\ \A j, k \in 1 .. l : s[j].id = s[k].id => j = k
      /\ \A m \in S : \E k \in 1 .. l : s[k] = m
  BY ElementOfSeq DEF Enumerates
<1>2. DOMAIN blocks = start .. start + l - 1
  BY DEF NewBlocks
<1>3. ToSet(s) = S
  BY <1>1 DEF ToSet
<1>4. /\ DOMAIN at = IdsIn(S)
      /\ \A i \in IdsIn(S) : at[i] = start - 1 + CHOOSE k \in 1 .. l : s[k].id = i
  BY <1>1, <1>3 DEF NewAt, IdsIn
<1>5. \A b \in start .. start + l - 1 :
        blocks[b] = [function |-> s[b - start + 1].id,
                     ends |-> s[b - start + 1].item.calls \cap Noreturn(ast)]
  BY DEF NewBlocks
<1> HIDE DEF at, blocks, l
<1>6. ASSUME NEW k \in 1 .. l PROVE at[s[k].id] = start - 1 + k
  <2>1. s[k].id \in IdsIn(S)
    BY <1>1 DEF IdsIn
  <2>2. (CHOOSE j \in 1 .. l : s[j].id = s[k].id) = k
    BY <1>1
  <2> QED
    BY <1>4, <2>1, <2>2
<1>7. ASSUME NEW m \in S
      PROVE  at[m.id] \in DOMAIN blocks /\ blocks[at[m.id]] = [function |-> m.id, ends |-> {}]
  <2>1. PICK k \in 1 .. l : s[k] = m
    BY <1>1
  <2>2. PICK b \in start .. start + l - 1 : b = start - 1 + k /\ b - start + 1 = k
    BY <1>1
  <2>3. at[m.id] = b
    BY <1>6, <2>1, <2>2
  <2>4. blocks[b] = [function |-> m.id, ends |-> {}]
    BY <1>5, <2>1, <2>2
  <2> QED
    BY <1>2, <2>3, <2>4
<1>8. ASSUME NEW b \in DOMAIN blocks PROVE \E m \in S : b = at[m.id]
  <2>1. PICK k \in 1 .. l : b = start - 1 + k
    <3>1. b - start + 1 \in 1 .. l /\ b = start - 1 + (b - start + 1)
      BY <1>1, <1>2
    <3> QED
      BY <3>1
  <2> QED
    BY <1>1, <1>6, <2>1
<1>9. start + l \in Nat /\ \A b \in DOMAIN blocks : b \in Nat /\ start <= b /\ b < start + l
  BY <1>1, <1>2
<1>10. Placed(at, blocks, S)
  BY <1>4, <1>7, <1>8, <1>9 DEF Placed
<1> QED
  BY <1>4, <1>9, <1>10 DEF at, blocks

\* The number after the last block is free.
Free(blocks, next) == next \in Nat /\ \A b \in DOMAIN blocks : b < next

\* When the functions of an update get blocks with new numbers and the others keep theirs,
\* every function has one again.
LEMMA BlocksMerged ==
  ASSUME NEW ast, Noreturn(ast) = {}, NEW old, NEW new, NEW ids, SameBut(old, new, ids),
         Identified(new), \A m \in new : m.id \in Nat, IsFiniteSet(IdsIn(new)),
         NEW at, NEW blocks, Placed(at, blocks, old), NEW next, Free(blocks, next),
         NEW local, DOMAIN local \subseteq ids
  PROVE  LET rebuilt == ById({m \in new : m.id \in ids})
             merged == Insert(NewBlocks(ast, rebuilt, next), OtherBlocks(blocks, ids))
         IN /\ Placed(Insert(NewAt(rebuilt, next),
                        Insert([i \in IdsIn(new) \cap ids |-> None],
                          Insert(local, Part(at, IdsIn(new))))), merged, new)
            /\ BlocksAfter(merged) \in Nat
            /\ \A b \in DOMAIN merged : b < BlocksAfter(merged)
<1> DEFINE S == {m \in new : m.id \in ids}
           rebuilt == ById(S)
           newAt == NewAt(rebuilt, next)
           newBlocks == NewBlocks(ast, rebuilt, next)
           others == OtherBlocks(blocks, ids)
           merged == Insert(newBlocks, others)
           none == [i \in IdsIn(new) \cap ids |-> None]
           kept == Insert(local, Part(at, IdsIn(new)))
           under == Insert(none, kept)
           mergedAt == Insert(newAt, under)
<1>1. next \in Nat /\ \A b \in DOMAIN blocks : b < next
  BY DEF Free
<1>2. Enumerates(rebuilt, S)
  <2>1. IdsIn(S) \in SUBSET IdsIn(new)
    BY DEF IdsIn
  <2>2. IsFiniteSet(IdsIn(S))
    BY <2>1, FS_Subset
  <2>3. Identified(S) /\ \A m \in S : m.id \in Nat
    BY DEF Identified
  <2> HIDE DEF S
  <2> QED
    BY <2>2, <2>3, ByIdEnumerates
<1>3. /\ Placed(newAt, newBlocks, S) /\ DOMAIN newAt = IdsIn(S)
      /\ \E n \in Nat : \A b \in DOMAIN newBlocks : next <= b /\ b < n
  BY <1>1, <1>2, NewPlaced
<1>4. PICK n \in Nat : \A b \in DOMAIN newBlocks : next <= b /\ b < n
  BY <1>3
<1> HIDE DEF newAt, newBlocks, rebuilt
<1>5. /\ DOMAIN newBlocks \subseteq Nat /\ DOMAIN blocks \subseteq Nat
      /\ \A m \in S : /\ newAt[m.id] \in DOMAIN newBlocks
                      /\ newBlocks[newAt[m.id]] = [function |-> m.id, ends |-> {}]
      /\ \A b \in DOMAIN newBlocks : \E m \in S : b = newAt[m.id]
      /\ IdsIn(old) \subseteq DOMAIN at
      /\ \A m \in old : /\ at[m.id] \in DOMAIN blocks
                        /\ blocks[at[m.id]] = [function |-> m.id, ends |-> {}]
      /\ \A b \in DOMAIN blocks : \E m \in old : b = at[m.id]
  BY <1>3 DEF Placed
<1>6. /\ DOMAIN others = {b \in DOMAIN blocks : blocks[b].function \notin ids}
      /\ \A b \in DOMAIN others : others[b] = blocks[b]
  BY DEF OtherBlocks, Part, Restrict
<1>7. /\ DOMAIN merged = DOMAIN newBlocks \cup DOMAIN others
      /\ \A b \in DOMAIN newBlocks : merged[b] = newBlocks[b]
      /\ \A b \in DOMAIN others : b \notin DOMAIN newBlocks /\ merged[b] = blocks[b]
  <2>1. \A b \in DOMAIN others : b \notin DOMAIN newBlocks
    BY <1>1, <1>4, <1>5, <1>6
  <2> HIDE DEF others
  <2> QED
    BY <1>6, <2>1 DEF Insert
<1>8. /\ DOMAIN kept = DOMAIN local \cup (DOMAIN at \cap IdsIn(new))
      /\ \A i \in DOMAIN at \cap IdsIn(new) : i \notin ids => kept[i] = at[i]
  BY DEF Insert, Part, Restrict
<1> HIDE DEF kept, others
<1>9. /\ DOMAIN mergedAt = IdsIn(S) \cup (IdsIn(new) \cap ids) \cup DOMAIN kept
      /\ \A m \in S : mergedAt[m.id] = newAt[m.id]
      /\ \A i \in DOMAIN kept : i \notin ids => mergedAt[i] = kept[i]
  <2>1. /\ DOMAIN under = (IdsIn(new) \cap ids) \cup DOMAIN kept
        /\ \A i \in DOMAIN kept : i \notin ids => under[i] = kept[i]
    BY DEF Insert
  <2> HIDE DEF under
  <2>2. /\ DOMAIN mergedAt = IdsIn(S) \cup DOMAIN under
        /\ \A i \in IdsIn(S) : mergedAt[i] = newAt[i]
        /\ \A i \in DOMAIN under : i \notin IdsIn(S) => mergedAt[i] = under[i]
    BY <1>3 DEF Insert
  <2>3. \A i \in IdsIn(S) : i \in ids
    BY DEF IdsIn
  <2>4. \A m \in S : m.id \in IdsIn(S)
    BY DEF IdsIn
  <2> HIDE DEF mergedAt, S
  <2> QED
    BY <2>1, <2>2, <2>3, <2>4
<1> HIDE DEF merged, mergedAt, under
<1>10. ASSUME NEW m \in new, m.id \notin ids
       PROVE  m \in old /\ m.id \in DOMAIN mergedAt /\ mergedAt[m.id] = at[m.id]
  <2>1. m \in old
    BY <1>10 DEF SameBut
  <2>2. m.id \in DOMAIN at \cap IdsIn(new)
    BY <1>5, <2>1 DEF IdsIn
  <2> QED
    BY <1>8, <1>9, <1>10, <2>1, <2>2
<1>11. ASSUME NEW m \in new
       PROVE  /\ m.id \in DOMAIN mergedAt
              /\ mergedAt[m.id] \in DOMAIN merged
              /\ merged[mergedAt[m.id]] = [function |-> m.id, ends |-> {}]
  <2>1. CASE m.id \in ids
    <3>1. m \in S /\ m.id \in IdsIn(new) \cap ids
      BY <2>1 DEF IdsIn
    <3>2. /\ newAt[m.id] \in DOMAIN newBlocks
          /\ newBlocks[newAt[m.id]] = [function |-> m.id, ends |-> {}]
      BY <3>1, <1>5
    <3>3. m.id \in DOMAIN mergedAt /\ mergedAt[m.id] = newAt[m.id]
      BY <3>1, <1>9
    <3> QED
      BY <3>2, <3>3, <1>7
  <2>2. CASE m.id \notin ids
    <3> DEFINE b == at[m.id]
    <3>1. m \in old /\ m.id \in DOMAIN mergedAt /\ mergedAt[m.id] = b
      BY <2>2, <1>10
    <3>2. b \in DOMAIN blocks /\ blocks[b] = [function |-> m.id, ends |-> {}]
      BY <3>1, <1>5
    <3> HIDE DEF b
    <3>3. b \in DOMAIN others
      BY <2>2, <3>2, <1>6
    <3> QED
      BY <3>1, <3>2, <3>3, <1>7
  <2> QED
    BY <2>1, <2>2
<1>12. ASSUME NEW b \in DOMAIN merged PROVE \E m \in new : b = mergedAt[m.id]
  <2>1. CASE b \in DOMAIN newBlocks
    BY <2>1, <1>5, <1>9
  <2>2. CASE b \in DOMAIN others
    <3>1. PICK m \in old : b = at[m.id]
      BY <2>2, <1>5, <1>6
    <3>2. m.id \notin ids
      <4>1. blocks[b] = [function |-> m.id, ends |-> {}]
        BY <3>1, <1>5
      <4> QED
        BY <2>2, <4>1, <1>6
    <3>3. m \in new
      BY <3>2 DEF SameBut
    <3> QED
      BY <3>1, <3>2, <3>3, <1>10
  <2> QED
    BY <2>1, <2>2, <1>7
<1>13. DOMAIN merged \subseteq Nat
  BY <1>5, <1>6, <1>7
<1>14. Placed(mergedAt, merged, new)
  BY <1>11, <1>12, <1>13 DEF Placed, IdsIn
<1>15. BlocksAfter(merged) \in Nat /\ \A b \in DOMAIN merged : b < BlocksAfter(merged)
  <2>1. \A b \in DOMAIN merged : b < n + next
    BY <1>1, <1>4, <1>5, <1>6, <1>7
  <2>2. n + next \in Nat
    BY <1>1
  <2> QED
    BY <1>13, <2>1, <2>2, AfterAll
<1> QED
  BY <1>14, <1>15 DEF merged, mergedAt, under, kept, none, newAt, newBlocks, others, rebuilt

----------------------------------------------------------------------------
(* The operations *)

\* The items of the trees and sources are of the set.
ItemsInv(S) ==
  /\ IdsInv
  /\ cpg # None => Among(S, Items(cpg.ast)) /\ Among(S, source)
  /\ disk # None => Among(S, Items(disk.cpg.ast)) /\ Among(S, disk.source)

\* Whatever set the items come from, every step stays inside it.
LEMMA ItemsStep ==
  ASSUME NEW S, TextsAmong(S), ItemsInv(S), [Next]_vars
  PROVE  ItemsInv(S)'
<1>0. /\ cpg # None => /\ GoodCpg(cpg, source, nextId, deleted)
                       /\ Among(S, Items(cpg.ast)) /\ Among(S, source)
      /\ disk # None => Among(S, Items(disk.cpg.ast)) /\ Among(S, disk.source)
      /\ IdsInv'
  BY IdsStep DEF ItemsInv, IdsInv
<1>1. ASSUME NEW file \in Files, Open(file) \/ Reparse(file) PROVE ItemsInv(S)'
  <2>1. file \in Seq(Item) /\ DistinctNames(file) /\ Among(S, file)
    BY TextAssumption DEF TextsAmong
  <2>2. (ParseFull(file) \/ ParseLightweight(file)) /\ disk' = disk
    BY <1>1 DEF Open, Reparse
  <2>3. source' = file /\ Items(cpg'.ast) = file
    BY <2>1, <2>2, ParseFacts DEF ParseFull, ParseLightweight
  <2> QED
    BY <1>0, <2>1, <2>2, <2>3 DEF ItemsInv
<1>2. CASE Generate
  <2>1. PICK ids \in SUBSET MethodIds(cpg.ast) : GenerateFunctionCpg(ids)
    BY <1>2 DEF Generate
  <2>2. cpg # None /\ source' = source /\ disk' = disk
    BY <1>2, <2>1 DEF Generate, GenerateFunctionCpg
  <2>3. cpg'.ast = cpg.ast
    BY <1>0, <2>1, <2>2 DEF GenerateFunctionCpg, GoodCpg
  <2> QED
    BY <1>0, <2>2, <2>3 DEF ItemsInv
<1>3. CASE Edit
  <2>1. PICK e \in Edits(source) : ApplyEdit(e)
    BY <1>3 DEF Edit
  <2>2. disk' = disk /\ cpg # None /\ source' = Applied(source, e)
    BY <1>3, <2>1 DEF Edit, ApplyEdit
  <2>3. GoodCpg(cpg, source, nextId, deleted) /\ Among(S, Items(cpg.ast)) /\ Among(S, source)
    BY <1>0, <2>2
  <2>4. source \in Seq(Item) /\ Len(cpg.ast) = Len(source) /\ cpg.ast \in Seq(Entry)
    BY <2>3 DEF GoodCpg, GoodTree
  <2>5. /\ EditShape(e, Len(source)) /\ DistinctNames(source')
        /\ \A k \in DOMAIN e.new : OwnNames(e.new[k])
    BY <2>2, <2>4, EditsHaveShape
  <2>6. Among(S, e.new)
    <3>1. e.new \in NewTexts
      BY DEF Edits
    <3> QED
      BY <3>1 DEF TextsAmong
  <2>7. Among(S, source')
    BY <2>2, <2>3, <2>4, <2>5, <2>6, AmongApplied
  <2>8. Among(S, Items(cpg'.ast))
    <3>1. CASE Rebuild(source')
      <4>1. source' \in Seq(Item)
        BY <2>2, <2>4, <2>5, AppliedFacts
      <4>2. Items(cpg'.ast) = source'
        BY <3>1, <4>1, <2>3, <2>5, RebuildKeepsIds
      <4> QED
        BY <4>2, <2>7
    <3>2. CASE TargetedUpdate(e)
      <4>1. Items(cpg'.ast) = Applied(Items(cpg.ast), e)
        BY <3>2, <2>3, <2>4, <2>5, TargetedKeepsIds
      <4>2. Items(cpg.ast) \in Seq(Item) /\ Len(Items(cpg.ast)) = Len(source)
        BY <2>4, ItemsAreItems
      <4> QED
        BY <4>1, <4>2, <2>3, <2>5, <2>6, AmongApplied
    <3> QED
      BY <2>1, <3>1, <3>2 DEF ApplyEdit
  <2> QED
    BY <1>0, <2>2, <2>7, <2>8 DEF ItemsInv
<1>4. CASE EditTwice
  <2>1. PICK file \in Files : ApplyEdits(file)
    BY <1>4 DEF EditTwice
  <2>2. file \in Seq(Item) /\ DistinctNames(file) /\ Among(S, file)
    BY TextAssumption DEF TextsAmong
  <2>3. Rebuild(file) /\ source' = file /\ disk' = disk /\ cpg # None
    BY <1>4, <2>1 DEF EditTwice, ApplyEdits
  <2>4. Items(cpg'.ast) = file
    BY <1>0, <2>2, <2>3, RebuildKeepsIds
  <2> QED
    BY <1>0, <2>2, <2>3, <2>4 DEF ItemsInv
<1>5. CASE ExtendLast
  <2>1. PICK i \in DOMAIN source, new \in NewTexts : Len(new) = 1 /\ Extend(i, new[1])
    BY <1>5 DEF ExtendLast
  <2> DEFINE edit == [lo |-> i + 1, hi |-> i, swallow |-> 0, new |-> <<>>]
  <2>2. /\ disk' = disk /\ cpg # None
        /\ source' = [source EXCEPT ![i] = new[1]] /\ TargetedUpdate(edit)
    BY <1>5, <2>1 DEF ExtendLast, Extend
  <2>3. GoodCpg(cpg, source, nextId, deleted) /\ Among(S, Items(cpg.ast)) /\ Among(S, source)
    BY <1>0, <2>2
  <2>4. source \in Seq(Item) /\ Len(cpg.ast) = Len(source) /\ cpg.ast \in Seq(Entry)
    BY <2>3 DEF GoodCpg, GoodTree
  <2>5. EditShape(edit, Len(source)) /\ \A k \in DOMAIN edit.new : OwnNames(edit.new[k])
    BY <2>4 DEF EditShape
  <2>6. Among(S, edit.new)
    BY DEF Among
  <2>7. Among(S, source')
    <3>1. new[1] \in S
      <4>1. 1 \in DOMAIN new
        BY <2>1, TextAssumption
      <4> QED
        BY <4>1 DEF TextsAmong, Among
    <3>2. \A j \in DOMAIN source' : source'[j] = IF j = i THEN new[1] ELSE source[j]
      BY <2>2
    <3>3. DOMAIN source' = DOMAIN source
      BY <2>2
    <3> QED
      BY <2>3, <3>1, <3>2, <3>3 DEF Among
  <2> HIDE DEF edit
  <2>8. Items(cpg'.ast) = Applied(Items(cpg.ast), edit)
    BY <2>2, <2>3, <2>4, <2>5, TargetedKeepsIds
  <2>9. Items(cpg.ast) \in Seq(Item) /\ Len(Items(cpg.ast)) = Len(source)
    BY <2>4, ItemsAreItems
  <2>10. Among(S, Items(cpg'.ast))
    BY <2>3, <2>5, <2>6, <2>8, <2>9, AmongApplied
  <2> QED
    BY <1>0, <2>2, <2>7, <2>10 DEF ItemsInv
<1>6. CASE SaveState
  BY <1>0, <1>6 DEF SaveState, ItemsInv
<1>7. CASE LoadState
  BY <1>0, <1>7 DEF LoadState, Derive, ItemsInv
<1>8. CASE InitFromCache
  BY <1>0, <1>8 DEF InitFromCache, Derive, ItemsInv
<1>9. CASE UNCHANGED vars
  BY <1>0, <1>9 DEF vars, ItemsInv
<1> QED
  BY <1>1, <1>2, <1>3, <1>4, <1>5, <1>6, <1>7, <1>8, <1>9 DEF Next

\* A tree of such items has no declarations.
LEMMA NothingDeclared ==
  ASSUME NEW ast, Among(PlainItem, Items(ast))
  PROVE  Noreturn(ast) = {}
BY DEF Among, PlainItem, Items, Noreturn

\* Functions and blocks of a CPG, and of the generator and the file it was saved in.
HasBlocks(c) ==
  /\ Placed(c.at, c.blocks, Methods(c.ast))
  /\ \E n : Free(c.blocks, n)
BlocksInv ==
  /\ CallsInv
  /\ ItemsInv(PlainItem)
  /\ cpg # None => HasBlocks(cpg) /\ Free(cpg.blocks, nextBB)
  /\ disk # None => HasBlocks(disk.cpg)

\* The blocks a generator is given leave the next number free.
LEMMA NextIsFree ==
  ASSUME NEW c, HasBlocks(c)
  PROVE  Free(c.blocks, BlocksAfter(c.blocks))
<1>1. PICK n : Free(c.blocks, n)
  BY DEF HasBlocks
<1> QED
  BY <1>1, AfterAll DEF HasBlocks, Placed, Free

\* Every step leaves every function with a block.
LEMMA BlocksStep ==
  ASSUME TextsAmong(PlainItem), MaxSwallow = 0, ~ Lazy, BlocksInv, [Next]_vars
  PROVE  BlocksInv'
<1>0. NoContainers
  BY DEF TextsAmong, Among, PlainItem, NoContainers, Flat
<1>1. CallsInv /\ CallsInv' /\ ItemsInv(PlainItem)' /\ IdsInv
  BY <1>0, CallsStep, ItemsStep DEF BlocksInv, CallsInv
<1>2. /\ cpg # None => /\ GoodTree(cpg.ast, nextId, deleted)
                       /\ HasBlocks(cpg) /\ Free(cpg.blocks, nextBB)
      /\ cpg' # None => GoodTree(cpg'.ast, nextId', deleted') /\ Among(PlainItem, Items(cpg'.ast))
      /\ disk # None => HasBlocks(disk.cpg)
  BY <1>1, TreesAreGood DEF BlocksInv, ItemsInv
<1>3. ASSUME Built \/ Updated, cpg' # None
      PROVE  HasBlocks(cpg') /\ Free(cpg'.blocks, nextBB')
  <2> DEFINE new == Methods(cpg'.ast)
  <2>1. GoodTree(cpg'.ast, nextId', deleted') /\ Noreturn(cpg'.ast) = {}
    BY <1>2, <1>3, NothingDeclared
  <2>2. /\ Identified(new) /\ \A m \in new : m.id \in Nat
        /\ IsFiniteSet(IdsIn(new))
    BY <2>1, MethodFacts
  <2>3. CASE Built
    <3> DEFINE s == FileOrder(cpg'.ast)
    <3>1. /\ cpg'.at = NewAt(s, 0)
          /\ cpg'.blocks = NewBlocks(cpg'.ast, s, 0)
          /\ nextBB' = BlocksAfter(cpg'.blocks)
      BY <2>3 DEF Built
    <3>2. Enumerates(s, new)
      BY <2>1, FileOrderEnumerates
    <3> HIDE DEF s, new
    <3>3. /\ Placed(NewAt(s, 0), NewBlocks(cpg'.ast, s, 0), new)
          /\ DOMAIN NewAt(s, 0) = IdsIn(new)
          /\ \E n \in Nat : \A b \in DOMAIN NewBlocks(cpg'.ast, s, 0) : 0 <= b /\ b < n
      BY <2>1, <3>2, NewPlaced
    <3>4. PICK n \in Nat : \A b \in DOMAIN cpg'.blocks : b < n
      BY <3>1, <3>3
    <3>5. Placed(cpg'.at, cpg'.blocks, new)
      BY <3>1, <3>3
    <3>6. DOMAIN cpg'.blocks \subseteq Nat
      BY <3>5 DEF Placed
    <3>7. Free(cpg'.blocks, nextBB')
      BY <3>1, <3>4, <3>6, AfterAll DEF Free
    <3> QED
      BY <3>5, <3>7 DEF HasBlocks, new
  <2>4. CASE Updated
    <3>1. PICK ids : UpdatedIn(ids)
      BY <2>4 DEF Updated
    <3>2. PICK affected : Reblocked(affected)
      BY <3>1 DEF UpdatedIn
    <3> DEFINE old == Methods(cpg.ast)
               rebuilt == ById({m \in new : m.id \in affected})
               merged == Insert(NewBlocks(cpg'.ast, rebuilt, nextBB),
                           OtherBlocks(cpg.blocks, affected))
    <3>3. SameBut(old, new, affected) /\ cpg'.blocks = merged /\ nextBB' = BlocksAfter(cpg'.blocks)
      BY <3>2 DEF Reblocked
    <3>4. PICK local : /\ DOMAIN local \subseteq affected
                       /\ cpg'.at = Insert(NewAt(rebuilt, nextBB),
                                      Insert([i \in IdsIn(new) \cap affected |-> None],
                                        Insert(local, Part(cpg.at, IdsIn(new)))))
      BY <3>2 DEF Reblocked
    <3>5. Placed(cpg.at, cpg.blocks, old) /\ Free(cpg.blocks, nextBB)
      BY <1>2, <2>4 DEF Updated, HasBlocks
    <3> HIDE DEF old, new
    <3>6. /\ Placed(Insert(NewAt(rebuilt, nextBB),
                      Insert([i \in IdsIn(new) \cap affected |-> None],
                        Insert(local, Part(cpg.at, IdsIn(new))))), merged, new)
          /\ BlocksAfter(merged) \in Nat
          /\ \A b \in DOMAIN merged : b < BlocksAfter(merged)
      BY <2>1, <2>2, <3>3, <3>4, <3>5, BlocksMerged
    <3> HIDE DEF merged, rebuilt
    <3>7. Placed(cpg'.at, cpg'.blocks, new) /\ Free(cpg'.blocks, nextBB')
      BY <3>3, <3>4, <3>6 DEF Free
    <3> QED
      BY <3>7 DEF HasBlocks, new
  <2> QED
    BY <1>3, <2>3, <2>4
<1>4. CASE (Built \/ Updated) /\ disk' = disk
  BY <1>1, <1>2, <1>3, <1>4 DEF BlocksInv
<1>5. CASE Unmoved /\ (disk' = disk \/ Saved)
  BY <1>1, <1>2, <1>5 DEF BlocksInv, Unmoved, Saved
<1>6. CASE Loaded /\ disk' = disk
  <2>1. ASSUME cpg' # None PROVE HasBlocks(cpg') /\ Free(cpg'.blocks, nextBB')
    <3>1. disk # None /\ cpg' = disk.cpg /\ nextBB' = BlocksAfter(disk.cpg.blocks)
      BY <1>6, <2>1 DEF Loaded
    <3> QED
      BY <1>2, <3>1, NextIsFree
  <2> QED
    BY <1>1, <1>2, <1>6, <2>1 DEF BlocksInv
<1> QED
  BY <1>0, <1>1, <1>4, <1>5, <1>6, StepKinds DEF Generated

\* A function has one block, without control flow that ends in it, and each block is that
\* of a function.
LEMMA PlacedIsFresh ==
  ASSUME BlocksInv
  PROVE  CfgIsFresh
<1> SUFFICES ASSUME cpg # None PROVE CfgIsFresh
  BY DEF CfgIsFresh
<1> DEFINE methods == Methods(cpg.ast)
           blocks == cpg.blocks
           at == cpg.at
           own(m) == [function |-> m.id, ends |-> {}]
           place == [m \in methods |-> at[m.id]]
<1>1. GoodTree(cpg.ast, nextId, deleted) /\ Noreturn(cpg.ast) = {}
  BY NothingDeclared DEF BlocksInv, ItemsInv, IdsInv, GoodCpg
<1>2. Identified(methods) /\ IsFiniteSet(IdsIn(methods))
  BY <1>1, MethodFacts
<1>3. /\ \A m \in methods : at[m.id] \in DOMAIN blocks /\ blocks[at[m.id]] = own(m)
      /\ \A b \in DOMAIN blocks : \E m \in methods : b = at[m.id]
  BY DEF BlocksInv, HasBlocks, Placed
<1> HIDE DEF methods, blocks, at
<1> DEFINE is(b) == [function |-> blocks[b].function, ends |-> blocks[b].ends]
           should(m) == [function |-> m.id, ends |-> m.item.calls \cap Noreturn(cpg.ast)]
<1>4. {is(b) : b \in DOMAIN blocks} = {should(m) : m \in methods}
  <2>1. ASSUME NEW m \in methods PROVE is(at[m.id]) = should(m)
    <3>1. blocks[at[m.id]] = own(m)
      BY <1>3
    <3> QED
      BY <1>1, <3>1
  <2> HIDE DEF is, should, own
  <2>2. \A b \in DOMAIN blocks : \E m \in methods : is(b) = should(m)
    BY <1>3, <2>1
  <2>3. \A m \in methods : \E b \in DOMAIN blocks : should(m) = is(b)
    BY <1>3, <2>1
  <2> QED
    BY <2>2, <2>3
<1>5. Cardinality(DOMAIN blocks) = Cardinality(methods)
  <2> HIDE DEF is, should
  <2>1. place \in Bijection(methods, DOMAIN blocks)
    <3>1. \A m, n \in methods : at[m.id] = at[n.id] => m = n
      <4> SUFFICES ASSUME NEW m \in methods, NEW n \in methods, at[m.id] = at[n.id] PROVE m = n
        OBVIOUS
      <4>1. own(m) = own(n)
        BY <1>3
      <4>2. m.id = n.id
        BY <4>1
      <4> QED
        BY <4>2, <1>2 DEF Identified
    <3> QED
      BY <3>1, <1>3 DEF Bijection, Injection, Surjection, IsInjective
  <2>2. IsFiniteSet(methods)
    BY <1>2, FiniteFunctions
  <2> HIDE DEF place
  <2> QED
    BY <2>1, <2>2, FS_Bijection DEF ExistsBijection
<1>6. \A m \in methods : at[m.id] \in DOMAIN blocks /\ blocks[at[m.id]].function = m.id
  <2> SUFFICES ASSUME NEW m \in methods
               PROVE  at[m.id] \in DOMAIN blocks /\ blocks[at[m.id]].function = m.id
    OBVIOUS
  <2>1. at[m.id] \in DOMAIN blocks /\ blocks[at[m.id]] = own(m)
    BY <1>3
  <2> QED
    BY <2>1
<1> QED
  BY <1>4, <1>5, <1>6 DEF CfgIsFresh, methods, blocks, at

\* After any history of a file of plain functions, classes and specifiers, every function has
\* one basic block, which it is annotated with and which has the control flow a fresh build
\* would give it, and there are no others.
THEOREM CfgStaysFresh ==
  ASSUME TextsAmong(PlainItem), MaxSwallow = 0, ~ Lazy
  PROVE  Spec => []CfgIsFresh
<1>1. Init => BlocksInv
  BY DEF Init, BlocksInv, ItemsInv, CallsInv, IdsInv
<1>2. BlocksInv /\ [Next]_vars => BlocksInv'
  BY BlocksStep
<1>3. BlocksInv => CfgIsFresh
  BY PlacedIsFresh
<1> QED
  BY <1>1, <1>2, <1>3, PTL DEF Spec
=============================================================================
