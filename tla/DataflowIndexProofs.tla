-------------------------- MODULE DataflowIndexProofs --------------------------
(***************************************************************************)
(* For every number of threads, every dataflow graph and every order of    *)
(* the searches: the answers of the indices, and the sets they cache, are  *)
(* exact.                                                                  *)
(*                                                                         *)
(* A search is exact when it ends because of two bounds it keeps: what it  *)
(* has visited is in every closed set that holds what it began with        *)
(* (SearchBelow), and it misses no successor of a node that it has taken   *)
(* from its queue (SearchAbove). With an empty queue the visited set is    *)
(* closed itself, and so the least closed set. No induction on the length  *)
(* of paths is needed.                                                     *)
(***************************************************************************)
EXTENDS DataflowIndex, FiniteSetTheorems, TLAPS

Record == [state : States, kind : Questions, source : Nodes \cup {NoNode},
           sink : Nodes \cup {NoNode}, visited : SUBSET Nodes, queue : SUBSET Nodes,
           answer : BOOLEAN]

\* A search never leaves the sets that are closed and hold what it began with.
SearchBelow(r) ==
  \A S \in SUBSET Nodes :
    Base(r.kind, r.source) \subseteq S /\ Closed(r.kind, S) =>
      /\ r.visited \subseteq S
      /\ \A n \in r.queue : Successors(r.kind, n) \subseteq S

\* What a search has begun with and passed is visited, up to its queue.
SearchAbove(r) ==
  /\ \A n \in Base(r.kind, r.source) :
       n \in r.visited \/ (r.source \in r.queue /\ n \in Successors(r.kind, r.source))
  /\ \A n \in r.visited \ r.queue : Successors(r.kind, n) \subseteq r.visited

\* A lookup has not searched yet, and the sink is not passed unnoticed.
SearchOk(r) ==
  /\ r.state = "lookup" => r.kind = "reachable_from"
  /\ r.kind # "transitive_targets" => r.queue \subseteq r.visited
  /\ r.kind = "reaches_with_barrier" =>
       /\ r.answer = FALSE
       /\ r.sink \in r.visited => r.sink \in r.queue

\* The answer of a thread is exact.
Exact(r) ==
  IF r.kind = "reaches_with_barrier" THEN r.answer <=> r.sink \in Least(r.kind, r.source)
  ELSE r.visited = Least(r.kind, r.source)

ThreadInv(r) ==
  /\ r.state \in {"lookup", "search"} =>
       r.source \in Nodes /\ SearchBelow(r) /\ SearchAbove(r) /\ SearchOk(r)
  /\ r.state = "answered" => r.source \in Nodes /\ Exact(r)

IInv == TypeOK /\ CacheExact /\ \A t \in Threads : ThreadInv(thread[t])

-----------------------------------------------------------------------------
(* The operators.                                                          *)

LEMMA SuccessorsType ==
  ASSUME edges \in SUBSET Edges, NEW k \in Questions, NEW n
  PROVE  Successors(k, n) \in SUBSET Nodes /\ points_to(n) \in SUBSET Nodes
<1>1. \A e \in edges : e.source \in Nodes /\ e.destination \in Nodes
  BY DEF Edges
<1>2. forward(n) \in SUBSET Nodes
  BY <1>1 DEF forward, Targets
<1>3. points_to(n) \in SUBSET Nodes
  BY <1>1 DEF points_to, Targets
<1>4. backward(n) \in SUBSET Nodes
  BY <1>1 DEF backward
<1> QED BY <1>2, <1>3, <1>4 DEF Successors, Questions

LEMMA LeastBelow ==
  ASSUME NEW k, NEW s, NEW S \in SUBSET Nodes, Base(k, s) \subseteq S, Closed(k, S)
  PROVE  Least(k, s) \subseteq S
BY DEF Least

\* A set that is closed, holds the base and lies in all such sets is the least.
LEMMA LeastIs ==
  ASSUME NEW k, NEW s, NEW V \in SUBSET Nodes, Base(k, s) \subseteq V, Closed(k, V),
         \A S \in SUBSET Nodes : Base(k, s) \subseteq S /\ Closed(k, S) => V \subseteq S
  PROVE  V = Least(k, s)
<1>1. Least(k, s) \subseteq V BY LeastBelow
<1>2. V \subseteq Least(k, s) BY DEF Least
<1> QED BY <1>1, <1>2

\* The graph does not change, and so neither do the sets.
LEMMA SameGraph ==
  ASSUME edges' = edges, NEW k, NEW s
  PROVE  /\ Successors(k, s)' = Successors(k, s)
         /\ Base(k, s)' = Base(k, s)
         /\ Least(k, s)' = Least(k, s)
<1>1. \A T, n : Targets(T, n)' = Targets(T, n)
  BY DEF Targets
<1>2. \A n : Successors(k, n)' = Successors(k, n)
  BY <1>1 DEF Successors, forward, backward, points_to
<1>3. Base(k, s)' = Base(k, s)
  BY <1>1 DEF Base, points_to
<1>4. \A S : Closed(k, S)' = Closed(k, S)
  BY <1>2 DEF Closed
<1> QED BY <1>2, <1>3, <1>4 DEF Least

LEMMA InitIInv == Init => IInv
<1> SUFFICES ASSUME Init PROVE IInv
  OBVIOUS
<1>1. TypeOK
  <2>1. edges \in SUBSET Edges BY GraphsAssumption DEF Init
  <2>2. seeds \in SUBSET Nodes BY SeedsAssumption DEF Init
  <2>3. thread \in [Threads -> Record]
    BY DEF Init, Idle, States, Questions, Record
  <2>4. null_origin \in [Nodes -> Nodes \cup {NoNode}] BY DEF Init
  <2> QED BY <2>1, <2>2, <2>3, <2>4 DEF Init, TypeOK, Record
<1>2. \A t \in Threads : thread[t].state = "idle" /\ thread[t].kind = "reachable_from"
  BY DEF Init, Idle
<1>3. \A t \in Threads : ThreadInv(thread[t])
  BY <1>2 DEF ThreadInv
<1>4. CacheExact
  BY DEF CacheExact, Init
<1> QED BY <1>1, <1>3, <1>4 DEF IInv

-----------------------------------------------------------------------------
(* The steps.                                                              *)

\* While the graph stays, the invariant of a thread does too.
LEMMA SameThread ==
  ASSUME edges' = edges, NEW r
  PROVE  ThreadInv(r)' = ThreadInv(r)
<1>1. \A k, n : Successors(k, n)' = Successors(k, n) BY SameGraph
<1>2. \A k, n : Base(k, n)' = Base(k, n) BY SameGraph
<1>3. \A k, n : Least(k, n)' = Least(k, n) BY SameGraph
<1>4. \A k, S : Closed(k, S)' = Closed(k, S) BY <1>1 DEF Closed
<1>5. SearchBelow(r)' = SearchBelow(r) BY <1>1, <1>2, <1>4 DEF SearchBelow
<1>6. SearchAbove(r)' = SearchAbove(r) BY <1>1, <1>2 DEF SearchAbove
<1>7. Exact(r)' = Exact(r) BY <1>3 DEF Exact
<1> QED BY <1>5, <1>6, <1>7 DEF ThreadInv, SearchOk

\* A question begins a search that keeps its bounds.
LEMMA BeginOk ==
  ASSUME edges \in SUBSET Edges, NEW k \in Questions, NEW s \in Nodes, NEW e \in Nodes,
         NEW r, r.kind = k, r.source = s, r.sink = e, r.visited = Visited0(k, s), r.queue = {s},
         r.answer = FALSE, r.state = IF k = "reachable_from" THEN "lookup" ELSE "search"
  PROVE  ThreadInv(r)
<1>1. SearchBelow(r)
  <2> SUFFICES ASSUME NEW S \in SUBSET Nodes, Base(k, s) \subseteq S, Closed(k, S)
               PROVE  Visited0(k, s) \subseteq S /\ Successors(k, s) \subseteq S
    BY DEF SearchBelow
  <2>1. CASE k = "transitive_targets"
    BY <2>1 DEF Base, Visited0, Successors
  <2>2. CASE k # "transitive_targets"
    BY <2>2 DEF Base, Visited0, Closed
  <2> QED BY <2>1, <2>2
<1>2. SearchAbove(r)
  <2>1. CASE k = "transitive_targets"
    <3>1. Successors(k, s) = points_to(s) BY <2>1 DEF Successors
    <3> QED BY <2>1, <3>1 DEF SearchAbove, Base, Visited0
  <2>2. CASE k # "transitive_targets"
    BY <2>2 DEF SearchAbove, Base, Visited0
  <2> QED BY <2>1, <2>2
<1>3. SearchOk(r)
  BY DEF SearchOk, Visited0
<1> QED BY <1>1, <1>2, <1>3 DEF ThreadInv

\* A search that has emptied its queue has found the least closed set.
LEMMA DoneOk ==
  ASSUME edges \in SUBSET Edges, NEW r \in Record, r.source \in Nodes, r.queue = {},
         SearchBelow(r), SearchAbove(r), SearchOk(r)
  PROVE  r.visited = Least(r.kind, r.source) /\ Exact(r)
<1>1. r.visited \in SUBSET Nodes
  BY DEF Record
<1>2. Base(r.kind, r.source) \subseteq r.visited
  BY DEF SearchAbove
<1>3. Closed(r.kind, r.visited)
  BY DEF SearchAbove, Closed
<1>4. r.visited = Least(r.kind, r.source)
  BY <1>1, <1>2, <1>3, LeastIs DEF SearchBelow
<1>5. CASE r.kind = "reaches_with_barrier"
  <2>1. r.answer = FALSE /\ r.sink \notin r.visited BY <1>5 DEF SearchOk
  <2>2. r.sink \notin Least(r.kind, r.source) BY <2>1, <1>4
  <2>3. Exact(r) BY <1>5, <2>1, <2>2 DEF Exact
  <2> QED BY <1>4, <2>3
<1>6. CASE r.kind # "reaches_with_barrier"
  BY <1>4, <1>6 DEF Exact
<1> QED BY <1>4, <1>5, <1>6

\* A node that a search has visited is in the least closed set.
LEMMA VisitedBelow ==
  ASSUME NEW r \in Record, SearchBelow(r)
  PROVE  r.visited \subseteq Least(r.kind, r.source)
BY DEF SearchBelow, Least, Record

\* One turn of a search keeps its bounds.
LEMMA ExpandOk ==
  ASSUME edges \in SUBSET Edges, NEW r \in Record, NEW q \in Record, NEW n \in r.queue,
         r.state = "search", ThreadInv(r),
         q.state = r.state, q.kind = r.kind, q.source = r.source, q.sink = r.sink,
         q.answer = r.answer, ~(r.kind = "reaches_with_barrier" /\ n = r.sink),
         q.visited = r.visited \cup (Successors(r.kind, n) \ r.visited),
         q.queue = (r.queue \ {n}) \cup (Successors(r.kind, n) \ r.visited)
  PROVE  ThreadInv(q)
<1>0. r.source \in Nodes /\ SearchBelow(r) /\ SearchAbove(r) /\ SearchOk(r)
  BY DEF ThreadInv
<1>1. SearchBelow(q)
  <2> SUFFICES ASSUME NEW S \in SUBSET Nodes, Base(r.kind, r.source) \subseteq S, Closed(r.kind, S)
               PROVE  /\ q.visited \subseteq S
                      /\ \A m \in q.queue : Successors(r.kind, m) \subseteq S
    BY DEF SearchBelow
  <2>1. r.visited \subseteq S /\ \A m \in r.queue : Successors(r.kind, m) \subseteq S
    BY <1>0 DEF SearchBelow
  <2> QED BY <2>1 DEF Closed
<1>2. SearchAbove(q)
  <2>1. \A m \in Base(q.kind, q.source) :
          m \in q.visited \/ (q.source \in q.queue /\ m \in Successors(q.kind, q.source))
    BY <1>0 DEF SearchAbove
  <2>2. \A m \in q.visited \ q.queue : Successors(q.kind, m) \subseteq q.visited
    BY <1>0 DEF SearchAbove
  <2> QED BY <2>1, <2>2 DEF SearchAbove
<1>3. SearchOk(q)
  BY <1>0 DEF SearchOk
<1> QED BY <1>0, <1>1, <1>2, <1>3 DEF ThreadInv

LEMMA StepIInv == IInv /\ [Next]_vars => IInv'
<1> SUFFICES ASSUME IInv, [Next]_vars PROVE IInv'
  OBVIOUS
<1>0. TypeOK /\ CacheExact /\ \A t \in Threads : thread[t] \in Record /\ ThreadInv(thread[t])
  BY DEF IInv, TypeOK, Record
<1>1. edges \in SUBSET Edges /\ thread \in [Threads -> Record]
  BY <1>0 DEF TypeOK, Record
<1>2. edges' = edges
  BY DEF Next, Answer, NullStep, Ask, Hit, Miss, Expand, Store, Return, vars
<1>3. \A r : ThreadInv(r)' = ThreadInv(r)
  BY <1>2, SameThread
<1>4. \A k, n : Least(k, n)' = Least(k, n)
  BY <1>2, SameGraph
\* A step that neither touches the cache nor a thread.
<1>5. ASSUME TypeOK', UNCHANGED <<reach_cache, thread>> PROVE IInv'
  <2>1. CacheExact'
    BY <1>0, <1>4, <1>5 DEF CacheExact
  <2>2. \A t \in Threads : ThreadInv(thread'[t])
    BY <1>0, <1>5
  <2>3. \A t \in Threads : ThreadInv(thread[t])'
    BY <1>3, <2>2
  <2> QED BY <1>5, <2>1, <2>3 DEF IInv
\* A step of one thread that does not touch the cache.
<1>6. ASSUME NEW t \in Threads, NEW r \in Record, thread' = [thread EXCEPT ![t] = r],
             ThreadInv(r), UNCHANGED reach_cache, TypeOK'
      PROVE  IInv'
  <2>1. CacheExact'
    BY <1>0, <1>4, <1>6 DEF CacheExact
  <2>2. \A u \in Threads : ThreadInv(thread'[u])
    BY <1>0, <1>1, <1>6
  <2>3. \A u \in Threads : ThreadInv(thread[u])'
    BY <1>3, <2>2
  <2> QED BY <1>6, <2>1, <2>3 DEF IInv
<1>7. CASE UNCHANGED vars
  <2>1. TypeOK' BY <1>0, <1>7 DEF TypeOK, vars
  <2> QED BY <1>5, <1>7, <2>1 DEF vars
<1>8. CASE NullStep
  <2>1. PICK n \in null_queue :
          LET new == nullFlow(n) \ may_be_null IN
          /\ may_be_null' = may_be_null \cup new
          /\ null_origin' = [m \in Nodes |-> IF m \in new THEN null_origin[n] ELSE null_origin[m]]
          /\ null_queue' = (null_queue \ {n}) \cup new
          /\ UNCHANGED <<edges, seeds, reach_cache, thread, asked, hits, misses, bytes_used>>
    BY <1>8 DEF NullStep
  <2>2. nullFlow(n) \in SUBSET Nodes
    BY <1>1 DEF nullFlow, Targets, Edges
  <2>3. null_origin' \in [Nodes -> Nodes \cup {NoNode}]
    BY <1>0, <2>1 DEF TypeOK
  <2>4. may_be_null' \in SUBSET Nodes /\ null_queue' \in SUBSET Nodes
    BY <1>0, <2>1, <2>2 DEF TypeOK
  <2>5. TypeOK'
    BY <1>0, <2>1, <2>3, <2>4 DEF TypeOK
  <2> QED BY <1>5, <2>1, <2>5
<1>9. ASSUME NEW t \in Threads, Ask(t) PROVE IInv'
  <2>1. PICK k \in Questions, s \in Nodes, e \in Nodes :
          thread' = [thread EXCEPT ![t] =
            [state |-> IF k = "reachable_from" THEN "lookup" ELSE "search", kind |-> k,
             source |-> s, sink |-> e, visited |-> Visited0(k, s), queue |-> {s},
             answer |-> FALSE]]
    BY <1>9 DEF Ask
  <2> DEFINE r == [state |-> IF k = "reachable_from" THEN "lookup" ELSE "search", kind |-> k,
                   source |-> s, sink |-> e, visited |-> Visited0(k, s), queue |-> {s},
                   answer |-> FALSE]
  <2>2. r \in Record
    BY DEF Record, States, Visited0
  <2>3. ThreadInv(r)
    <3> HIDE DEF r
    <3>1. /\ r.kind = k /\ r.source = s /\ r.sink = e /\ r.visited = Visited0(k, s)
          /\ r.queue = {s} /\ r.answer = FALSE
          /\ r.state = IF k = "reachable_from" THEN "lookup" ELSE "search"
      BY DEF r
    <3> QED BY <1>1, <3>1, BeginOk
  <2>4. thread' = [thread EXCEPT ![t] = r]
    BY <2>1
  <2>5. TypeOK'
    BY <1>0, <1>1, <1>9, <2>2, <2>4 DEF TypeOK, Ask, Record
  <2> HIDE DEF r
  <2> QED BY <1>6, <1>9, <2>2, <2>3, <2>4, <2>5 DEF Ask
<1>10. ASSUME NEW t \in Threads, Hit(t) PROVE IInv'
  <2> DEFINE r == [thread[t] EXCEPT !.state = "answered",
                     !.visited = reach_cache[thread[t].source], !.queue = {}]
  <2>1. thread[t] \in Record /\ thread[t].state = "lookup" /\ ThreadInv(thread[t])
    BY <1>0, <1>10 DEF Hit
  <2>2. thread[t].kind = "reachable_from" /\ thread[t].source \in Nodes
    BY <2>1 DEF ThreadInv, SearchOk
  <2>3. reach_cache[thread[t].source] = Least("reachable_from", thread[t].source)
    BY <1>0, <1>10, <2>2 DEF Hit, CacheExact
  <2>4. reach_cache[thread[t].source] \in SUBSET Nodes
    BY <1>0, <2>2 DEF TypeOK
  <2>5. r \in Record
    BY <2>1, <2>4 DEF Record, States
  <2>6. ThreadInv(r)
    BY <2>1, <2>2, <2>3 DEF ThreadInv, Exact, Record
  <2>7. thread' = [thread EXCEPT ![t] = r]
    BY <1>1, <1>10 DEF Hit
  <2>8. TypeOK'
    BY <1>0, <1>1, <1>10, <2>5, <2>7 DEF TypeOK, Hit, Record
  <2> HIDE DEF r
  <2> QED BY <1>6, <1>10, <2>5, <2>6, <2>7, <2>8 DEF Hit
<1>11. ASSUME NEW t \in Threads, Miss(t) PROVE IInv'
  <2> DEFINE r == [thread[t] EXCEPT !.state = "search"]
  <2>1. thread[t] \in Record /\ thread[t].state = "lookup" /\ ThreadInv(thread[t])
    BY <1>0, <1>11 DEF Miss
  <2>2. r \in Record
    BY <2>1 DEF Record, States
  <2>3. /\ r.kind = thread[t].kind /\ r.source = thread[t].source /\ r.visited = thread[t].visited
        /\ r.queue = thread[t].queue /\ r.sink = thread[t].sink /\ r.answer = thread[t].answer
        /\ r.state = "search"
    BY <2>1 DEF Record
  <2>4. thread' = [thread EXCEPT ![t] = r]
    BY <1>1, <1>11 DEF Miss
  <2> HIDE DEF r
  <2>5. ThreadInv(r)
    BY <2>1, <2>3 DEF ThreadInv, SearchBelow, SearchAbove, SearchOk
  <2>6. TypeOK'
    BY <1>0, <1>1, <1>11, <2>2, <2>4 DEF TypeOK, Miss, Record
  <2> QED BY <1>6, <1>11, <2>2, <2>4, <2>5, <2>6 DEF Miss
<1>12. ASSUME NEW t \in Threads, Expand(t) PROVE IInv'
  <2>1. /\ thread[t] \in Record /\ thread[t].state = "search" /\ ThreadInv(thread[t])
        /\ thread[t].kind \in Questions
    BY <1>0, <1>12 DEF Expand, Record
  <2>2. thread[t].source \in Nodes /\ SearchBelow(thread[t]) /\ SearchOk(thread[t])
    BY <2>1 DEF ThreadInv
  <2>3. PICK n \in thread[t].queue :
          LET new == Successors(thread[t].kind, n) \ thread[t].visited IN
          IF thread[t].kind = "reaches_with_barrier" /\ n = thread[t].sink
          THEN thread' = [thread EXCEPT ![t].state = "answered", ![t].answer = TRUE]
          ELSE thread' = [thread EXCEPT ![t].visited = thread[t].visited \cup new,
                                        ![t].queue = (thread[t].queue \ {n}) \cup new]
    BY <1>12 DEF Expand
  <2>4. CASE thread[t].kind = "reaches_with_barrier" /\ n = thread[t].sink
    <3> DEFINE r == [thread[t] EXCEPT !.state = "answered", !.answer = TRUE]
    <3>1. r \in Record
      BY <2>1 DEF Record, States
    <3>2. thread[t].sink \in Least(thread[t].kind, thread[t].source)
      BY <2>1, <2>2, <2>3, <2>4, VisitedBelow DEF SearchOk
    <3>3. ThreadInv(r)
      BY <2>1, <2>2, <2>4, <3>2 DEF ThreadInv, Exact, Record
    <3>4. thread' = [thread EXCEPT ![t] = r]
      BY <1>1, <2>3, <2>4
    <3>5. TypeOK'
      BY <1>0, <1>1, <1>12, <3>1, <3>4 DEF TypeOK, Expand, Record
    <3> HIDE DEF r
    <3> QED BY <1>6, <1>12, <3>1, <3>3, <3>4, <3>5 DEF Expand
  <2>5. CASE ~(thread[t].kind = "reaches_with_barrier" /\ n = thread[t].sink)
    <3> DEFINE new == Successors(thread[t].kind, n) \ thread[t].visited
               r == [thread[t] EXCEPT !.visited = thread[t].visited \cup new,
                                      !.queue = (thread[t].queue \ {n}) \cup new]
    <3>1. new \in SUBSET Nodes
      BY <1>1, <2>1, SuccessorsType
    <3> HIDE DEF new
    <3>2. r \in Record
      BY <2>1, <3>1 DEF Record
    <3>3. /\ r.kind = thread[t].kind /\ r.source = thread[t].source /\ r.sink = thread[t].sink
          /\ r.answer = thread[t].answer /\ r.state = thread[t].state
          /\ r.visited = thread[t].visited \cup new
          /\ r.queue = (thread[t].queue \ {n}) \cup new
      BY <2>1 DEF Record
    <3>4. thread' = [thread EXCEPT ![t] = r]
      BY <1>1, <2>3, <2>5 DEF new
    <3> HIDE DEF r
    <3>5. ThreadInv(r)
      BY <1>1, <2>1, <2>3, <2>5, <3>2, <3>3, ExpandOk DEF new
    <3>6. TypeOK'
      BY <1>0, <1>1, <1>12, <3>2, <3>4 DEF TypeOK, Expand, Record
    <3> QED BY <1>6, <1>12, <3>2, <3>4, <3>5, <3>6 DEF Expand
  <2> QED BY <2>4, <2>5
<1>13. ASSUME NEW t \in Threads, Done(t) PROVE
         /\ thread[t].visited = Least(thread[t].kind, thread[t].source)
         /\ ThreadInv([thread[t] EXCEPT !.state = "answered"])
         /\ [thread[t] EXCEPT !.state = "answered"] \in Record
  <2> DEFINE r == [thread[t] EXCEPT !.state = "answered"]
  <2>1. thread[t] \in Record /\ ThreadInv(thread[t]) /\ thread[t].state = "search"
        /\ thread[t].queue = {}
    BY <1>0, <1>13 DEF Done
  <2>2. thread[t].visited = Least(thread[t].kind, thread[t].source) /\ Exact(thread[t])
    BY <1>1, <2>1, DoneOk DEF ThreadInv
  <2>3. r \in Record
    BY <2>1 DEF Record, States
  <2>4. /\ r.kind = thread[t].kind /\ r.source = thread[t].source /\ r.sink = thread[t].sink
        /\ r.answer = thread[t].answer /\ r.state = "answered" /\ r.visited = thread[t].visited
    BY <2>1 DEF Record
  <2> HIDE DEF r
  <2>5. ThreadInv(r)
    BY <2>1, <2>2, <2>4 DEF ThreadInv, Exact
  <2> QED BY <2>2, <2>3, <2>5 DEF r
<1>14. ASSUME NEW t \in Threads, Return(t) PROVE IInv'
  <2> DEFINE r == [thread[t] EXCEPT !.state = "answered"]
  <2>1. ThreadInv(r) /\ r \in Record
    BY <1>13, <1>14 DEF Return
  <2>2. thread' = [thread EXCEPT ![t] = r]
    BY <1>1, <1>14 DEF Return
  <2>3. TypeOK'
    BY <1>0, <1>1, <1>14, <2>1, <2>2 DEF TypeOK, Return, Record
  <2> HIDE DEF r
  <2> QED BY <1>6, <1>14, <2>1, <2>2, <2>3 DEF Return
<1>15. ASSUME NEW t \in Threads, Store(t) PROVE IInv'
  <2> DEFINE r == [thread[t] EXCEPT !.state = "answered"]
             s == thread[t].source
  <2>1. ThreadInv(r) /\ r \in Record /\ thread[t].visited = Least("reachable_from", s)
    BY <1>13, <1>15 DEF Store
  <2>2. thread' = [thread EXCEPT ![t] = r]
        /\ reach_cache' = [reach_cache EXCEPT ![s] = thread[t].visited]
    BY <1>1, <1>15 DEF Store
  <2>3. s \in Nodes /\ thread[t].visited \in SUBSET Nodes
    BY <1>0, <1>15 DEF Store, Done, ThreadInv, Record
  <2> HIDE DEF r, s
  <2>4. reach_cache' \in [Nodes -> SUBSET Nodes] /\ thread' \in [Threads -> Record]
    BY <1>0, <1>1, <2>1, <2>2, <2>3 DEF TypeOK
  <2>5. PICK c \in Nat : bytes_used' = bytes_used + c
    <3>1. bytes_used' = bytes_used + Cardinality(thread[t].visited)
      BY <1>15 DEF Store
    <3>2. IsFiniteSet(thread[t].visited)
      BY <2>3, NodesAssumption, FS_Subset
    <3> QED BY <3>1, <3>2, FS_CardinalityType
  <2>6. CacheExact'
    <3>1. \A n \in Nodes : reach_cache'[n] # {} => reach_cache'[n] = Least("reachable_from", n)
      BY <1>0, <2>1, <2>2, <2>3 DEF CacheExact, TypeOK
    <3> QED BY <1>4, <3>1 DEF CacheExact
  <2>7. \A u \in Threads : ThreadInv(thread'[u])
    BY <1>0, <1>1, <2>1, <2>2
  <2>8. \A u \in Threads : ThreadInv(thread[u])'
    BY <1>3, <2>7
  <2>9. TypeOK'
    BY <1>0, <1>15, <2>4, <2>5 DEF TypeOK, Store, Record
  <2> QED BY <2>6, <2>8, <2>9 DEF IInv
<1> QED BY <1>7, <1>8, <1>9, <1>10, <1>11, <1>12, <1>14, <1>15 DEF Next, Answer

LEMMA Invariance == Spec => []IInv
BY InitIInv, StepIInv, PTL DEF Spec

\* The type invariant holds whatever threads, nodes and graphs there are.
THEOREM TypeCorrect == Spec => []TypeOK
<1>1. IInv => TypeOK BY DEF IInv
<1> QED BY Invariance, <1>1, PTL

\* Every answer a thread is given is exact, for every graph and however the
\* searches of the threads and their reads and writes of the cache interleave.
THEOREM AnswersAreExact == Spec => []AnswersExact
<1>1. IInv => AnswersExact
  BY DEF IInv, ThreadInv, Exact, AnswersExact
<1> QED BY Invariance, <1>1, PTL

\* Every set in the cache is the whole set of nodes reachable from its key.
THEOREM CacheIsExact == Spec => []CacheExact
<1>1. IInv => CacheExact BY DEF IInv
<1> QED BY Invariance, <1>1, PTL

\* No step changes an entry of the cache: a thread that finds a set another
\* has stored in the meantime stores the same one.
THEOREM CacheEntriesStay == Spec => CacheStays
<1>1. IInv /\ IInv' /\ [Next]_vars =>
        [\A s \in Nodes : reach_cache[s] # {} => reach_cache'[s] = reach_cache[s]]_vars
  <2> SUFFICES ASSUME IInv, IInv', Next, NEW s \in Nodes, reach_cache[s] # {}
               PROVE  reach_cache'[s] = reach_cache[s]
    BY DEF vars
  <2>1. CASE UNCHANGED reach_cache
    BY <2>1
  <2>2. ASSUME NEW t \in Threads, Store(t) PROVE reach_cache'[s] = reach_cache[s]
    <3>1. reach_cache[s] = Least("reachable_from", s)
      BY DEF IInv, CacheExact
    <3>2. /\ thread[t] \in Record /\ ThreadInv(thread[t]) /\ thread[t].queue = {}
          /\ thread[t].state = "search" /\ thread[t].kind = "reachable_from"
          /\ edges \in SUBSET Edges
      BY <2>2 DEF IInv, TypeOK, Record, Store, Done
    <3>3. thread[t].visited = Least("reachable_from", thread[t].source)
      BY <3>2, DoneOk DEF ThreadInv
    <3>4. reach_cache \in [Nodes -> SUBSET Nodes]
      BY DEF IInv, TypeOK
    <3>5. reach_cache' = [reach_cache EXCEPT ![thread[t].source] = thread[t].visited]
      BY <2>2 DEF Store
    <3> QED BY <3>1, <3>3, <3>4, <3>5
  <2> QED BY <2>1, <2>2 DEF Next, Answer, NullStep, Ask, Hit, Miss, Expand, Return
<1> QED BY Invariance, <1>1, PTL DEF Spec, CacheStays

-----------------------------------------------------------------------------
(* Searching forwards and backwards.                                       *)

LEMMA LeastClosed ==
  ASSUME edges \in SUBSET Edges, NEW k \in Questions, NEW s \in Nodes
  PROVE  Base(k, s) \subseteq Least(k, s) /\ Closed(k, Least(k, s))
<1>1. \A n : Successors(k, n) \in SUBSET Nodes
  BY SuccessorsType
<1>2. Base(k, s) \subseteq Nodes
  BY SuccessorsType DEF Base
<1> QED BY <1>1, <1>2 DEF Least, Closed

\* What is reachable from a is what a is found from, backwards: the nodes
\* that a backward search from b leaves out are closed forwards.
LEMMA Duality ==
  ASSUME edges \in SUBSET Edges, NEW a \in Nodes, NEW b \in Nodes
  PROVE  b \in Least("reachable_from", a) <=> a \in Least("reaches_to", b)
<1> DEFINE F == Least("reachable_from", a)
           B == Least("reaches_to", b)
<1>1. \A n, m \in Nodes : m \in Successors("reachable_from", n) <=> n \in Successors("reaches_to", m)
  <2>1. \A n : Successors("reachable_from", n) = {e.destination : e \in {d \in edges : d.source = n}}
    BY DEF Successors, forward, Targets, Edges
  <2>2. \A n : Successors("reaches_to", n) = {e.source : e \in {d \in edges : d.destination = n}}
    BY DEF Successors, backward
  <2> QED BY <2>1, <2>2
<1>2. \A n : Successors("reachable_from", n) \in SUBSET Nodes /\ Successors("reaches_to", n) \in SUBSET Nodes
  BY SuccessorsType DEF Questions
<1>3. a \in F /\ Closed("reachable_from", F) /\ F \in SUBSET Nodes
  <2>1. Base("reachable_from", a) = {a} BY DEF Base
  <2> QED BY <2>1, LeastClosed DEF Questions, Least
<1>4. b \in B /\ Closed("reaches_to", B) /\ B \in SUBSET Nodes
  <2>1. Base("reaches_to", b) = {b} BY DEF Base
  <2> QED BY <2>1, LeastClosed DEF Questions, Least
<1> HIDE DEF F, B
<1>5. ASSUME a \notin B PROVE b \notin F
  <2>1. Closed("reachable_from", Nodes \ B)
    BY <1>1, <1>2, <1>4 DEF Closed
  <2>2. Base("reachable_from", a) \subseteq Nodes \ B
    BY <1>5 DEF Base
  <2>3. Least("reachable_from", a) \subseteq Nodes \ B
    BY <2>1, <2>2, LeastBelow
  <2> QED BY <2>3, <1>4 DEF F
<1>6. ASSUME b \notin F PROVE a \notin B
  <2>1. Closed("reaches_to", Nodes \ F)
    BY <1>1, <1>2, <1>3 DEF Closed
  <2>2. Base("reaches_to", b) \subseteq Nodes \ F
    BY <1>6 DEF Base
  <2>3. Least("reaches_to", b) \subseteq Nodes \ F
    BY <2>1, <2>2, LeastBelow
  <2> QED BY <2>3, <1>3 DEF B
<1> QED BY <1>5, <1>6 DEF F, B

\* The forward and the backward index agree, and so do the answers drawn
\* from them at any two threads, one of which may come from the cache.
THEOREM DirectionsAlwaysAgree == Spec => []DirectionsAgree
<1>1. IInv => DirectionsAgree
  <2> SUFFICES ASSUME IInv, NEW t \in Threads, NEW u \in Threads,
                      thread[t].state = "answered", thread[t].kind = "reachable_from",
                      thread[u].state = "answered", thread[u].kind = "reaches_to"
               PROVE  thread[u].source \in thread[t].visited <=> thread[t].source \in thread[u].visited
    BY DEF DirectionsAgree
  <2>1. thread[t].visited = Least("reachable_from", thread[t].source)
    BY DEF IInv, ThreadInv, Exact
  <2>2. thread[u].visited = Least("reaches_to", thread[u].source)
    BY DEF IInv, ThreadInv, Exact
  <2>3. edges \in SUBSET Edges
    BY DEF IInv, TypeOK
  <2>4. thread[t].source \in Nodes /\ thread[u].source \in Nodes
    BY DEF IInv, ThreadInv
  <2> QED BY <2>1, <2>2, <2>3, <2>4, Duality
<1> QED BY Invariance, <1>1, PTL

-----------------------------------------------------------------------------
(* Nulls and their seeds.                                                  *)

\* What NullabilityIndex::build keeps while it runs: a node that may be null
\* is in every closed set that holds its seed, the seed it names, and only
\* the successors of queued nodes are still missing.
NullInv ==
  /\ seeds \subseteq may_be_null
  /\ null_queue \subseteq may_be_null
  /\ \A n \in may_be_null \ null_queue : nullFlow(n) \subseteq may_be_null
  /\ \A n \in may_be_null :
       /\ null_origin[n] \in seeds
       /\ \A S \in SUBSET Nodes : null_origin[n] \in S /\ NullClosed(S) => n \in S
  /\ \A n \in Nodes \ may_be_null : null_origin[n] = NoNode

LEMMA NullInvariance == Spec => []NullInv
<1>1. Init => NullInv
  BY SeedsAssumption DEF Init, NullInv
<1>2. TypeOK /\ TypeOK' /\ NullInv /\ [Next]_vars => NullInv'
  <2> SUFFICES ASSUME TypeOK, TypeOK', NullInv, [Next]_vars PROVE NullInv'
    OBVIOUS
  <2>1. edges' = edges /\ seeds' = seeds
    BY DEF Next, Answer, NullStep, Ask, Hit, Miss, Expand, Store, Return, vars
  <2>2. \A n : nullFlow(n)' = nullFlow(n)
    BY <2>1 DEF nullFlow, Targets
  <2>3. \A S : NullClosed(S)' = NullClosed(S)
    BY <2>2 DEF NullClosed
  <2>4. CASE UNCHANGED nullVars
    BY <2>1, <2>2, <2>3, <2>4 DEF NullInv, nullVars
  <2>5. CASE NullStep
    <3>1. PICK n \in null_queue :
            LET new == nullFlow(n) \ may_be_null IN
            /\ may_be_null' = may_be_null \cup new
            /\ null_origin' = [m \in Nodes |-> IF m \in new THEN null_origin[n] ELSE null_origin[m]]
            /\ null_queue' = (null_queue \ {n}) \cup new
      BY <2>5 DEF NullStep
    <3> DEFINE new == nullFlow(n) \ may_be_null
    <3>2. n \in may_be_null /\ may_be_null \subseteq Nodes /\ may_be_null' \subseteq Nodes
      BY DEF NullInv, TypeOK
    <3>3. new \subseteq Nodes
      BY <3>1, <3>2
    <3>4. \A m \in may_be_null' :
            null_origin'[m] = IF m \in new THEN null_origin[n] ELSE null_origin[m]
      BY <3>1, <3>2
    <3>5. seeds' \subseteq may_be_null' /\ null_queue' \subseteq may_be_null'
      BY <2>1, <3>1 DEF NullInv
    <3>6. \A m \in may_be_null' \ null_queue' : nullFlow(m)' \subseteq may_be_null'
      BY <2>2, <3>1 DEF NullInv
    <3>7. ASSUME NEW m \in may_be_null'
          PROVE  /\ null_origin'[m] \in seeds'
                 /\ \A S \in SUBSET Nodes : null_origin'[m] \in S /\ NullClosed(S)' => m \in S
      <4>1. CASE m \in new
        <5>1. null_origin'[m] = null_origin[n] BY <3>4, <4>1
        <5>2. \A S \in SUBSET Nodes : null_origin[n] \in S /\ NullClosed(S) => n \in S /\ m \in S
          BY <3>2, <4>1 DEF NullInv, NullClosed
        <5> QED BY <2>1, <2>3, <3>2, <5>1, <5>2 DEF NullInv
      <4>2. CASE m \notin new
        <5>1. m \in may_be_null /\ null_origin'[m] = null_origin[m] BY <3>1, <3>4, <4>2
        <5> QED BY <2>1, <2>3, <5>1 DEF NullInv
      <4> QED BY <4>1, <4>2
    <3>8. \A m \in Nodes \ may_be_null' : null_origin'[m] = NoNode
      BY <3>1 DEF NullInv
    <3> QED BY <3>5, <3>6, <3>7, <3>8 DEF NullInv
  <2> QED BY <2>4, <2>5 DEF Next, Answer, Ask, Hit, Miss, Expand, Store, Return, vars, nullVars
<1> QED BY <1>1, <1>2, TypeCorrect, PTL DEF Spec

\* Once the file is indexed, exactly the nodes a seed flows to may be null,
\* and each names a seed that flows to it.
THEOREM NullsAreExact == Spec => []NullsExact
<1>1. TypeOK /\ NullInv => NullsExact
  <2> SUFFICES ASSUME TypeOK, NullInv, null_queue = {} PROVE NullsExact
    BY DEF NullsExact, Indexed
  <2>1. may_be_null \in SUBSET Nodes /\ NullClosed(may_be_null) /\ seeds \subseteq may_be_null
    BY DEF TypeOK, NullInv, NullClosed
  <2>2. NullLeast(seeds) \subseteq may_be_null
    BY <2>1 DEF NullLeast
  <2>3. \A n \in may_be_null : null_origin[n] \in seeds /\ n \in NullLeast({null_origin[n]})
    BY <2>1 DEF NullInv, NullLeast
  <2>4. may_be_null \subseteq NullLeast(seeds)
    BY <2>1, <2>3 DEF NullLeast
  <2> QED BY <2>2, <2>3, <2>4 DEF NullsExact, NullInv
<1> QED BY TypeCorrect, NullInvariance, <1>1, PTL
=============================================================================
