----------------------------- MODULE DataflowIndex -----------------------------
(***************************************************************************)
(* The indices over the dataflow edges of one file (FileIndex::build) and  *)
(* the threads that evaluate rules on them:                                *)
(*                                                                         *)
(*   - NullabilityIndex::build marks what a null may flow to, from the     *)
(*     seeds on, and remembers for each node the seed it was reached from; *)
(*   - then the threads ask DfgIndex (reachable_from, reaches_to,          *)
(*     reaches_with_barrier) and AliasIndex (transitive_targets). The      *)
(*     answers of reachable_from are memoised in reach_cache under an      *)
(*     RwLock that is not held during the search, so two threads may       *)
(*     search for one source and both store what they found.               *)
(*                                                                         *)
(* A search takes any node of its queue next: the order of the queue, and  *)
(* of the hash tables it is filled from, decides nothing about its result. *)
(***************************************************************************)
EXTENDS Naturals, FiniteSets

CONSTANTS
  Threads,       \* the threads of the pool that evaluates rules
  Nodes,         \* the NodeIds of the file
  Graphs,        \* the dataflow graphs, sets of [type, source, destination]
  SeedSets,      \* the sets of null literals and calls of nullable functions
  Barriers,      \* the nodes of the kinds in barrier_kinds
  MaxQuestions,  \* bound on the questions of all threads together
  NoNode         \* Option::None

ASSUME NodesAssumption == IsFiniteSet(Nodes) /\ NoNode \notin Nodes

EdgeTypes == {"REACHING_DEF", "CALL_RETURN", "INTERPROCEDURAL_FLOW", "SIZE_FLOW", "POINTS_TO"}
Edges == [type : EdgeTypes, source : Nodes, destination : Nodes]

ASSUME GraphsAssumption == Graphs \subseteq SUBSET Edges
ASSUME SeedsAssumption == SeedSets \subseteq SUBSET Nodes
ASSUME BarriersAssumption == Barriers \subseteq Nodes

VARIABLES
  edges,        \* cpg.dataflow.edges
  seeds,        \* the null literals and nullable calls of the file
  null_queue,   \* the queue of NullabilityIndex::build
  may_be_null,
  null_origin,  \* the seed a node was reached from, or NoNode
  reach_cache,  \* DfgIndex::reach_cache: the set stored, {} where there is none
  thread,       \* what each thread searches for, and how far it is
  asked,        \* the questions asked so far
  hits, misses, bytes_used   \* CacheMetrics of "dfg.reach_cache"

nullVars == <<null_queue, may_be_null, null_origin>>
vars == <<edges, seeds, null_queue, may_be_null, null_origin, reach_cache, thread, asked,
          hits, misses, bytes_used>>

-----------------------------------------------------------------------------
(* The adjacency maps the builders make of the edge list.                  *)

Targets(types, n) == {e.destination : e \in {d \in edges : d.source = n /\ d.type \in types}}

forward(n) == Targets(EdgeTypes, n)
backward(n) == {e.source : e \in {d \in edges : d.destination = n}}
\* build_forward_edges: what a null flows along
nullFlow(n) == Targets({"REACHING_DEF", "CALL_RETURN", "INTERPROCEDURAL_FLOW"}, n)
points_to(n) == Targets({"POINTS_TO"}, n)

Questions == {"reachable_from", "reaches_to", "reaches_with_barrier", "transitive_targets"}

\* The successors a search of a kind adds to its queue for n.
Successors(kind, n) ==
  CASE kind = "reachable_from" -> forward(n)
    [] kind = "reaches_to" -> backward(n)
    [] kind = "reaches_with_barrier" -> forward(n) \ Barriers
    [] kind = "transitive_targets" -> points_to(n)

\* What is visited when a search begins: transitive_targets does not count
\* the pointer it starts from.
Visited0(kind, s) == IF kind = "transitive_targets" THEN {} ELSE {s}

-----------------------------------------------------------------------------
Idle == [state |-> "idle", kind |-> "reachable_from", source |-> NoNode, sink |-> NoNode,
         visited |-> {}, queue |-> {}, answer |-> FALSE]

Init ==
  /\ edges \in Graphs
  /\ seeds \in SeedSets
  /\ null_queue = seeds
  /\ may_be_null = seeds
  /\ null_origin = [n \in Nodes |-> IF n \in seeds THEN n ELSE NoNode]
  /\ reach_cache = [n \in Nodes |-> {}]
  /\ thread = [t \in Threads |-> Idle]
  /\ asked = 0
  /\ hits = 0
  /\ misses = 0
  /\ bytes_used = 0

\* One turn of the loop of NullabilityIndex::build: the node at the front
\* passes its origin to the successors that have not been reached yet.
NullStep ==
  \E n \in null_queue :
    LET new == nullFlow(n) \ may_be_null IN
    /\ may_be_null' = may_be_null \cup new
    /\ null_origin' = [m \in Nodes |-> IF m \in new THEN null_origin[n] ELSE null_origin[m]]
    /\ null_queue' = (null_queue \ {n}) \cup new
    /\ UNCHANGED <<edges, seeds, reach_cache, thread, asked, hits, misses, bytes_used>>

\* The file is indexed before a rule is run.
Indexed == null_queue = {}

\* A predicate of a rule asks for the nodes reachable from s, or whether s
\* reaches e past the barriers.
Ask(t) ==
  /\ Indexed
  /\ asked < MaxQuestions
  /\ thread[t].state \in {"idle", "answered"}
  /\ \E k \in Questions, s \in Nodes, e \in Nodes :
       /\ k # "reaches_with_barrier" => e = s
       /\ thread' = [thread EXCEPT ![t] =
            [state |-> IF k = "reachable_from" THEN "lookup" ELSE "search", kind |-> k,
             source |-> s, sink |-> e, visited |-> Visited0(k, s), queue |-> {s},
             answer |-> FALSE]]
  /\ asked' = asked + 1
  /\ UNCHANGED <<edges, seeds, null_queue, may_be_null, null_origin, reach_cache,
                 hits, misses, bytes_used>>

\* The fast path: the cached set is copied under the read lock.
Hit(t) ==
  /\ thread[t].state = "lookup"
  /\ reach_cache[thread[t].source] # {}
  /\ thread' = [thread EXCEPT ![t].state = "answered",
                              ![t].visited = reach_cache[thread[t].source],
                              ![t].queue = {}]
  /\ hits' = hits + 1
  /\ UNCHANGED <<edges, seeds, null_queue, may_be_null, null_origin, reach_cache, asked,
                 misses, bytes_used>>

\* Nothing is cached: the read lock is given back and the search begins.
Miss(t) ==
  /\ thread[t].state = "lookup"
  /\ reach_cache[thread[t].source] = {}
  /\ thread' = [thread EXCEPT ![t].state = "search"]
  /\ misses' = misses + 1
  /\ UNCHANGED <<edges, seeds, null_queue, may_be_null, null_origin, reach_cache, asked,
                 hits, bytes_used>>

\* Mutant: nodes that were visited before are queued again.
ForgetfulExpand(t) ==
  /\ thread[t].state = "search"
  /\ \E n \in thread[t].queue :
       LET new == Successors(thread[t].kind, n) IN
       thread' = [thread EXCEPT ![t].visited = thread[t].visited \cup new,
                                ![t].queue = (thread[t].queue \ {n}) \cup new]
  /\ UNCHANGED <<edges, seeds, null_queue, may_be_null, null_origin, reach_cache, asked,
                 hits, misses, bytes_used>>

\* One turn of a search. reaches_with_barrier ends as soon as it takes its
\* sink from the queue.
Expand(t) ==
  /\ thread[t].state = "search"
  /\ \E n \in thread[t].queue :
       LET new == Successors(thread[t].kind, n) \ thread[t].visited IN
       IF thread[t].kind = "reaches_with_barrier" /\ n = thread[t].sink
       THEN thread' = [thread EXCEPT ![t].state = "answered", ![t].answer = TRUE]
       ELSE thread' = [thread EXCEPT ![t].visited = thread[t].visited \cup new,
                                     ![t].queue = (thread[t].queue \ {n}) \cup new]
  /\ UNCHANGED <<edges, seeds, null_queue, may_be_null, null_origin, reach_cache, asked,
                 hits, misses, bytes_used>>

\* Mutant: a search ends as soon as it has found something.
EarlyDone(t) ==
  /\ thread[t].state = "search"
  /\ thread[t].queue = {} \/ Cardinality(thread[t].visited) > 1

\* The queue is empty.
Done(t) == thread[t].state = "search" /\ thread[t].queue = {}

\* reachable_from stores its set under the write lock, over what is there.
Store(t) ==
  /\ Done(t)
  /\ thread[t].kind = "reachable_from"
  /\ reach_cache' = [reach_cache EXCEPT ![thread[t].source] = thread[t].visited]
  /\ bytes_used' = bytes_used + Cardinality(thread[t].visited)
  /\ thread' = [thread EXCEPT ![t].state = "answered"]
  /\ UNCHANGED <<edges, seeds, null_queue, may_be_null, null_origin, asked, hits, misses>>

\* The other searches return what they visited; nothing is stored.
Return(t) ==
  /\ Done(t)
  /\ thread[t].kind # "reachable_from"
  /\ thread' = [thread EXCEPT ![t].state = "answered"]
  /\ UNCHANGED <<edges, seeds, null_queue, may_be_null, null_origin, reach_cache, asked,
                 hits, misses, bytes_used>>

Answer(t) == Hit(t) \/ Miss(t) \/ Expand(t) \/ Store(t) \/ Return(t)

Next == NullStep \/ \E t \in Threads : Ask(t) \/ Answer(t)

\* A thread that has asked goes on; whether a rule asks is the rule's matter.
Fairness == WF_vars(NullStep) /\ \A t \in Threads : WF_vars(Answer(t))

Spec == Init /\ [][Next]_vars /\ Fairness

-----------------------------------------------------------------------------
(* What the searches compute: the least set that holds what the search     *)
(* begins with and is closed under its successors.                         *)

Closed(kind, S) == \A n \in S : Successors(kind, n) \subseteq S

Base(kind, s) == IF kind = "transitive_targets" THEN points_to(s) ELSE {s}

Least(kind, s) ==
  {n \in Nodes : \A S \in SUBSET Nodes : Base(kind, s) \subseteq S /\ Closed(kind, S) => n \in S}

NullClosed(S) == \A n \in S : nullFlow(n) \subseteq S

NullLeast(B) == {n \in Nodes : \A S \in SUBSET Nodes : B \subseteq S /\ NullClosed(S) => n \in S}

States == {"idle", "lookup", "search", "answered"}

\* The type of the state.
TypeOK ==
  /\ edges \in SUBSET Edges
  /\ seeds \in SUBSET Nodes
  /\ null_queue \in SUBSET Nodes
  /\ may_be_null \in SUBSET Nodes
  /\ null_origin \in [Nodes -> Nodes \cup {NoNode}]
  /\ reach_cache \in [Nodes -> SUBSET Nodes]
  /\ thread \in [Threads -> [state : States, kind : Questions, source : Nodes \cup {NoNode},
                             sink : Nodes \cup {NoNode}, visited : SUBSET Nodes,
                             queue : SUBSET Nodes, answer : BOOLEAN]]
  /\ asked \in Nat
  /\ hits \in Nat
  /\ misses \in Nat
  /\ bytes_used \in Nat

\* Whatever the other threads search for and store at the same time, a
\* thread is given exactly the nodes its question asks for, from the cache
\* or from its own search (DfgIndex and AliasIndex).
AnswersExact ==
  \A t \in Threads :
    thread[t].state = "answered" =>
      IF thread[t].kind = "reaches_with_barrier"
      THEN thread[t].answer <=> thread[t].sink \in Least(thread[t].kind, thread[t].source)
      ELSE thread[t].visited = Least(thread[t].kind, thread[t].source)

\* A set in reach_cache is complete, although it was computed outside of the
\* lock and may have been stored twice.
CacheExact ==
  \A s \in Nodes : reach_cache[s] # {} => reach_cache[s] = Least("reachable_from", s)

\* A set that is cached stays as it is: the thread that comes second stores
\* what the first has stored.
CacheStays == [][\A s \in Nodes : reach_cache[s] # {} => reach_cache'[s] = reach_cache[s]]_vars

\* Forward and backward searches agree: a node is reachable from another
\* exactly when that one is found to reach it (DfgIndex::build).
DirectionsAgree ==
  \A t, u \in Threads :
    (/\ thread[t].state = "answered" /\ thread[t].kind = "reachable_from"
     /\ thread[u].state = "answered" /\ thread[u].kind = "reaches_to")
    => (thread[u].source \in thread[t].visited <=> thread[t].source \in thread[u].visited)

\* When the file is indexed, the nodes that may be null are those a seed
\* flows to, and each names a seed that does flow to it (may_be_null and
\* null_source of a query).
NullsExact ==
  Indexed =>
    /\ may_be_null = NullLeast(seeds)
    /\ \A n \in Nodes :
         IF n \in may_be_null THEN null_origin[n] \in seeds /\ n \in NullLeast({null_origin[n]})
         ELSE null_origin[n] = NoNode

\* Every question is answered, and indexing comes to an end.
QuestionsAnswered ==
  /\ <>Indexed
  /\ \A t \in Threads : thread[t].state = "lookup" ~> thread[t].state = "answered"
  /\ \A t \in Threads : thread[t].state = "search" ~> thread[t].state = "answered"
=============================================================================
