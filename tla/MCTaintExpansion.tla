-------------------------- MODULE MCTaintExpansion --------------------------
(***************************************************************************)
(* Programs for TaintExpansion: two sources s1 and s2, a variable m, calls *)
(* c and d, a sink k, and a node w that is the argument list of c where    *)
(* the grammar wraps arguments.                                            *)
(***************************************************************************)
EXTENDS TaintExpansion

CONSTANTS s1, s2, m, c, d, k, w

Nodes == {s1, s2, m, c, d, k, w}

Of(n, x, y, z) == IF n = c THEN x ELSE IF n = d THEN y ELSE z

Mapped(x, y, z) == [n \in Nodes |-> Of(n, x, y, z)]

\* The shape of c: its arguments are its children, or are in the argument list w,
\* which follows the name of the callee (then d is that name, and not a call).
Shape == [args : {<<s1, s2>>, <<m, s2>>}, wrapped : BOOLEAN]
Children(shape) == IF shape.wrapped THEN <<d, w>> ELSE shape.args

Passing == {<<>>, <<[params |-> 1, returns |-> {1}]>>}
Choosing == {<<[params |-> 2, returns |-> {2}], [params |-> 2, returns |-> {1}]>>}

Make(flow, prop, sources, sanitizers, shape, argsOfD, retC, retD, calC, deep, depth, kept) ==
  LET argsD == IF shape.wrapped THEN <<>> ELSE argsOfD IN
  [flow |-> flow, prop |-> prop, sources |-> sources, sinks |-> {k},
   sanitizers |-> sanitizers,
   args |-> Mapped(shape.args, argsD, <<>>),
   children |-> Mapped(Children(shape), argsD, <<>>),
   summarised |-> {n \in {c, d} : Mapped(retC, retD, {})[n] # {}},
   returns |-> Mapped(retC, retD, {}),
   callees |-> Mapped(calC, <<>>, <<>>),
   deep |-> deep, callDepth |-> depth, kept |-> kept]

\* Calls nested and chained through variables, at a depth that cuts paths and one
\* that does not.
Programs ==
  {Make(flow \cup {<<d, k>>}, prop, sources, san, shape, argsD, retC, {1}, calC,
        TRUE, depth, Nodes \X Nodes) :
     flow \in SUBSET {<<s1, m>>, <<c, m>>, <<m, k>>, <<c, d>>},
     prop \in {{}, {<<m, s2>>}},
     sources \in {{s1}, {s1, s2}},
     san \in {{}, {c}, {m}},
     shape \in [args : {<<s1, s2>>, <<m, s2>>}, wrapped : {FALSE}],
     argsD \in {<<m>>, <<c>>},
     retC \in {{1}, {2}},
     calC \in Passing,
     depth \in {0, 3}}

\* The remaining shapes: arguments in a list, callees to choose from, sources that
\* are sanitizers, rules that do not ask for calls, pairs that are not kept, and
\* rules without sources.
OddPrograms ==
  {Make(flow, {}, sources, san, shape, <<c>>, {}, {1}, calC, deep, depth, kept) :
     flow \in {{<<s1, m>>, <<c, k>>}, {<<s1, w>>, <<w, m>>, <<d, k>>}},
     sources \in {{}, {s1}, {s2}, {s1, s2}},
     san \in {{}, {s1}, {c}},
     shape \in Shape,
     calC \in Choosing \cup Passing,
     deep \in BOOLEAN,
     depth \in {0, 1, 3},
     kept \in {Nodes \X Nodes, (Nodes \ {s1}) \X Nodes}}

AllPrograms == Programs \cup OddPrograms

=============================================================================
