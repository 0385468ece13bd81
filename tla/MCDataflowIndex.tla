--------------------------- MODULE MCDataflowIndex ---------------------------
(***************************************************************************)
(* Dataflow graphs of four nodes for DataflowIndex: a null that flows      *)
(* round a loop and out of it, and a pointer chain beside value flows.     *)
(***************************************************************************)
EXTENDS DataflowIndex

E(t, a, b) == [type |-> t, source |-> a, destination |-> b]

LoopGraph == {E("REACHING_DEF", 1, 2), E("CALL_RETURN", 2, 3), E("REACHING_DEF", 3, 2),
              E("SIZE_FLOW", 3, 4)}
PointerGraph == {E("POINTS_TO", 1, 2), E("POINTS_TO", 2, 1), E("INTERPROCEDURAL_FLOW", 2, 3),
                 E("POINTS_TO", 3, 4), E("REACHING_DEF", 1, 4)}

MCGraphs == {LoopGraph, PointerGraph}
MCSeeds == {{}, {1}, {1, 3}}
MCNodes == 1 .. 4
MCBarriers == {3}
=============================================================================
