------------------------------- MODULE FlowGraph -------------------------------
(***************************************************************************)
(* Control-flow graphs as the graph algorithms of the two crates see them: *)
(* functions from the blocks 0 .. n-1 to the sequences of their successors.*)
(***************************************************************************)
EXTENDS Integers, Sequences, FiniteSets, SequencesExt

FlowGraphs == UNION {[0 .. n - 1 -> Seq(0 .. n - 1)] : n \in Nat}

\* The blocks that block a leads to, itself among them: as many steps as there are blocks.
Wider(g, s) == s \cup UNION {Range(g[b]) : b \in s}
LedTo(g, a) ==
  LET within[k \in 0 .. Cardinality(DOMAIN g)] == IF k = 0 THEN {a} ELSE Wider(g, within[k - 1])
  IN within[Cardinality(DOMAIN g)]
=============================================================================
