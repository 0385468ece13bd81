---------------------------- MODULE MCWorkspace ----------------------------
(***************************************************************************)
(* Small instance of Workspace: three paths, and CPGs that make the cases  *)
(* happen: a library function "h" in two versions, the same simple name    *)
(* defined elsewhere under a fully qualified name "q", and a caller that   *)
(* asks for "q" and falls back to "h".                                     *)
(***************************************************************************)
EXTENDS Workspace, TLC

CONSTANTS fa, fb, fc, h, q, s1, s2, p1, p2, r1, r1Edited, r2

Nothing == [n \in {h, q} |-> None]

\* A library file with summary s under "h" and parameters p under key k.
Library(k, strong, s, p) ==
  [summaries |-> [Nothing EXCEPT ![h] = s],
   defs      |-> [Nothing EXCEPT ![k] = [strong |-> strong, params |-> p]],
   calls     |-> {},
   called    |-> {}]

Weak    == Library(h, FALSE, s1, p1)
Edited  == Library(h, FALSE, s2, p1)
Quali   == Library(q, TRUE, s1, p2)
WeakQ   == Library(q, FALSE, s1, p1)
Caller  == [summaries |-> Nothing, defs |-> Nothing,
            calls  |-> {[call |-> 1, qualified |-> q, callee |-> h]},
            called |-> {h}]
Caller2 == [Caller EXCEPT
              !.calls = @ \cup {[call |-> 2, qualified |-> None, callee |-> h]}]

MCCpg == {Weak, Edited, Quali, WeakQ, Caller2}
MCContentHash ==
  [c \in MCCpg |-> CASE c = Weak -> 1 [] c = Edited -> 2 [] c = Quali -> 3
                     [] c = WeakQ -> 4 [] c = Caller2 -> 5]

\* Editing a rule in place keeps its id and its number of clauses.
MCRuleSig == [r \in RuleSet |-> IF r = r2 THEN 2 ELSE 1]

FileSymmetry == Permutations({fa, fb, fc})
=============================================================================
