---------------------------- MODULE ScanContract ----------------------------
(***************************************************************************)
(* What Workspace::scan_incremental promises about the results it hands    *)
(* out, leaving out how it decides what to evaluate again: after a scan    *)
(* every indexed file has results, they describe the file's own current    *)
(* content, and they were computed under the rule-set signature the scan   *)
(* was asked for.  Results about a file are forgotten when it changes.     *)
(***************************************************************************)
CONSTANTS File, Cpg, Sig, None

VARIABLES
  content,  \* path -> indexed content, or None
  results   \* path -> what the last scan that saw this content reported on

vars == <<content, results>>

Init ==
  /\ content = [f \in File |-> None]
  /\ results = [f \in File |-> None]

\* The content of a path changes, or (c = None) the path goes away.
Change(f, c) ==
  /\ content' = [content EXCEPT ![f] = c]
  /\ results' = [results EXCEPT ![f] = None]

Scan(s) ==
  /\ results' = [f \in File |-> IF content[f] = None THEN None
                                ELSE [cpg |-> content[f], sig |-> s]]
  /\ UNCHANGED content

Next ==
  \/ \E f \in File, c \in Cpg \cup {None} : Change(f, c)
  \/ \E s \in Sig : Scan(s)

Spec == Init /\ [][Next]_vars
=============================================================================
