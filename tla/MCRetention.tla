---------------------------- MODULE MCRetention ----------------------------
(***************************************************************************)
(* Small instances of Retention for TLC: one account, with one agent or    *)
(* two, and an entry of the first.                                         *)
(***************************************************************************)
EXTENDS Retention, TLC

CONSTANTS u1, a1, a2, e1, e2

MCOwnerOf == [a \in Agents |-> u1]
MCAgentOf == [e \in Entries |-> IF e = e2 THEN a2 ELSE a1]

\* Requests are alike, for a run that checks no liveness
ProcSymmetry == Permutations(Procs)

\* The operations that create rows and set or clear deadlines, for the runs that
\* ask about the workers
DeadlineOps == {"DeleteMe", "CreateAgent", "DeleteAgent", "RestoreAgent", "PostEntry"}
=============================================================================
