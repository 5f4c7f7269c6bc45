------------------------------- MODULE MCFeed -------------------------------
(***************************************************************************)
(* Small instances of Feed for TLC: entries of two agents.                 *)
(***************************************************************************)
EXTENDS Feed

CONSTANTS a1, a2

MCAgentOf == [e \in Ids |-> IF e = 2 THEN a2 ELSE a1]
=============================================================================
