---------------------------- MODULE MCAgentKeys ----------------------------
(***************************************************************************)
(* Small instances of AgentKeys for TLC.                                   *)
(***************************************************************************)
EXTENDS AgentKeys, TLC

Symmetry == Permutations(KeyProcs)
=============================================================================
