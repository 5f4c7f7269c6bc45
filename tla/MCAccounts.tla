----------------------------- MODULE MCAccounts -----------------------------
(***************************************************************************)
(* Small instances of Accounts for TLC.                                    *)
(***************************************************************************)
EXTENDS Accounts, TLC

Symmetry == Permutations(Procs) \cup Permutations(Nonces)
                \cup Permutations(People) \cup Permutations(Addresses)
=============================================================================
