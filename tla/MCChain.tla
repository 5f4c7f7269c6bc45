------------------------------ MODULE MCChain ------------------------------
(***************************************************************************)
(* Small instances of Chain for TLC.  Each body has a title of its own;    *)
(* all titles have the same second candidate for a slug, t.                *)
(***************************************************************************)
EXTENDS Chain, TLC

CONSTANTS b1, b2, b3, s1, s2, s3, t

MCCandidate ==
    [b \in Bodies |-> <<CASE b = b1 -> s1 [] b = b2 -> s2 [] b = b3 -> s3, t>>]

\* The bodies may be exchanged, together with their slugs
Swap(b, c, s, u) == b :> c @@ c :> b @@ s :> u @@ u :> s
Symmetry ==
    Permutations(Procs) \cup {Swap(b1, b2, s1, s2), Swap(b1, b3, s1, s3), Swap(b2, b3, s2, s3)}
=============================================================================
