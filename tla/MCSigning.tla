----------------------------- MODULE MCSigning -----------------------------
(***************************************************************************)
(* Small instances of Signing for TLC.  The bodies are versions of one     *)
(* article, under one title, so that the second to be posted is given the  *)
(* second candidate for a slug.  Of the keys only revocation is in use,    *)
(* to which the custody mode makes no difference.                          *)
(***************************************************************************)
EXTENDS Signing, TLC

CONSTANTS b1, b2, s1, s2, s3

MCCandidate == [b \in Bodies |-> SubSeq(<<s1, s2, s3>>, 1, SlugRetryLimit)]

MCInit == SigningInit /\ custody = "managed"
MCSpec == MCInit /\ [][SigningNext]_signingVars

Symmetry == Permutations(Bodies) \cup Permutations(Procs)
=============================================================================
