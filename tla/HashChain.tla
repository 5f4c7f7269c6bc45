----------------------------- MODULE HashChain -----------------------------
(***************************************************************************)
(* What section 4.3 of the design document says of an agent's entries: an  *)
(* append-only chain, in which each entry names the one before it and the  *)
(* first names the root.                                                   *)
(***************************************************************************)
EXTENDS Sequences, Naturals

CONSTANTS Hashes, Root

VARIABLE log

Anchor == IF log = <<>> THEN Root ELSE log[Len(log)].hash

Chain(h) == log' = Append(log, [hash |-> h, prev |-> Anchor])

Init == log = <<>>
Next == \E h \in Hashes : Chain(h)
Spec == Init /\ [][Next]_log
=============================================================================
