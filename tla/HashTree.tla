------------------------------ MODULE HashTree ------------------------------
(***************************************************************************)
(* What an agent's entries promise under any concurrency: links are only   *)
(* ever added, each to the root or to an entry that was added before it.   *)
(* Nothing is promised about forks.                                        *)
(***************************************************************************)
EXTENDS Sequences, Naturals

CONSTANTS Hashes, Root

VARIABLE log  \* the links in the order they were added

Known == {Root} \cup {log[i].hash : i \in DOMAIN log}

Extend(h, parent) == log' = Append(log, [hash |-> h, prev |-> parent])

Init == log = <<>>
\* The first conjunct is implied; it settles at once what leaves the log alone
Next ==
    /\ log' # log
    /\ \E h \in Hashes, parent \in Known : Extend(h, parent)
Spec == Init /\ [][Next]_log
=============================================================================
