------------------------------ MODULE AgentKeys ------------------------------
(***************************************************************************)
(* The signing keys of one agent and its custody mode: rotation, custody   *)
(* switch and revocation, each a sequence of autocommitted statements with *)
(* no transaction around them.  What it shares in name with Chain is       *)
(* called after the keys here, since Signing takes the two together.       *)
(***************************************************************************)
EXTENDS Integers, Sequences, FiniteSets

CONSTANTS
    KeyProcs,   \* requests in flight at once
    KeyOps,     \* the operations in use
    CanFail,    \* whether a request may stop half-way: an error, a crash
    MaxKeys     \* bound on the rows of agent_keys

ASSUME KeysAssumption ==
    /\ IsFiniteSet(KeyProcs) /\ KeyProcs # {}
    /\ CanFail \in BOOLEAN
    /\ MaxKeys \in Nat

VARIABLES
    custody,  \* agents.key_custody
    keys,     \* the agent's rows of agent_keys, by id
    kreq      \* the request each process is serving

keyVars == <<custody, keys, kreq>>

Custody == {"managed", "self"}
Other(c) == IF c = "managed" THEN "self" ELSE "managed"

\* sealed: encrypted_private_key is not null
Key == [status : {"active", "revoked"}, sealed : BOOLEAN]
Issue(c) == [status |-> "active", sealed |-> c = "managed"]

Active == {k \in DOMAIN keys : keys[k].status = "active"}

\* Mutants of the UPDATE: it matches no row; it matches the newest active one
RevokedNone == keys
RevokedNewest == [k \in DOMAIN keys |->
    IF k \in Active /\ (\A j \in Active : j <= k)
    THEN [keys[k] EXCEPT !.status = "revoked"] ELSE keys[k]]
RevokedAll == [k \in DOMAIN keys |-> [keys[k] EXCEPT !.status = "revoked"]]

AllKeyOps == {"Rotate", "Switch", "Revoke"}
\* mode: the custody the new key is issued for; key: the key to revoke;
\* seen: history, the keys that were active when the request arrived
KeyIdle == [op |-> "idle", pc |-> "idle", mode |-> "self", key |-> 0, seen |-> {}]

KeyAt(p, op, pc) == kreq[p].op \in op /\ kreq[p].pc = pc
KeyGoto(p, pc) == kreq' = [kreq EXCEPT ![p].pc = pc]
KeyDone(p) == kreq' = [kreq EXCEPT ![p] = KeyIdle]

\* loadOwnedAgent, and keys.Issue, which touches no shared state
LoadOwnedAgent(p, op) ==
    /\ op \in KeyOps \cap {"Rotate", "Switch"}
    /\ kreq[p] = KeyIdle
    /\ Len(keys) + Cardinality({q \in KeyProcs : kreq[q].op \in {"Rotate", "Switch"}}) < MaxKeys
    /\ kreq' = [kreq EXCEPT ![p] =
                 [KeyIdle EXCEPT !.op = op, !.pc = "loaded", !.seen = Active,
                              !.mode = IF op = "Rotate" THEN custody ELSE Other(custody)]]
    /\ UNCHANGED <<custody, keys>>

ListKeysForAgent(p) ==
    /\ "Revoke" \in KeyOps
    /\ kreq[p] = KeyIdle
    /\ \E k \in DOMAIN keys :
          kreq' = [kreq EXCEPT ![p] =
                     [KeyIdle EXCEPT !.op = "Revoke", !.pc = "loaded", !.key = k]]
    /\ UNCHANGED <<custody, keys>>

RevokeAllActiveKeysForAgent(p) ==
    /\ KeyAt(p, {"Rotate", "Switch"}, "loaded")
    /\ keys' = RevokedAll
    /\ KeyGoto(p, "revoked")
    /\ UNCHANGED custody

InsertAgentKey(p) ==
    /\ KeyAt(p, {"Rotate", "Switch"}, "revoked")
    /\ keys' = Append(keys, Issue(kreq[p].mode))
    /\ IF kreq[p].op = "Rotate" THEN KeyDone(p) ELSE KeyGoto(p, "inserted")
    /\ UNCHANGED custody

UpdateAgentCustody(p) ==
    /\ KeyAt(p, {"Switch"}, "inserted")
    /\ custody' = kreq[p].mode
    /\ KeyDone(p)
    /\ UNCHANGED keys

RevokeAgentKey(p) ==
    /\ KeyAt(p, {"Revoke"}, "loaded")
    /\ keys' = [keys EXCEPT ![kreq[p].key].status = "revoked"]
    /\ KeyDone(p)
    /\ UNCHANGED custody

\* A statement fails (500), the request times out, or the machine crashes: what
\* has been committed stays
Fail(p) ==
    /\ CanFail
    /\ kreq[p] # KeyIdle
    /\ KeyDone(p)
    /\ UNCHANGED <<custody, keys>>

\* agents.Create has inserted the agent, and its key unless that failed
KeysInit ==
    /\ custody \in Custody
    /\ keys \in {<<>>, <<Issue(custody)>>}
    /\ kreq = [p \in KeyProcs |-> KeyIdle]

KeysNext == \E p \in KeyProcs :
    \/ \E op \in AllKeyOps : LoadOwnedAgent(p, op)
    \/ ListKeysForAgent(p)
    \/ RevokeAllActiveKeysForAgent(p) \/ InsertAgentKey(p) \/ UpdateAgentCustody(p)
    \/ RevokeAgentKey(p)
    \/ Fail(p)

KeysSpec == KeysInit /\ [][KeysNext]_keyVars

-----------------------------------------------------------------------------
(* Properties *)

\* Every variable has its type, and a request revokes only a key that exists.
KeysTypeOK ==
    /\ custody \in Custody
    /\ keys \in Seq(Key)
    /\ kreq \in [KeyProcs -> [op : AllKeyOps \cup {"idle"},
                              pc : {"idle", "loaded", "revoked", "inserted"},
                              mode : Custody, key : Nat, seen : SUBSET Nat]]
    /\ \A p \in KeyProcs : kreq[p].op = "Revoke" => kreq[p].key \in DOMAIN keys

\* Requests that have revoked the old keys and not yet inserted theirs
Rotating == {p \in KeyProcs : KeyAt(p, {"Rotate", "Switch"}, "revoked")}

\* Concurrent rotations leave more than one key active, but never more than there
\* are requests in flight, however they interleave, fail and are repeated: an
\* insert never adds to what an earlier generation of rotations has left.
ActiveBounded == Cardinality(Active) <= Cardinality(KeyProcs)

\* agents/keys.go: RotateKey "revokes any previously active keys": when a rotation
\* or a switch inserts its key, no key that was active when it arrived still is,
\* whatever other rotations and failures came in between.
RotationRevokesOld ==
    [][\A p \in KeyProcs : InsertAgentKey(p) =>
          \A k \in kreq[p].seen : keys'[k].status = "revoked"]_keyVars

\* Design document, schema of agent_keys: encrypted_private_key "only when
\* agents.key_custody='managed'": between requests, the active keys are of the
\* custody mode that the agent's page discloses.  The code does not keep it.
CustodyMatchesKey ==
    (\A p \in KeyProcs : kreq[p] = KeyIdle) =>
        \A k \in Active : keys[k].sealed <=> custody = "managed"
=============================================================================
