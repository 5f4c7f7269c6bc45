------------------------------ MODULE Signing ------------------------------
(***************************************************************************)
(* Signed requests: what a client signs, what the network makes of it, the *)
(* checks of the verifier, and the posts and deletes that follow them,     *)
(* while the agent's keys are rotated and revoked.  Composes Chain (the    *)
(* entries) and AgentKeys (the keys), which share no state: what ties them *)
(* is the key that a request was signed with.                              *)
(*                                                                         *)
(* The network may deliver a request late, more than once, never, or with  *)
(* a field changed or lost.                                                *)
(***************************************************************************)
EXTENDS Chain, AgentKeys

CONSTANTS
    Foreign,    \* the key of another agent
    Missing,    \* a header that is not there, or cannot be parsed
    Window,     \* the 5 minutes of the verifier, in ticks
    Skew,       \* how far the clients' clocks are off
    Damage,     \* whether the network changes requests
    MaxTime,    \* bound on the clock
    MaxSigned   \* bound on the requests that are signed

ASSUME SigningAssumption ==
    /\ Foreign \notin Nat /\ Missing \notin Nat \cup Hash
    /\ Foreign # Missing
    /\ Window \in Nat /\ Skew \in Nat /\ MaxTime \in Nat /\ MaxSigned \in Nat
    /\ Damage \in BOOLEAN

VARIABLES
    now,      \* the clock of the machines, in ticks
    wire,     \* the requests ever signed
    serving,  \* the signed request each process is serving
    origin    \* history: the request each row came with

chainVars == <<rows, clock, req>>
signingVars == <<rows, clock, req, custody, keys, kreq, now, wire, serving, origin>>

-----------------------------------------------------------------------------
(* The client *)

\* body: what is sent; digest: the Content-Digest header, a hash standing for its
\* body; slug: the entry that the path of a DELETE names
SignedRequest(op, k, t, b, h, s) ==
    [op |-> op, key |-> k, created |-> t, body |-> b, digest |-> b, prev |-> h, slug |-> s]

\* What the signature covers: everything but the body, for which the digest stands
SignatureBase(d) == <<d.op, d.key, d.created, d.digest, d.prev, d.slug>>

\* A client signs with any key it has ever been given, or by mistake with that of
\* another agent, and names any previous entry
Sign ==
    /\ Cardinality(wire) < MaxSigned
    /\ \E k \in DOMAIN keys \cup {Foreign}, t \in Nat \cap (now - Skew)..(now + Skew), h \in Hash :
          \/ \E b \in Bodies :
                /\ "Post" \in ClientOps
                /\ wire' = wire \cup {SignedRequest("Post", k, t, b, h, NULL)}
          \/ \E s \in Slugs :
                /\ "SignedDelete" \in ClientOps
                /\ wire' = wire \cup {SignedRequest("SignedDelete", k, t, NULL, h, s)}
    /\ UNCHANGED <<chainVars, keyVars, now, serving, origin>>

-----------------------------------------------------------------------------
(* The network *)

\* sent: what was signed; got: what has arrived; at: when; active: the keys that
\* were active then; seen: the entries there were then (both history)
Delivery(pc, sent, got) ==
    [pc |-> pc, sent |-> sent, got |-> got, at |-> now, active |-> Active, seen |-> Len(rows)]
Nothing == SignedRequest("none", Missing, 0, NULL, NULL, NULL)
NoDelivery == [pc |-> "idle", sent |-> Nothing, got |-> Nothing, at |-> 0, active |-> {}, seen |-> 0]

Damaged(d) ==
    {[d EXCEPT !.body = b] : b \in Bodies}
    \cup {[d EXCEPT !.digest = b] : b \in Bodies \cup {Missing}}
    \cup {[d EXCEPT !.prev = h] : h \in Hash \cup {Missing}}
    \cup {[d EXCEPT !.created = t] : t \in {now, Missing}}
    \cup {[d EXCEPT !.key = k] : k \in DOMAIN keys \cup {Missing}}

\* Any request that was ever signed arrives, for the first time or again
Deliver(p) ==
    /\ serving[p] = NoDelivery /\ req[p] = Idle
    /\ \E d \in wire : \E g \in {d} \cup (IF Damage THEN Damaged(d) ELSE {}) :
          serving' = [serving EXCEPT ![p] = Delivery("read", d, g)]
    /\ UNCHANGED <<chainVars, keyVars, now, wire, origin>>

-----------------------------------------------------------------------------
(* The verifier *)

\* The headers are there and in the form they should have
WellFormed(g) == Missing \notin {g.digest, g.key, g.created, g.prev}

\* Mutants: the body is not hashed; a time to come is always in the window
DigestUnchecked(g) == TRUE
DigestMatches(g) == g.digest = g.body
NotTooOld(t) == now - t <= Window
Timely(t) == now - t <= Window /\ t - now <= Window

\* Steps 1 to 5 of Verify, which touch no shared state but the clock
CheckRequest(p) ==
    LET g == serving[p].got IN
    /\ serving[p].pc = "read"
    /\ WellFormed(g) /\ DigestMatches(g) /\ Timely(g.created)
    /\ serving' = [serving EXCEPT ![p].pc = "timely"]
    /\ UNCHANGED <<chainVars, keyVars, now, wire, origin>>

\* Mutant: the status of the key is not looked at
FetchAny(k) == k \in DOMAIN keys \cup {Foreign}
\* DBKeyFetcher.Fetch finds a key of any agent, if it is active now
Fetch(k) == k \in Active \cup {Foreign}

\* ed25519.Verify, for the base rebuilt from what has arrived
SignatureVerifies(d) == SignatureBase(d.got) = SignatureBase(d.sent)

OwnKey(k) == k # Foreign

\* Steps 6 to 8, then GetAgentByHandle: the key must be one of this agent.  Goes on
\* as the request that Chain receives.
FetchKey(p) ==
    LET g == serving[p].got IN
    /\ serving[p].pc = "timely"
    /\ Fetch(g.key) /\ SignatureVerifies(serving[p]) /\ OwnKey(g.key)
    /\ Arrive(p)
    /\ req'[p] = Request(g.op, "authed", g.body, g.prev, g.slug, 0)
    /\ serving' = [serving EXCEPT ![p].pc = "verified"]
    /\ UNCHANGED <<keyVars, now, wire, origin>>

\* A check fails, or the request times out, before it has reached Chain
Refuse(p) ==
    /\ serving[p].pc \in {"read", "timely"}
    /\ serving' = [serving EXCEPT ![p] = NoDelivery]
    /\ UNCHANGED <<chainVars, keyVars, now, wire, origin>>

-----------------------------------------------------------------------------
(* The handlers, the owner, the keys, the clock *)

\* Chain's actions, on behalf of the request that is being served
Serve(p) ==
    /\ Handle(p)
    /\ serving' = IF req'[p] = Idle THEN [serving EXCEPT ![p] = NoDelivery] ELSE serving
    /\ origin' = IF Len(rows') > Len(rows) THEN Append(origin, serving[p]) ELSE origin
    /\ UNCHANGED <<keyVars, now, wire>>

\* What the owner's session does needs no signature
ArriveBySession(p) ==
    /\ serving[p] = NoDelivery
    /\ Arrive(p)
    /\ req'[p].op \notin {"Post", "SignedDelete"}
    /\ UNCHANGED <<keyVars, now, wire, serving, origin>>

Purges == PurgeExpiredEntries /\ UNCHANGED <<keyVars, now, wire, serving, origin>>

ChangeKeys == KeysNext /\ UNCHANGED <<chainVars, now, wire, serving, origin>>

\* The statements of a request end with its timeout, 30 seconds after it arrived:
\* the clock ticks at most once in between
Tick ==
    /\ now < MaxTime
    /\ \A p \in Procs : serving[p] # NoDelivery => serving[p].at = now
    /\ now' = now + 1
    /\ UNCHANGED <<chainVars, keyVars, wire, serving, origin>>

SigningInit ==
    /\ Init /\ KeysInit
    /\ now = 0
    /\ wire = {}
    /\ serving = [p \in Procs |-> NoDelivery]
    /\ origin = <<>>

SigningNext ==
    \/ Sign
    \/ \E p \in Procs :
          \/ Deliver(p) \/ CheckRequest(p) \/ FetchKey(p) \/ Refuse(p)
          \/ Serve(p) \/ ArriveBySession(p)
    \/ Purges
    \/ ChangeKeys
    \/ Tick

SigningSpec == SigningInit /\ [][SigningNext]_signingVars

-----------------------------------------------------------------------------
(* Properties *)

\* Every variable that this module adds has its type, and every row its origin.
SigningTypeOK ==
    LET Time == Nat \cup {Missing}
        Any == [op : {"none", "Post", "SignedDelete"}, key : Nat \cup {Foreign, Missing},
                created : Time, body : Bodies \cup {NULL}, digest : Bodies \cup {NULL, Missing},
                prev : Hash \cup {NULL, Missing}, slug : Slugs \cup {NULL}]
        AnyDelivery == [pc : {"idle", "read", "timely", "verified"}, sent : Any, got : Any,
                        at : Nat, active : SUBSET Nat, seen : Nat]
    IN  /\ now \in Nat
        /\ wire \in SUBSET Any
        /\ serving \in [Procs -> AnyDelivery]
        /\ origin \in Seq(AnyDelivery)
        /\ Len(origin) = Len(rows)

\* agents/keys.go and the verifier: every entry was signed with a key of this agent
\* that was active when the request arrived.  A key that is revoked before that never
\* signs another entry, however old the request and however the rotation, the
\* revocation and the post interleave; one revoked while the post is being served may.
ActiveKeySigned ==
    \A i \in DOMAIN rows : origin[i].got.key \in origin[i].active

\* verifier.go: "make sure the bytes the handler will write to the DB match the bytes
\* the signature covers": every entry is what the client signed, in content and in
\* place, whatever the network changed or lost.
EntryAsSigned ==
    \A i \in DOMAIN rows :
        LET d == origin[i].sent IN
        /\ d \in wire
        /\ rows[i].hash = d.body
        /\ rows[i].prev = PrevForDB(d.prev)

\* delete.go: "so a stale signature can't re-delete a restored entry days later": a
\* signed request has its effect within the window around its creation, and the tick
\* that a request may take, however often and late it is delivered.
FreshEffect ==
    [][\A p \in Procs :
         (serving[p].pc = "verified" /\ rows' # rows /\ req'[p] = Idle) =>
             now - serving[p].got.created \in (-Window)..(Window + 1)]_signingVars

\* post.go compares prev_entry_hash with the head: a client that sends the same signed
\* post again, after the first was stored, gets a second entry only if the content
\* that it names was published again in between, or the first was deleted.  Two
\* deliveries that are served at once are not covered.
RetryStoredOnce ==
    \A j \in DOMAIN rows : \A i \in 1..origin[j].seen :
        (origin[i].sent = origin[j].sent /\ rows[i].st = "live") =>
            \E k \in 1..(j - 1) : /\ rows[k].hash = rows[j].prev
                                  /\ rows[i].published_at <= rows[k].published_at
=============================================================================
