-------------------------------- MODULE Chain --------------------------------
(***************************************************************************)
(* The hash chain of one agent: the entries handlers that post and delete, *)
(* and the bin handlers and purge statements that restore and remove.      *)
(*                                                                         *)
(* A handler reads the chain head, and inserts or bins in later statements *)
(* without repeating the comparison.  published_at defaults to NOW(), the  *)
(* time at which the INSERT begins, so rows may be committed in another    *)
(* order than that of their stamps, and the head is the live row with the  *)
(* latest stamp.                                                           *)
(***************************************************************************)
EXTENDS Integers, Sequences, FiniteSets

CONSTANTS
    Bodies,          \* request bodies; SHA-256 has no collisions, so a body
                     \* stands for its content hash as well
    Zeros,           \* the hash of 32 zero bytes: "no previous entry"
    NULL,
    Slugs,
    Candidate,       \* Candidate[b][n]: WithSuffix(Slugify(title of b), n)
    SlugRetryLimit,
    MixUps,          \* whether Slugify calls at once may mix up their titles
    Procs,           \* requests in flight at once
    ClientOps,       \* the operations in use
    MaxInserts,      \* bound on the INSERT statements that begin
    MaxRows          \* bound on the rows committed

ASSUME ChainAssumption ==
    /\ SlugRetryLimit \in Nat \ {0}
    /\ Candidate \in [Bodies -> [1..SlugRetryLimit -> Slugs]]
    /\ MixUps \in BOOLEAN
    /\ Zeros \notin Bodies /\ NULL \notin Bodies
    /\ IsFiniteSet(Procs)
    /\ MaxInserts \in Nat /\ MaxRows \in Nat

VARIABLES
    rows,   \* the agent's entries in the order they were committed
    clock,  \* the stamps drawn so far
    req     \* the request each process is serving

vars == <<rows, clock, req>>

-----------------------------------------------------------------------------
(* Rows *)

Hash == Bodies \cup {Zeros}
\* "restored": live again, which the code does not tell from "live"; "purged": no row
\* any more
RowState == {"live", "restored", "binned", "purged"}
Row == [hash : Bodies, prev : Bodies \cup {NULL}, slug : Slugs,
        published_at : Nat, st : RowState]

LiveRows   == {i \in DOMAIN rows : rows[i].st \in {"live", "restored"}}
BinnedRows == {i \in DOMAIN rows : rows[i].st = "binned"}
Present    == LiveRows \cup BinnedRows

\* Mutant: ORDER BY published_at without DESC
Oldest(i) == \A j \in LiveRows : rows[i].published_at <= rows[j].published_at

\* ORDER BY published_at DESC LIMIT 1
Latest(i) == \A j \in LiveRows : rows[j].published_at <= rows[i].published_at

\* GetLatestEntryHashForAgent answers h, ErrNoRows being taken for zeros
Anchor(h) == IF LiveRows = {} THEN h = Zeros
                              ELSE \E i \in LiveRows : Latest(i) /\ h = rows[i].hash

\* Mutant: zeros are stored as they come
PrevAsSent(prev) == prev
PrevForDB(prev) == IF prev = Zeros THEN NULL ELSE prev

\* UPDATE or DELETE ... WHERE id = i: a row that has gone stays gone
Move(i, s) == rows' = [rows EXCEPT ![i].st = IF @ = "purged" THEN @ ELSE s]

\* UNIQUE (agent_id, slug) counts the rows in the bin as well
SlugTaken(s) == \E i \in Present : rows[i].slug = s

-----------------------------------------------------------------------------
(* Requests.  A signed request is any one its client can have signed: the  *)
(* network may deliver it late, twice, or never.                           *)

Ops == {"Post", "SignedDelete", "Delete", "Restore", "Purge", "Worker"}

Request(op, pc, b, h, s, i) ==
    [op |-> op, pc |-> pc, body |-> b, prev |-> h, slug |-> s,
     title |-> b, n |-> 1, stamp |-> 0, row |-> i]
Idle == Request("idle", "idle", NULL, NULL, NULL, 0)

At(p, op, pc) == req[p].op = op /\ req[p].pc = pc
Goto(p, pc) == req' = [req EXCEPT ![p].pc = pc]
Done(p) == req' = [req EXCEPT ![p] = Idle]
Begin(p, r) == req[p] = Idle /\ req' = [req EXCEPT ![p] = r]

Arrive(p) ==
    /\ \/ \E b \in Bodies, h \in Hash :
             Begin(p, Request("Post", "authed", b, h, NULL, 0))
       \/ \E s \in Slugs, h \in Hash :
             Begin(p, Request("SignedDelete", "authed", NULL, h, s, 0))
       \/ \E s \in Slugs :
             Begin(p, Request("Delete", "authorized", NULL, NULL, s, 0))
       \/ \E op \in {"Restore", "Purge"}, i \in DOMAIN rows :
             Begin(p, Request(op, "authed", NULL, NULL, NULL, i))
    /\ req'[p].op \in ClientOps
    /\ UNCHANGED <<rows, clock>>

\* The request ends with no further effect: a failed check, an error, the
\* timeout.  An INSERT under way is rolled back.
Return(p) ==
    /\ req[p] # Idle
    /\ Done(p)
    /\ UNCHANGED <<rows, clock>>

-----------------------------------------------------------------------------
(* entries.Post *)

\* t: the body whose title the slug is made of.  Slugify shares one transformer
\* (asciiFolder), which is not safe for concurrent use: what comes out while another
\* post is being served may be made of another text.
Slugify(p, t) ==
    /\ t = req[p].body \/ (MixUps /\ \E q \in Procs \ {p} : req[q].op = "Post")
    /\ req' = [req EXCEPT ![p].pc = "anchored", ![p].title = t]

\* Mutant: prev is not compared with the head
AcceptAnyPrev(p) ==
    /\ At(p, "Post", "authed")
    /\ \E t \in Bodies : Slugify(p, t)
    /\ UNCHANGED <<rows, clock>>

CheckAnchorForPost(p) ==
    /\ At(p, "Post", "authed")
    /\ Anchor(req[p].prev)
    /\ \E t \in Bodies : Slugify(p, t)
    /\ UNCHANGED <<rows, clock>>

BeginInsert(p) ==
    /\ At(p, "Post", "anchored")
    /\ clock < MaxInserts
    /\ clock' = clock + 1
    /\ req' = [req EXCEPT ![p].pc = "inserting", ![p].stamp = clock + 1]
    /\ UNCHANGED rows

CommitInsert(p) ==
    LET r == req[p] IN
    /\ At(p, "Post", "inserting")
    /\ ~SlugTaken(Candidate[r.title][r.n])
    /\ Len(rows) < MaxRows
    /\ rows' = Append(rows, [hash |-> r.body, prev |-> PrevForDB(r.prev),
                             slug |-> Candidate[r.title][r.n],
                             published_at |-> r.stamp, st |-> "live"])
    /\ Done(p)
    /\ UNCHANGED clock

\* Error 23505 on the slug: the next suffix, and after the last one a 500 (Return)
RetrySlug(p) ==
    LET r == req[p] IN
    /\ At(p, "Post", "inserting")
    /\ SlugTaken(Candidate[r.title][r.n])
    /\ r.n < SlugRetryLimit
    /\ req' = [req EXCEPT ![p].pc = "anchored", ![p].n = r.n + 1]
    /\ UNCHANGED <<rows, clock>>

-----------------------------------------------------------------------------
(* entries.Delete, bin.RestoreEntry, bin.PurgeEntry and the purges *)

\* A delete that its signature allows goes on like one that the owner's session does
CheckAnchorForDelete(p) ==
    /\ At(p, "SignedDelete", "authed")
    /\ Anchor(req[p].prev)
    /\ req' = [req EXCEPT ![p] = Request("Delete", "authorized", NULL, NULL, req[p].slug, 0)]
    /\ UNCHANGED <<rows, clock>>

GetEntryByAgentAndSlug(p) ==
    /\ At(p, "Delete", "authorized")
    /\ \E i \in LiveRows :
          /\ rows[i].slug = req[p].slug
          /\ req' = [req EXCEPT ![p] = Request("Delete", "checked", NULL, NULL, NULL, i)]
    /\ UNCHANGED <<rows, clock>>

SoftDeleteEntry(p) ==
    /\ At(p, "Delete", "checked")
    /\ Move(req[p].row, "binned")
    /\ Done(p)
    /\ UNCHANGED clock

GetEntryByIDForOwner(p) ==
    /\ req[p].op \in {"Restore", "Purge"} /\ req[p].pc = "authed"
    /\ req[p].row \in BinnedRows
    /\ Goto(p, "checked")
    /\ UNCHANGED <<rows, clock>>

RestoreEntry(p) ==
    /\ At(p, "Restore", "checked")
    /\ Move(req[p].row, "restored")
    /\ Done(p)
    /\ UNCHANGED clock

HardDeleteEntry(p) ==
    /\ At(p, "Purge", "checked")
    /\ Move(req[p].row, "purged")
    /\ Done(p)
    /\ UNCHANGED clock

\* The worker, or EmptyAll: any rows of the bin, their deadlines being left out
PurgeExpiredEntries ==
    /\ "Worker" \in ClientOps
    /\ \E D \in (SUBSET BinnedRows) \ {{}} :
          rows' = [i \in DOMAIN rows |->
                     IF i \in D THEN [rows[i] EXCEPT !.st = "purged"] ELSE rows[i]]
    /\ UNCHANGED <<clock, req>>

-----------------------------------------------------------------------------

Init ==
    /\ rows = <<>>
    /\ clock = 0
    /\ req = [p \in Procs |-> Idle]

Handle(p) ==
    \/ CheckAnchorForPost(p) \/ BeginInsert(p) \/ CommitInsert(p) \/ RetrySlug(p)
    \/ CheckAnchorForDelete(p) \/ GetEntryByAgentAndSlug(p) \/ SoftDeleteEntry(p)
    \/ GetEntryByIDForOwner(p) \/ RestoreEntry(p) \/ HardDeleteEntry(p)
    \/ Return(p)

Next ==
    \/ \E p \in Procs : Arrive(p) \/ Handle(p)
    \/ PurgeExpiredEntries

Spec == Init /\ [][Next]_vars

-----------------------------------------------------------------------------
(* Properties *)

\* Every variable has its type.
TypeOK ==
    /\ rows \in Seq(Row)
    /\ clock \in Nat
    /\ req \in [Procs -> [op : Ops \cup {"idle"},
                         pc : {"idle", "authed", "anchored", "authorized", "inserting", "checked"},
                         body : Bodies \cup {NULL},
                         prev : Hash \cup {NULL},
                         slug : Slugs \cup {NULL},
                         title : Bodies \cup {NULL},
                         n : 1..SlugRetryLimit,
                         stamp : Nat,
                         row : Nat]]

\* No entry names one that was published after it, or one the agent never had:
\* an accepted entry cannot be dated back before its predecessor, however posts,
\* deletes, restores and purges interleave and whatever prev a client signs.
ChainGrounded ==
    \A i \in DOMAIN rows : rows[i].prev # NULL =>
        \E j \in 1..(i - 1) :
            /\ rows[j].hash = rows[i].prev
            /\ rows[j].published_at < rows[i].published_at

\* The entries that name h, and have never been in the bin
Children(h) == {i \in DOMAIN rows : rows[i].prev = h /\ rows[i].st = "live"}

\* Concurrent posts fork the chain at most as wide as there are requests in flight, at
\* an entry whose content was posted once: an entry that has a successor is not the
\* head again before the successor is deleted, whatever else is deleted, restored and
\* purged.
ForkBounded ==
    /\ Cardinality(Children(NULL)) <= Cardinality(Procs)
    /\ \A i \in DOMAIN rows :
          (\A j \in DOMAIN rows \ {i} : rows[j].hash # rows[i].hash) =>
              Cardinality(Children(rows[i].hash)) <= Cardinality(Procs)

\* slug.go: "Slugify converts a title to a slug": an entry's slug is one of those
\* that its own title gives.  The code does not keep it.
SlugOfTitle ==
    \A i \in DOMAIN rows :
        \E n \in 1..SlugRetryLimit : rows[i].slug = Candidate[rows[i].hash][n]

\* Design document 4.3: "When an entry is hard-purged after the bin window, we leave a
\* tombstone row containing only content_hash and prev_entry_hash so the chain
\* integrity survives": what a row names is there.  The code does not keep it.
PrevPresent ==
    \A i \in Present : rows[i].prev # NULL =>
        \E j \in Present : rows[j].hash = rows[i].prev

Links == [i \in DOMAIN rows |-> [hash |-> rows[i].hash, prev |-> rows[i].prev]]

Tree == INSTANCE HashTree WITH Hashes <- Bodies, Root <- NULL, log <- Links
Line == INSTANCE HashChain WITH Hashes <- Bodies, Root <- NULL, log <- Links

\* In every interleaving, links are only added, and to entries that exist.
ImplementsHashTree == Tree!Spec

\* Design document 4.3: prev_entry_hash is "the content_hash of the agent's
\* previous entry"; "This forms an append-only chain per agent".
ImplementsHashChain == Line!Spec
=============================================================================
