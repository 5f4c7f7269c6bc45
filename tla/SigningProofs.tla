---------------------------- MODULE SigningProofs ----------------------------
(***************************************************************************)
(* Theorems about Chain, for every set of bodies, titles and slugs, every  *)
(* number of requests in flight and any of the operations; about the keys  *)
(* of AgentKeys, for any number of requests, any of the operations, and    *)
(* requests that may stop half-way; and about Signing, which composes the  *)
(* two, for any number of signed requests, keys and bodies, any window and *)
(* skew, and a network that may damage what it delivers.                   *)
(***************************************************************************)
EXTENDS Signing, FiniteSetTheorems, TLAPS

-----------------------------------------------------------------------------
(* Chain: type correctness *)

RequestType == [op : Ops \cup {"idle"},
                pc : {"idle", "authed", "anchored", "authorized", "inserting", "checked"},
                body : Bodies \cup {NULL}, prev : Hash \cup {NULL},
                slug : Slugs \cup {NULL}, title : Bodies \cup {NULL},
                n : 1..SlugRetryLimit, stamp : Nat, row : Nat]

\* A posting request carries a body and a hash.
PostsOK == \A p \in Procs : req[p].op = "Post" =>
               /\ req[p].body \in Bodies /\ req[p].title \in Bodies
               /\ req[p].prev \in Hash

\* Where the stamps are: committed rows have drawn theirs, and so have the INSERTs
\* under way.  The entry that a checked prev names was committed before.
StampsOK ==
    /\ \A i \in DOMAIN rows : rows[i].published_at <= clock
    /\ \A p \in Procs : req[p].op = "Post" /\ req[p].pc \in {"anchored", "inserting"} =>
          \/ req[p].prev = Zeros
          \/ \E j \in DOMAIN rows :
                /\ rows[j].hash = req[p].prev
                /\ req[p].pc = "inserting" => rows[j].published_at < req[p].stamp
    /\ \A p \in Procs : req[p].stamp <= clock

IInv == TypeOK /\ PostsOK /\ StampsOK /\ ChainGrounded

\* What an update of one field leaves alone
SameButPc(r, q) == /\ q.op = r.op /\ q.body = r.body /\ q.title = r.title
                   /\ q.prev = r.prev /\ q.row = r.row

\* A request that goes on to another pc keeps its other fields.
LEMMA PcUpdate ==
    ASSUME NEW r \in RequestType, NEW pc \in {"anchored", "inserting"}
    PROVE  /\ [r EXCEPT !.pc = pc] \in RequestType /\ [r EXCEPT !.pc = pc].pc = pc
           /\ [r EXCEPT !.pc = pc].stamp = r.stamp /\ SameButPc(r, [r EXCEPT !.pc = pc])
<1>1. [r EXCEPT !.pc = pc] \in RequestType
    BY DEF RequestType
<1> QED BY <1>1 DEF RequestType, SameButPc

\* A request that draws a stamp keeps its other fields.
LEMMA StampUpdate ==
    ASSUME NEW r \in RequestType, NEW s \in Nat
    PROVE  /\ [r EXCEPT !.stamp = s] \in RequestType /\ [r EXCEPT !.stamp = s].stamp = s
           /\ [r EXCEPT !.stamp = s].pc = r.pc /\ SameButPc(r, [r EXCEPT !.stamp = s])
<1>1. [r EXCEPT !.stamp = s] \in RequestType
    BY DEF RequestType
<1> QED BY <1>1 DEF RequestType, SameButPc

\* A request that tries the next suffix keeps its other fields.
LEMMA AttemptUpdate ==
    ASSUME NEW r \in RequestType, NEW m \in 1..SlugRetryLimit
    PROVE  /\ [r EXCEPT !.n = m] \in RequestType /\ [r EXCEPT !.n = m].stamp = r.stamp
           /\ [r EXCEPT !.n = m].pc = r.pc /\ SameButPc(r, [r EXCEPT !.n = m])
<1>1. [r EXCEPT !.n = m] \in RequestType
    BY DEF RequestType
<1> QED BY <1>1 DEF RequestType, SameButPc

\* A request starts with the operation and at the step that it is made with.
LEMMA RequestFields ==
    ASSUME NEW op, NEW pc, NEW b, NEW h, NEW s, NEW i
    PROVE  Request(op, pc, b, h, s, i).op = op /\ Request(op, pc, b, h, s, i).pc = pc
BY DEF Request

\* A free process has a well-typed request.
LEMMA IdleType == Idle \in RequestType /\ Idle.op = "idle" /\ Idle.stamp = 0
BY ChainAssumption DEF Idle, Request, RequestType, ChainAssumption

\* The states that an UPDATE or a DELETE moves a row to
Later == RowState \ {"live"}

\* An UPDATE or a DELETE moves rows between the states, and nothing else; a row that
\* has left the state it was inserted in never comes back to it.
Moved ==
    /\ Len(rows') = Len(rows)
    /\ \A i \in DOMAIN rows : /\ rows'[i].hash = rows[i].hash
                              /\ rows'[i].prev = rows[i].prev
                              /\ rows'[i].published_at = rows[i].published_at
                              /\ rows'[i].st = "live" => rows[i].st = "live"

SameLink(r, q) == /\ q \in Row
                  /\ q.hash = r.hash /\ q.prev = r.prev /\ q.published_at = r.published_at
                  /\ q.st = "live" => r.st = "live"

\* Changing the state of a row keeps its hash, its link and its stamp.
LEMMA StateChange ==
    ASSUME NEW r \in Row
    PROVE  SameLink(r, r) /\ \A s \in Later : SameLink(r, [r EXCEPT !.st = s])
<1>1. ASSUME NEW s \in Later
      PROVE  [r EXCEPT !.st = s] \in Row
    BY DEF Row, Later
<1> QED BY <1>1 DEF SameLink, Row, Later

\* Such changes of any rows keep everything the chain is made of.
LEMMA StateMoves ==
    ASSUME rows \in Seq(Row), NEW f, rows' = [i \in DOMAIN rows |-> f[i]],
           \A i \in DOMAIN rows : SameLink(rows[i], f[i])
    PROVE  rows' \in Seq(Row) /\ Moved
<1>1. rows' \in [1..Len(rows) -> Row] /\ Len(rows) \in Nat
    BY DEF SameLink
<1>2. rows' \in Seq(Row) /\ Len(rows') = Len(rows)
    BY <1>1
<1> QED BY <1>2 DEF Moved, SameLink

\* Binning, restoring and purging one row is such a change.
LEMMA MoveMoves ==
    ASSUME rows \in Seq(Row), NEW i \in Nat, NEW s \in Later, Move(i, s)
    PROVE  rows' \in Seq(Row) /\ Moved
<1> DEFINE f == [j \in DOMAIN rows |-> IF j = i
                    THEN [rows[j] EXCEPT !.st = IF @ = "purged" THEN @ ELSE s]
                    ELSE rows[j]]
<1>1. rows' = [j \in DOMAIN rows |-> f[j]]
    BY DEF Move
<1>2. ASSUME NEW j \in DOMAIN rows
      PROVE  SameLink(rows[j], f[j])
    <2>1. rows[j] \in Row
        OBVIOUS
    <2>2. PICK t \in Later : j = i => f[j] = [rows[j] EXCEPT !.st = t]
        BY DEF Later, RowState
    <2>3. j # i => f[j] = rows[j]
        OBVIOUS
    <2> HIDE DEF f
    <2> QED BY <2>1, <2>2, <2>3, StateChange
<1> HIDE DEF f
<1> QED BY <1>1, <1>2, StateMoves

\* So is a purge of any set of rows.
LEMMA PurgeMoves ==
    ASSUME rows \in Seq(Row), PurgeExpiredEntries
    PROVE  rows' \in Seq(Row) /\ Moved
<1>1. PICK D : rows' = [j \in DOMAIN rows |->
                 IF j \in D THEN [rows[j] EXCEPT !.st = "purged"] ELSE rows[j]]
    BY DEF PurgeExpiredEntries
<1> DEFINE f == [j \in DOMAIN rows |->
                 IF j \in D THEN [rows[j] EXCEPT !.st = "purged"] ELSE rows[j]]
<1>2. ASSUME NEW j \in DOMAIN rows
      PROVE  SameLink(rows[j], f[j])
    <2>1. rows[j] \in Row
        OBVIOUS
    <2> QED BY <2>1, StateChange DEF Later, RowState
<1>3. rows' = [j \in DOMAIN rows |-> f[j]]
    BY <1>1
<1> HIDE DEF f
<1> QED BY <1>2, <1>3, StateMoves

-----------------------------------------------------------------------------
(* Chain: the inductive invariant *)

\* The request that carries prev may go on to insert under it.
Justified(r) ==
    \/ r.prev = Zeros
    \/ \E j \in DOMAIN rows :
          /\ rows[j].hash = r.prev
          /\ r.pc = "inserting" => rows[j].published_at < r.stamp

Becomes(p, r) == req' = [req EXCEPT ![p] = r]

\* A step that changes one request alone.
LEMMA RequestStep ==
    ASSUME IInv, NEW p \in Procs, NEW r \in RequestType,
           Becomes(p, r), rows' = rows,
           clock' \in Nat, clock <= clock', r.stamp <= clock',
           r.op = "Post" => r.body \in Bodies /\ r.title \in Bodies /\ r.prev \in Hash,
           r.op = "Post" /\ r.pc \in {"anchored", "inserting"} => Justified(r)
    PROVE  IInv'
<1>0. req \in [Procs -> RequestType]
    BY DEF IInv, TypeOK, RequestType
<1>1. req \in [Procs -> RequestType] /\ req' \in [Procs -> RequestType]
    BY <1>0 DEF Becomes
<1>2. req'[p] = r /\ \A q \in Procs \ {p} : req'[q] = req[q]
    BY <1>1 DEF Becomes
<1>3. TypeOK'
    BY <1>1 DEF IInv, TypeOK, RequestType
<1>4. PostsOK'
    BY <1>2 DEF IInv, PostsOK
<1>5. \A i \in DOMAIN rows : rows[i].published_at <= clock'
    <2>1. \A i \in DOMAIN rows : rows[i] \in Row
        BY DEF IInv, TypeOK
    <2>2. \A i \in DOMAIN rows : rows[i].published_at \in Nat /\ rows[i].published_at <= clock
        BY <2>1 DEF IInv, StampsOK, Row
    <2> QED BY <2>2 DEF IInv, TypeOK
<1>6. \A q \in Procs : req'[q].stamp <= clock'
    <2>1. \A q \in Procs : req[q].stamp \in Nat /\ req[q].stamp <= clock
        BY <1>1 DEF IInv, StampsOK, RequestType
    <2> QED BY <1>2, <2>1 DEF IInv, TypeOK
<1>7. StampsOK'
    BY <1>2, <1>5, <1>6 DEF IInv, StampsOK, Justified
<1>8. ChainGrounded'
    BY DEF IInv, ChainGrounded
<1> QED BY <1>3, <1>4, <1>7, <1>8 DEF IInv

\* A step that moves rows into the bin, out of it or away, and ends a request.
LEMMA MovedStep ==
    ASSUME IInv, rows' \in Seq(Row), Moved, clock' = clock,
           req' = req \/ \E p \in Procs : Done(p)
    PROVE  IInv'
<1>1. DOMAIN rows' = DOMAIN rows /\ DOMAIN rows = 1..Len(rows) /\ Len(rows) \in Nat
    BY DEF Moved, IInv, TypeOK
<1>2. req \in [Procs -> RequestType] /\ req' \in [Procs -> RequestType]
    BY IdleType DEF Done, IInv, TypeOK, RequestType
<1>3. TypeOK'
    BY <1>2 DEF IInv, TypeOK, RequestType
<1>4. PostsOK'
    BY IdleType DEF IInv, PostsOK, Done, TypeOK
<1>5. \A i \in DOMAIN rows' : rows'[i].published_at <= clock'
    BY <1>1 DEF IInv, StampsOK, Moved
<1>6. \A q \in Procs : req'[q].stamp <= clock'
    <2>1. \A q \in Procs : req[q].stamp <= clock' /\ 0 <= clock'
        BY DEF IInv, TypeOK, StampsOK
    <2> QED BY <1>2, <2>1, IdleType DEF Done
<1>7. \A q \in Procs : req'[q] = req[q] \/ req'[q].op # "Post"
    BY <1>2, IdleType DEF Done
<1>8. StampsOK'
    BY <1>1, <1>5, <1>6, <1>7 DEF IInv, StampsOK, Moved
<1>9. ChainGrounded'
    BY <1>1 DEF IInv, ChainGrounded, Moved
<1> QED BY <1>3, <1>4, <1>8, <1>9 DEF IInv

\* The insert: the new row names an entry with an earlier stamp, or none.
LEMMA CommitStep ==
    ASSUME IInv, NEW p \in Procs, CommitInsert(p)
    PROVE  IInv'
<1> DEFINE r == req[p]
           new == [hash |-> r.body, prev |-> PrevForDB(r.prev),
                   slug |-> Candidate[r.title][r.n], published_at |-> r.stamp, st |-> "live"]
           m == Len(rows) + 1
<1>1. r \in RequestType /\ r.op = "Post" /\ r.pc = "inserting"
    BY DEF IInv, TypeOK, RequestType, CommitInsert, At
<1>2. r.body \in Bodies /\ r.title \in Bodies /\ r.prev \in Hash
    BY <1>1 DEF IInv, PostsOK
<1>3. new \in Row
    <2>1. PrevForDB(r.prev) \in Bodies \cup {NULL}
        BY <1>2 DEF PrevForDB, Hash
    <2>2. Candidate[r.title][r.n] \in Slugs
        BY <1>1, <1>2, ChainAssumption DEF ChainAssumption, RequestType
    <2> QED BY <1>1, <1>2, <2>1, <2>2 DEF Row, RequestType, RowState
<1>4. rows' = Append(rows, new) /\ Done(p) /\ clock' = clock
    BY DEF CommitInsert
<1> HIDE DEF new
<1>5. /\ rows' \in Seq(Row) /\ DOMAIN rows' = 1..m /\ DOMAIN rows = 1..(m - 1) /\ m \in Nat
      /\ \A i \in DOMAIN rows : rows'[i] = rows[i]
      /\ rows'[m] = new
    BY <1>3, <1>4 DEF IInv, TypeOK
<1>6. new.prev # NULL =>
        \E j \in DOMAIN rows : rows[j].hash = new.prev /\ rows[j].published_at < new.published_at
    BY <1>1 DEF IInv, StampsOK, new, PrevForDB
<1>7. req \in [Procs -> RequestType] /\ req' \in [Procs -> RequestType]
    BY <1>4, IdleType DEF Done, IInv, TypeOK, RequestType
<1>8. TypeOK'
    BY <1>4, <1>5, <1>7 DEF IInv, TypeOK, RequestType
<1>9. PostsOK'
    BY <1>4, <1>7, IdleType DEF IInv, PostsOK, Done
<1>10. new.published_at <= clock'
    BY <1>4 DEF IInv, StampsOK, new
<1>11. \A q \in Procs : req'[q].stamp <= clock' /\ (req'[q] = req[q] \/ req'[q].op # "Post")
    BY <1>4, <1>7, IdleType DEF IInv, TypeOK, StampsOK, Done
<1>12. StampsOK'
    <2>1. \A i \in DOMAIN rows' : rows'[i].published_at <= clock'
        BY <1>4, <1>5, <1>10 DEF IInv, StampsOK
    <2>2. \A q \in Procs : req'[q].op = "Post" /\ req'[q].pc \in {"anchored", "inserting"} =>
             \/ req'[q].prev = Zeros
             \/ \E j \in DOMAIN rows' :
                   /\ rows'[j].hash = req'[q].prev
                   /\ req'[q].pc = "inserting" => rows'[j].published_at < req'[q].stamp
        BY <1>5, <1>11 DEF IInv, StampsOK
    <2> QED BY <1>11, <2>1, <2>2 DEF StampsOK
<1>13. ChainGrounded'
    BY <1>5, <1>6 DEF IInv, ChainGrounded
<1> QED BY <1>8, <1>9, <1>12, <1>13 DEF IInv

\* What a request is when it arrives
Arrived(p, r) ==
    /\ Becomes(p, r)
    /\ r \in RequestType /\ r.stamp = 0 /\ r.pc \notin {"anchored", "inserting"}
    /\ r.op = "Post" => r.body \in Bodies /\ r.title \in Bodies /\ r.prev \in Hash

\* A request that arrives has drawn no stamp and compared nothing with the head.
LEMMA ArrivedRequest ==
    ASSUME IInv, NEW p \in Procs, Arrive(p)
    PROVE  \E r : Arrived(p, r)
<1>t. DOMAIN rows \subseteq Nat
    BY DEF IInv, TypeOK
<1>1. ASSUME NEW b \in Bodies, NEW h \in Hash,
             Begin(p, Request("Post", "authed", b, h, NULL, 0))
      PROVE  \E r : Arrived(p, r)
    <2> DEFINE r == Request("Post", "authed", b, h, NULL, 0)
    <2>1. r \in RequestType /\ r.stamp = 0 /\ r.pc \notin {"anchored", "inserting"}
          /\ (r.op = "Post" => r.body \in Bodies /\ r.title \in Bodies /\ r.prev \in Hash)
        BY <1>t, ChainAssumption DEF ChainAssumption, Request, RequestType, Ops
    <2>2. Becomes(p, r)
        BY <1>1 DEF Begin, Becomes
    <2> HIDE DEF r
    <2> QED BY <2>1, <2>2 DEF Arrived
<1>2. ASSUME NEW s \in Slugs, NEW h \in Hash,
             Begin(p, Request("SignedDelete", "authed", NULL, h, s, 0))
      PROVE  \E r : Arrived(p, r)
    <2> DEFINE r == Request("SignedDelete", "authed", NULL, h, s, 0)
    <2>1. r \in RequestType /\ r.stamp = 0 /\ r.pc \notin {"anchored", "inserting"}
          /\ (r.op = "Post" => r.body \in Bodies /\ r.title \in Bodies /\ r.prev \in Hash)
        BY <1>t, ChainAssumption DEF ChainAssumption, Request, RequestType, Ops
    <2>2. Becomes(p, r)
        BY <1>2 DEF Begin, Becomes
    <2> HIDE DEF r
    <2> QED BY <2>1, <2>2 DEF Arrived
<1>3. ASSUME NEW s \in Slugs,
             Begin(p, Request("Delete", "authorized", NULL, NULL, s, 0))
      PROVE  \E r : Arrived(p, r)
    <2> DEFINE r == Request("Delete", "authorized", NULL, NULL, s, 0)
    <2>1. r \in RequestType /\ r.stamp = 0 /\ r.pc \notin {"anchored", "inserting"}
          /\ (r.op = "Post" => r.body \in Bodies /\ r.title \in Bodies /\ r.prev \in Hash)
        BY <1>t, ChainAssumption DEF ChainAssumption, Request, RequestType, Ops
    <2>2. Becomes(p, r)
        BY <1>3 DEF Begin, Becomes
    <2> HIDE DEF r
    <2> QED BY <2>1, <2>2 DEF Arrived
<1>4. ASSUME NEW op \in {"Restore", "Purge"}, NEW i \in DOMAIN rows,
             Begin(p, Request(op, "authed", NULL, NULL, NULL, i))
      PROVE  \E r : Arrived(p, r)
    <2> DEFINE r == Request(op, "authed", NULL, NULL, NULL, i)
    <2>1. r \in RequestType /\ r.stamp = 0 /\ r.pc \notin {"anchored", "inserting"}
          /\ (r.op = "Post" => r.body \in Bodies /\ r.title \in Bodies /\ r.prev \in Hash)
        BY <1>t, ChainAssumption DEF ChainAssumption, Request, RequestType, Ops
    <2>2. Becomes(p, r)
        BY <1>4 DEF Begin, Becomes
    <2> HIDE DEF r
    <2> QED BY <2>1, <2>2 DEF Arrived
<1> QED BY <1>1, <1>2, <1>3, <1>4 DEF Arrive

\* Every step keeps the inductive invariant.
LEMMA NextIInv == IInv /\ [Next]_vars => IInv'
<1> SUFFICES ASSUME IInv, [Next]_vars PROVE IInv'
    OBVIOUS
<1>t. /\ req \in [Procs -> RequestType] /\ clock \in Nat /\ rows \in Seq(Row)
      /\ DOMAIN rows \subseteq Nat
      /\ \A p \in Procs : req[p].stamp <= clock
    BY DEF IInv, TypeOK, RequestType, StampsOK
<1>1. CASE UNCHANGED vars
    BY <1>1 DEF vars, IInv, TypeOK, PostsOK, StampsOK, ChainGrounded
<1>2. ASSUME NEW p \in Procs, Arrive(p)
      PROVE  IInv'
    <2>1. PICK r : Arrived(p, r)
        BY <1>2, ArrivedRequest
    <2> QED BY <1>2, <1>t, <2>1, RequestStep DEF Arrive, Arrived
<1>3. ASSUME NEW p \in Procs, Return(p)
      PROVE  IInv'
    <2>1. Becomes(p, Idle)
        BY <1>3 DEF Return, Done, Becomes
    <2> QED BY <1>3, <1>t, <2>1, IdleType, RequestStep DEF Return
<1>4. ASSUME NEW p \in Procs, CheckAnchorForPost(p)
      PROVE  IInv'
    <2>0. PICK t \in Bodies : req' = [req EXCEPT ![p].pc = "anchored", ![p].title = t]
        BY <1>4 DEF CheckAnchorForPost, Slugify
    <2> DEFINE r == [req[p] EXCEPT !.pc = "anchored", !.title = t]
    <2>1. r \in RequestType /\ r.stamp = req[p].stamp /\ r.body = req[p].body
          /\ r.title = t /\ r.prev = req[p].prev /\ r.pc = "anchored" /\ req[p].op = "Post"
        BY <1>4, <1>t DEF RequestType, CheckAnchorForPost, At
    <2>2. Justified(r)
        BY <1>4, <2>1 DEF Justified, CheckAnchorForPost, Anchor, LiveRows
    <2>3. Becomes(p, r)
        BY <1>t, <2>0 DEF RequestType, Becomes
    <2>4. r.body \in Bodies /\ r.title \in Bodies /\ r.prev \in Hash
        BY <2>1 DEF IInv, PostsOK
    <2> HIDE DEF r
    <2> QED BY <1>4, <1>t, <2>1, <2>2, <2>3, <2>4, RequestStep DEF CheckAnchorForPost
<1>5. ASSUME NEW p \in Procs, BeginInsert(p)
      PROVE  IInv'
    <2> DEFINE q == [req[p] EXCEPT !.pc = "inserting"]
               r == [q EXCEPT !.stamp = clock + 1]
    <2>1. r \in RequestType /\ r.stamp = clock + 1 /\ r.body = req[p].body /\ r.title = req[p].title
          /\ r.prev = req[p].prev /\ r.pc = "inserting" /\ req[p].op = "Post"
        <3>1. req[p] \in RequestType /\ clock + 1 \in Nat
            BY <1>t
        <3>2. q \in RequestType /\ q.pc = "inserting" /\ SameButPc(req[p], q)
            BY <3>1, PcUpdate
        <3> HIDE DEF q
        <3>3. r \in RequestType /\ r.stamp = clock + 1 /\ r.pc = q.pc /\ SameButPc(q, r)
            BY <3>1, <3>2, StampUpdate
        <3> QED BY <1>5, <3>2, <3>3 DEF SameButPc, BeginInsert, At
    <2>2. Becomes(p, r)
        BY <1>5, <1>t DEF BeginInsert, RequestType, Becomes
    <2>3. \A j \in DOMAIN rows : rows[j].published_at < clock + 1
        <3>1. \A j \in DOMAIN rows : rows[j] \in Row
            BY <1>t
        <3> QED BY <1>t, <3>1 DEF IInv, StampsOK, Row
    <2>4. Justified(r)
        BY <1>5, <2>1, <2>3 DEF Justified, BeginInsert, At, IInv, StampsOK
    <2>5. r.body \in Bodies /\ r.title \in Bodies /\ r.prev \in Hash
        BY <2>1 DEF IInv, PostsOK
    <2> HIDE DEF r
    <2> QED BY <1>5, <1>t, <2>1, <2>2, <2>4, <2>5, RequestStep DEF BeginInsert
<1>6. ASSUME NEW p \in Procs, RetrySlug(p)
      PROVE  IInv'
    <2> DEFINE q == [req[p] EXCEPT !.pc = "anchored"]
               r == [q EXCEPT !.n = req[p].n + 1]
    <2>1. r \in RequestType /\ r.stamp = req[p].stamp /\ r.body = req[p].body
          /\ r.title = req[p].title /\ r.prev = req[p].prev /\ r.pc = "anchored"
          /\ req[p].op = "Post"
        <3>1. req[p] \in RequestType
            BY <1>t
        <3>2. req[p].n + 1 \in 1..SlugRetryLimit
            BY <1>6, <3>1, ChainAssumption DEF ChainAssumption, RequestType, RetrySlug
        <3>3. q \in RequestType /\ q.pc = "anchored" /\ q.stamp = req[p].stamp
              /\ SameButPc(req[p], q)
            BY <3>1, PcUpdate
        <3> HIDE DEF q
        <3>4. r \in RequestType /\ r.stamp = q.stamp /\ r.pc = q.pc /\ SameButPc(q, r)
            BY <3>2, <3>3, AttemptUpdate
        <3> QED BY <1>6, <3>3, <3>4 DEF SameButPc, RetrySlug, At
    <2>2. Becomes(p, r)
        BY <1>6, <1>t DEF RetrySlug, RequestType, Becomes
    <2>3. Justified(r)
        BY <1>6, <2>1 DEF Justified, RetrySlug, At, IInv, StampsOK
    <2>4. r.body \in Bodies /\ r.title \in Bodies /\ r.prev \in Hash
        BY <2>1 DEF IInv, PostsOK
    <2> HIDE DEF r
    <2> QED BY <1>6, <1>t, <2>1, <2>2, <2>3, <2>4, RequestStep DEF RetrySlug
<1>7. ASSUME NEW p \in Procs,
             CheckAnchorForDelete(p) \/ GetEntryByAgentAndSlug(p) \/ GetEntryByIDForOwner(p)
      PROVE  IInv'
    <2> DEFINE Advanced(r) == /\ Becomes(p, r) /\ r \in RequestType
                              /\ r.stamp <= clock /\ r.op # "Post"
    <2>1. ASSUME GetEntryByIDForOwner(p)
          PROVE  \E r : Advanced(r)
        <3> DEFINE r == [req[p] EXCEPT !.pc = "checked"]
        <3>1. Becomes(p, r) /\ req[p].op # "Post"
            BY <2>1 DEF GetEntryByIDForOwner, Goto, Becomes
        <3>2. r \in RequestType /\ r.stamp = req[p].stamp /\ r.op = req[p].op
            BY <1>t DEF RequestType
        <3> HIDE DEF r
        <3> QED BY <1>t, <3>1, <3>2
    <2>2. ASSUME NEW pc \in {"authorized", "checked"}, NEW s \in Slugs \cup {NULL}, NEW i \in Nat,
                 req' = [req EXCEPT ![p] = Request("Delete", pc, NULL, NULL, s, i)]
          PROVE  \E r : Advanced(r)
        <3> DEFINE r == Request("Delete", pc, NULL, NULL, s, i)
        <3>1. Becomes(p, r)
            BY <2>2 DEF Becomes
        <3>2. r \in RequestType /\ r.stamp <= clock /\ r.op # "Post"
            BY <1>t, ChainAssumption DEF ChainAssumption, Request, RequestType, Ops
        <3> HIDE DEF r
        <3> QED BY <3>1, <3>2
    <2>4. ASSUME CheckAnchorForDelete(p)
          PROVE  \E r : Advanced(r)
        <3>1. req[p].slug \in Slugs \cup {NULL}
            BY <1>t DEF RequestType
        <3> QED BY <2>2, <2>4, <3>1 DEF CheckAnchorForDelete
    <2>5. ASSUME GetEntryByAgentAndSlug(p)
          PROVE  \E r : Advanced(r)
        <3>1. PICK i \in LiveRows :
                 req' = [req EXCEPT ![p] = Request("Delete", "checked", NULL, NULL, NULL, i)]
            BY <2>5 DEF GetEntryByAgentAndSlug
        <3>2. i \in Nat
            BY <1>t DEF LiveRows
        <3> QED BY <2>2, <3>1, <3>2
    <2>3. PICK r : Advanced(r)
        BY <1>7, <2>1, <2>4, <2>5
    <2> QED BY <1>7, <1>t, <2>3, RequestStep
            DEF CheckAnchorForDelete, GetEntryByAgentAndSlug, GetEntryByIDForOwner
<1>8. ASSUME NEW p \in Procs, SoftDeleteEntry(p) \/ RestoreEntry(p) \/ HardDeleteEntry(p)
      PROVE  IInv'
    <2>1. req[p].row \in Nat
        BY <1>t DEF RequestType
    <2>2. \E s \in Later : Move(req[p].row, s)
        BY <1>8 DEF SoftDeleteEntry, RestoreEntry, HardDeleteEntry, Later, RowState
    <2> QED BY <1>8, <1>t, <2>1, <2>2, MoveMoves, MovedStep
            DEF SoftDeleteEntry, RestoreEntry, HardDeleteEntry
<1>9. CASE PurgeExpiredEntries
    BY <1>9, <1>t, PurgeMoves, MovedStep DEF PurgeExpiredEntries
<1> QED BY <1>1, <1>2, <1>3, <1>4, <1>5, <1>6, <1>7, <1>8, <1>9, CommitStep
        DEF Next, Handle

\* Type correctness, and with it the whole inductive invariant.
THEOREM ChainInvariant == Spec => []IInv
<1>1. Init => IInv
    <2> SUFFICES ASSUME Init PROVE IInv
        OBVIOUS
    <2>1. TypeOK
        BY IdleType DEF Init, TypeOK, RequestType
    <2> QED BY <2>1, IdleType DEF Init, IInv, PostsOK, StampsOK, ChainGrounded
<1> QED BY <1>1, NextIInv, PTL DEF Spec

\* Type correctness of Chain, for any bodies, slugs and number of requests.
THEOREM ChainTypeCorrect == Spec => []TypeOK
BY ChainInvariant, PTL DEF IInv

\* No entry ever names one that was published after it or that the agent never
\* had, for any number of concurrent posts, deletes, restores and purges.
THEOREM Grounded == Spec => []ChainGrounded
BY ChainInvariant, PTL DEF IInv

-----------------------------------------------------------------------------
(* Chain: how wide it forks *)

\* The posts whose prev was the head when they compared it, and which will name h
Pending(h) == {p \in Procs : /\ req[p].op = "Post" /\ req[p].pc \in {"anchored", "inserting"}
                             /\ PrevForDB(req[p].prev) = h}

\* The agent has published this content once, or not yet.
AtMostOnce(h) ==
    \A i, j \in DOMAIN rows : rows[i].hash = h /\ rows[j].hash = h => i = j

\* Every successor is paid for by a request that is not about to add another: those
\* that compared their prev with the head did so before the first of them committed.
ForkOK(h) ==
    AtMostOnce(h) =>
        Cardinality(Children(h)) + Cardinality(Pending(h)) <= Cardinality(Procs)

ForksOK == \A h \in Bodies \cup {NULL} : ForkOK(h)

\* The sets that the counting is about are finite.
LEMMA ForkSets ==
    ASSUME TypeOK, NEW h
    PROVE  /\ IsFiniteSet(Children(h)) /\ Cardinality(Children(h)) \in Nat
           /\ IsFiniteSet(Pending(h)) /\ Cardinality(Pending(h)) \in Nat
           /\ Cardinality(Procs) \in Nat
<1>1. Len(rows) \in Nat /\ Children(h) \in SUBSET (1..Len(rows))
    BY DEF TypeOK, Children
<1>2. IsFiniteSet(Children(h))
    <2>1. IsFiniteSet(1..Len(rows))
        BY <1>1, FS_Interval
    <2> QED BY <1>1, <2>1, FS_Subset
<1>3. Pending(h) \in SUBSET Procs
    BY DEF Pending
<1>4. IsFiniteSet(Procs)
    BY ChainAssumption DEF ChainAssumption
<1> QED BY <1>2, <1>3, <1>4, FS_Subset, FS_CardinalityType

\* When neither set grows, the bound on their sum is kept.
LEMMA FewerForks ==
    ASSUME TypeOK, NEW h, ForkOK(h), AtMostOnce(h)' => AtMostOnce(h),
           Children(h)' \subseteq Children(h), Pending(h)' \subseteq Pending(h)
    PROVE  ForkOK(h)'
<1> DEFINE C == Children(h)
           D == Children(h)'
           P == Pending(h)
           Q == Pending(h)'
<1>1. IsFiniteSet(C) /\ IsFiniteSet(P) /\ D \in SUBSET C /\ Q \in SUBSET P
    BY ForkSets
<1>2. /\ Cardinality(C) \in Nat /\ Cardinality(P) \in Nat /\ Cardinality(Procs) \in Nat
      /\ AtMostOnce(h) => Cardinality(C) + Cardinality(P) <= Cardinality(Procs)
    BY ForkSets DEF ForkOK
<1> HIDE DEF C, D, P, Q
<1>3. /\ Cardinality(D) <= Cardinality(C) /\ Cardinality(Q) <= Cardinality(P)
      /\ Cardinality(D) \in Nat /\ Cardinality(Q) \in Nat
    BY <1>1, FS_Subset, FS_CardinalityType
<1>4. AtMostOnce(h)' => Cardinality(D) + Cardinality(Q) <= Cardinality(Procs)
    BY <1>2, <1>3
<1> QED BY <1>4 DEF ForkOK, D, Q

\* The head has no successor that was never deleted: its successor is published after
\* it, so that the head is another one.
LEMMA HeadHasNoChild ==
    ASSUME TypeOK, ChainGrounded, NEW h \in Hash, Anchor(h), AtMostOnce(PrevForDB(h))
    PROVE  Children(PrevForDB(h)) = {}
<1>1. \A i \in DOMAIN rows : rows[i] \in Row
    BY DEF TypeOK
<1>2. \A i \in Children(PrevForDB(h)) : i \in LiveRows
    BY DEF Children, LiveRows
<1>3. CASE h = Zeros
    <2>1. \A i \in LiveRows : rows[i].hash \in Bodies
        BY <1>1 DEF LiveRows, Row
    <2>2. LiveRows = {}
        BY <1>3, <2>1, ChainAssumption DEF Anchor, ChainAssumption
    <2> QED BY <1>2, <2>2
<1>4. CASE h # Zeros
    <2>1. h \in Bodies /\ PrevForDB(h) = h /\ h # NULL
        BY <1>4, ChainAssumption DEF Hash, PrevForDB, ChainAssumption
    <2> SUFFICES ASSUME NEW c \in Children(h) PROVE FALSE
        BY <2>1
    <2>2. c \in LiveRows /\ c \in DOMAIN rows /\ rows[c].prev = h
        BY <1>2, <2>1 DEF Children
    <2>3. PICK i \in LiveRows : Latest(i) /\ h = rows[i].hash
        BY <2>2 DEF Anchor
    <2>4. PICK j \in 1..(c - 1) : /\ rows[j].hash = h
                                  /\ rows[j].published_at < rows[c].published_at
        BY <2>1, <2>2 DEF ChainGrounded
    <2>5. j \in DOMAIN rows /\ i \in DOMAIN rows
        BY <2>2, <2>3, <2>4 DEF TypeOK, LiveRows
    <2>6. i = j
        BY <2>1, <2>3, <2>4, <2>5 DEF AtMostOnce
    <2>7. rows[c].published_at <= rows[i].published_at
        BY <2>2, <2>3 DEF Latest
    <2>8. rows[c].published_at \in Nat /\ rows[i].published_at \in Nat
        BY <1>1, <2>2, <2>5 DEF Row
    <2> QED BY <2>4, <2>6, <2>7, <2>8
<1> QED BY <1>3, <1>4

\* A post whose prev is the head is the first to name it, apart from those in flight.
LEMMA AnchorForks ==
    ASSUME TypeOK, ChainGrounded, PostsOK, NEW p \in Procs, CheckAnchorForPost(p),
           NEW h, ForkOK(h)
    PROVE  ForkOK(h)'
<1>1. req \in [Procs -> RequestType] /\ rows' = rows
    BY DEF TypeOK, RequestType, CheckAnchorForPost
<1>2. PICK t : req' = [req EXCEPT ![p].pc = "anchored", ![p].title = t]
    BY DEF CheckAnchorForPost, Slugify
<1>3. /\ req[p].op = "Post" /\ req[p].prev \in Hash /\ Anchor(req[p].prev)
      /\ \A q \in Procs \ {p} : req'[q] = req[q]
      /\ req'[p].prev = req[p].prev
    BY <1>1, <1>2 DEF CheckAnchorForPost, At, PostsOK, RequestType
<1>4. CASE PrevForDB(req[p].prev) = h
    <2> SUFFICES ASSUME AtMostOnce(h)'
                 PROVE  Cardinality(Children(h)') + Cardinality(Pending(h)') <= Cardinality(Procs)
        BY DEF ForkOK
    <2>1. AtMostOnce(h)
        BY <1>1 DEF AtMostOnce
    <2>2. Children(h) = {}
        BY <1>3, <1>4, <2>1, HeadHasNoChild
    <2>3. Cardinality(Children(h)') = 0
        BY <1>1, <2>2, FS_EmptySet DEF Children
    <2>4. Pending(h)' \in SUBSET Procs /\ IsFiniteSet(Procs)
        BY ChainAssumption DEF Pending, ChainAssumption
    <2>5. Cardinality(Pending(h)') <= Cardinality(Procs) /\ Cardinality(Pending(h)') \in Nat
        BY <2>4, FS_Subset, FS_CardinalityType
    <2> QED BY <2>3, <2>5, ForkSets
<1>5. CASE PrevForDB(req[p].prev) # h
    <2>1. Pending(h)' \subseteq Pending(h)
        BY <1>3, <1>5 DEF Pending, PrevForDB
    <2>2. Children(h)' = Children(h) /\ (AtMostOnce(h)' => AtMostOnce(h))
        BY <1>1 DEF Children, AtMostOnce
    <2> QED BY <2>1, <2>2, FewerForks
<1> QED BY <1>4, <1>5

\* An insert turns a pending post into a successor.
LEMMA CommitForks ==
    ASSUME TypeOK, NEW p \in Procs, CommitInsert(p), NEW h, ForkOK(h)
    PROVE  ForkOK(h)'
<1> DEFINE m == Len(rows) + 1
<1>1. PICK new : /\ rows' = Append(rows, new)
                 /\ new.prev = PrevForDB(req[p].prev) /\ new.st = "live"
    BY DEF CommitInsert
<1>2. /\ Len(rows) \in Nat /\ DOMAIN rows = 1..Len(rows) /\ DOMAIN rows' = 1..m
      /\ rows'[m] = new /\ \A i \in DOMAIN rows : rows'[i] = rows[i]
    BY <1>1 DEF TypeOK
<1>3. req \in [Procs -> RequestType] /\ req' = [req EXCEPT ![p] = Idle] /\ Idle.op # "Post"
    BY IdleType DEF TypeOK, RequestType, CommitInsert, Done
<1>4. AtMostOnce(h)' => AtMostOnce(h)
    BY <1>2 DEF AtMostOnce
<1>5. Pending(h)' \subseteq Pending(h) \ {p}
    BY <1>3 DEF Pending
<1>6. CASE PrevForDB(req[p].prev) # h
    <2>1. Children(h)' \subseteq Children(h)
        BY <1>1, <1>2, <1>6 DEF Children
    <2> QED BY <1>4, <1>5, <2>1, FewerForks
<1>7. CASE PrevForDB(req[p].prev) = h
    <2> DEFINE C == Children(h)
               D == Children(h)'
               P == Pending(h)
               Q == Pending(h)'
    <2>1. p \in P
        BY <1>7 DEF CommitInsert, At, Pending
    <2>2. D = C \cup {m} /\ m \notin C
        BY <1>1, <1>2, <1>7 DEF Children
    <2>3. /\ IsFiniteSet(C) /\ IsFiniteSet(P) /\ Q \in SUBSET (P \ {p})
          /\ Cardinality(C) \in Nat /\ Cardinality(P) \in Nat /\ Cardinality(Procs) \in Nat
          /\ AtMostOnce(h) => Cardinality(C) + Cardinality(P) <= Cardinality(Procs)
        BY <1>5, ForkSets DEF ForkOK
    <2> HIDE DEF C, D, P, Q
    <2>4. Cardinality(D) = Cardinality(C) + 1
        BY <2>2, <2>3, FS_AddElement
    <2>5. IsFiniteSet(P \ {p}) /\ Cardinality(P \ {p}) = Cardinality(P) - 1
        BY <2>1, <2>3, FS_RemoveElement
    <2>6. Cardinality(Q) <= Cardinality(P) - 1 /\ Cardinality(Q) \in Nat
        BY <2>3, <2>5, FS_Subset, FS_CardinalityType
    <2>7. AtMostOnce(h)' => Cardinality(D) + Cardinality(Q) <= Cardinality(Procs)
        BY <1>4, <2>3, <2>4, <2>6
    <2> QED BY <2>7 DEF ForkOK, D, Q
<1> QED BY <1>6, <1>7

\* A deletion, a restore or a purge adds no successor, and no pending post.
LEMMA MovedForks ==
    ASSUME TypeOK, Moved, req' = req \/ \E p \in Procs : Done(p), NEW h, ForkOK(h)
    PROVE  ForkOK(h)'
<1>1. DOMAIN rows' = DOMAIN rows
    BY DEF TypeOK, Moved
<1>2. Children(h)' \subseteq Children(h) /\ (AtMostOnce(h)' => AtMostOnce(h))
    BY <1>1 DEF Children, AtMostOnce, Moved
<1>3. Pending(h)' \subseteq Pending(h)
    BY IdleType DEF Pending, Done, TypeOK
<1> QED BY <1>2, <1>3, FewerForks

\* Every step keeps the bound on the width of the forks.
LEMMA NextForksOK == IInv /\ ForksOK /\ [Next]_vars => ForksOK'
<1> SUFFICES ASSUME IInv, [Next]_vars, NEW h \in Bodies \cup {NULL}, ForkOK(h)
             PROVE  ForkOK(h)'
    BY DEF ForksOK
<1>t. TypeOK /\ PostsOK /\ ChainGrounded /\ req \in [Procs -> RequestType] /\ rows \in Seq(Row)
    BY DEF IInv, TypeOK, RequestType
<1>1. ASSUME rows' = rows, Pending(h)' \subseteq Pending(h)
      PROVE  ForkOK(h)'
    BY <1>t, <1>1, FewerForks DEF Children, AtMostOnce
<1>2. CASE UNCHANGED vars
    BY <1>1, <1>2 DEF vars, Pending
<1>3. ASSUME NEW p \in Procs, NEW r, req' = [req EXCEPT ![p] = r], rows' = rows,
             r.op # "Post" \/ r.pc \notin {"anchored", "inserting"}
      PROVE  ForkOK(h)'
    BY <1>t, <1>1, <1>3 DEF Pending
<1>4. ASSUME NEW p \in Procs, Arrive(p)
      PROVE  ForkOK(h)'
    <2>1. PICK r : Arrived(p, r)
        BY <1>4, ArrivedRequest
    <2> QED BY <1>3, <1>4, <2>1 DEF Arrived, Becomes, Arrive
<1>5. ASSUME NEW p \in Procs, Return(p)
      PROVE  ForkOK(h)'
    BY <1>3, <1>5, IdleType DEF Return, Done
<1>6. ASSUME NEW p \in Procs, BeginInsert(p) \/ RetrySlug(p)
      PROVE  ForkOK(h)'
    <2>1. /\ rows' = rows /\ req[p].op = "Post" /\ req[p].pc \in {"anchored", "inserting"}
          /\ req'[p].prev = req[p].prev /\ \A q \in Procs \ {p} : req'[q] = req[q]
        BY <1>t, <1>6 DEF BeginInsert, RetrySlug, At, RequestType
    <2> QED BY <1>1, <2>1 DEF Pending
<1>7. ASSUME NEW p \in Procs, CheckAnchorForDelete(p) \/ GetEntryByAgentAndSlug(p)
      PROVE  ForkOK(h)'
    <2>1. PICK pc, s, i : req' = [req EXCEPT ![p] = Request("Delete", pc, NULL, NULL, s, i)]
        BY <1>7 DEF CheckAnchorForDelete, GetEntryByAgentAndSlug
    <2>2. rows' = rows
        BY <1>7 DEF CheckAnchorForDelete, GetEntryByAgentAndSlug
    <2> QED BY <1>3, <2>1, <2>2, RequestFields
<1>8. ASSUME NEW p \in Procs, GetEntryByIDForOwner(p)
      PROVE  ForkOK(h)'
    <2>1. /\ rows' = rows /\ req'[p].op # "Post" /\ \A q \in Procs \ {p} : req'[q] = req[q]
        BY <1>t, <1>8 DEF GetEntryByIDForOwner, Goto, RequestType
    <2> QED BY <1>1, <2>1 DEF Pending
<1>9. ASSUME NEW p \in Procs, SoftDeleteEntry(p) \/ RestoreEntry(p) \/ HardDeleteEntry(p)
      PROVE  ForkOK(h)'
    <2>1. req[p].row \in Nat
        BY <1>t DEF RequestType
    <2>2. (\E s \in Later : Move(req[p].row, s)) /\ Done(p)
        BY <1>9 DEF SoftDeleteEntry, RestoreEntry, HardDeleteEntry, Later, RowState
    <2> QED BY <1>t, <2>1, <2>2, MoveMoves, MovedForks
<1>10. CASE PurgeExpiredEntries
    <2>1. req' = req
        BY <1>10 DEF PurgeExpiredEntries
    <2> QED BY <1>t, <1>10, <2>1, PurgeMoves, MovedForks
<1>11. ASSUME NEW p \in Procs, CheckAnchorForPost(p) \/ CommitInsert(p)
       PROVE  ForkOK(h)'
    BY <1>t, <1>11, AnchorForks, CommitForks
<1> QED BY <1>2, <1>4, <1>5, <1>6, <1>7, <1>8, <1>9, <1>10, <1>11 DEF Next, Handle

\* The successors of an entry whose content was posted once, and the first entries, are
\* at most as many as there are requests in flight.
THEOREM ForksAreBounded == Spec => []ForkBounded
<1>1. Init => ForksOK
    <2> SUFFICES ASSUME Init, NEW h PROVE ForkOK(h)
        BY DEF ForksOK
    <2>1. Children(h) = {} /\ Pending(h) = {}
        BY IdleType DEF Init, Children, Pending
    <2>2. IsFiniteSet(Procs) /\ Cardinality(Procs) \in Nat
        BY ChainAssumption, FS_CardinalityType DEF ChainAssumption
    <2> QED BY <2>1, <2>2, FS_EmptySet DEF ForkOK
<1>2. IInv /\ ForksOK => ForkBounded
    <2> SUFFICES ASSUME IInv, ForksOK PROVE ForkBounded
        OBVIOUS
    <2>1. \A i \in DOMAIN rows : rows[i] \in Row
        BY DEF IInv, TypeOK
    <2>2. \A i \in DOMAIN rows : rows[i].hash \in Bodies /\ rows[i].hash # NULL
        BY <2>1, ChainAssumption DEF Row, ChainAssumption
    <2>3. ASSUME NEW h \in Bodies \cup {NULL}, AtMostOnce(h)
          PROVE  Cardinality(Children(h)) <= Cardinality(Procs)
        <3>1. Cardinality(Children(h)) + Cardinality(Pending(h)) <= Cardinality(Procs)
            BY <2>3 DEF ForksOK, ForkOK
        <3> QED BY <3>1, ForkSets DEF IInv
    <2>4. AtMostOnce(NULL)
        BY <2>2 DEF AtMostOnce
    <2> QED BY <2>2, <2>3, <2>4 DEF ForkBounded, AtMostOnce
<1> QED BY <1>1, <1>2, NextForksOK, ChainInvariant, PTL DEF Spec

-----------------------------------------------------------------------------
(* Chain: refinement *)

\* A function on 1..n is a sequence of length n.
LEMMA FunctionIsSeq ==
    ASSUME NEW n \in Nat, NEW S, NEW f \in [1..n -> S]
    PROVE  f \in Seq(S) /\ Len(f) = n
OBVIOUS

\* A change of row states leaves the links as they are.
LEMMA MovedLinks ==
    ASSUME rows \in Seq(Row), rows' \in Seq(Row), Moved
    PROVE  Links' = Links
BY DEF Moved, Links

\* An insert adds the link from its body to the entry that its prev names.
LEMMA CommitLink ==
    ASSUME IInv, NEW p \in Procs, CommitInsert(p)
    PROVE  /\ Links' = Append(Links, [hash |-> req[p].body, prev |-> PrevForDB(req[p].prev)])
           /\ Links' # Links /\ Len(Links) = Len(rows)
<1> DEFINE r == req[p]
           new == [hash |-> r.body, prev |-> PrevForDB(r.prev),
                   slug |-> Candidate[r.title][r.n], published_at |-> r.stamp, st |-> "live"]
           link == [hash |-> new.hash, prev |-> new.prev]
           m == Len(rows) + 1
<1>1. rows' = Append(rows, new)
    BY DEF CommitInsert
<1>2. link = [hash |-> req[p].body, prev |-> PrevForDB(req[p].prev)]
    OBVIOUS
<1> HIDE DEF new
<1>3. /\ Len(rows) \in Nat /\ DOMAIN rows = 1..Len(rows) /\ DOMAIN rows' = 1..m
      /\ \A i \in DOMAIN rows : rows'[i] = rows[i]
      /\ rows'[m] = new
    BY <1>1 DEF IInv, TypeOK
<1>4. Links \in Seq([hash : Bodies, prev : Bodies \cup {NULL}]) /\ Len(Links) = Len(rows)
    <2>1. \A i \in DOMAIN rows : rows[i] \in Row
        BY DEF IInv, TypeOK
    <2>2. Links \in [1..Len(rows) -> [hash : Bodies, prev : Bodies \cup {NULL}]]
        BY <1>3, <2>1 DEF Links, Row
    <2> QED BY <1>3, <2>2, FunctionIsSeq
<1>5. Links' = Append(Links, link)
    <2>1. DOMAIN Links' = 1..m /\ DOMAIN Append(Links, link) = 1..m
        BY <1>3, <1>4 DEF Links
    <2>2. ASSUME NEW i \in 1..m
          PROVE  Links'[i] = Append(Links, link)[i]
        BY <1>3, <1>4 DEF Links
    <2>3. Links' = [i \in 1..m |-> Links'[i]]
        BY <1>3 DEF Links
    <2>4. Append(Links, link) = [i \in 1..m |-> Append(Links, link)[i]]
        BY <1>3, <1>4
    <2> QED BY <2>2, <2>3, <2>4
<1>6. Links' # Links
    <2>1. Len(Append(Links, link)) = Len(Links) + 1 /\ Len(Links) \in Nat
        BY <1>4
    <2> QED BY <1>5, <2>1
<1> QED BY <1>2, <1>4, <1>5, <1>6

\* An insert extends the tree at an entry that is in it.
LEMMA CommitLinks ==
    ASSUME IInv, NEW p \in Procs, CommitInsert(p)
    PROVE  Tree!Next
<1> DEFINE r == req[p]
           prev == PrevForDB(r.prev)
<1>1. r.body \in Bodies /\ r.prev \in Hash /\ r.op = "Post" /\ r.pc = "inserting"
    BY DEF IInv, PostsOK, CommitInsert, At
<1>2. prev \in Bodies \cup {NULL}
    BY <1>1 DEF PrevForDB, Hash
<1>3. prev # NULL => \E j \in DOMAIN rows : rows[j].hash = prev
    BY <1>1 DEF IInv, StampsOK, PrevForDB
<1>4. prev \in Tree!Known
    BY <1>2, <1>3 DEF Tree!Known, Links
<1>5. Links' = Append(Links, [hash |-> r.body, prev |-> prev]) /\ Links' # Links
    BY CommitLink
<1> HIDE DEF prev
<1> QED BY <1>1, <1>4, <1>5 DEF Tree!Next, Tree!Extend

\* Only an insert changes the links.
LEMMA OnlyInserts ==
    ASSUME IInv, [Next]_vars
    PROVE  Links' = Links \/ \E p \in Procs : CommitInsert(p)
<1>t. rows \in Seq(Row) /\ req \in [Procs -> RequestType]
    BY DEF IInv, TypeOK, RequestType
<1>1. CASE UNCHANGED rows
    BY <1>1 DEF Links
<1>2. ASSUME NEW p \in Procs, SoftDeleteEntry(p) \/ RestoreEntry(p) \/ HardDeleteEntry(p)
      PROVE  Links' = Links
    <2>1. req[p].row \in Nat /\ \E s \in Later : Move(req[p].row, s)
        BY <1>t, <1>2 DEF RequestType, SoftDeleteEntry, RestoreEntry, HardDeleteEntry, Later, RowState
    <2> QED BY <1>t, <2>1, MoveMoves, MovedLinks
<1>3. CASE PurgeExpiredEntries
    BY <1>t, <1>3, PurgeMoves, MovedLinks
<1> QED BY <1>1, <1>2, <1>3 DEF Next, Handle, vars, Arrive, Return,
        CheckAnchorForPost, BeginInsert, RetrySlug, CheckAnchorForDelete,
        GetEntryByAgentAndSlug, GetEntryByIDForOwner

\* The entries of an agent implement a tree that only grows, link by link, for any
\* number of concurrent requests: no post can graft onto an entry that is not there,
\* and no delete, restore or purge rewrites a link.
THEOREM TreeRefined == Spec => ImplementsHashTree
<1>1. Init => Tree!Init
    BY DEF Init, Tree!Init, Links
<1>2. IInv /\ [Next]_vars => [Tree!Next]_Links
    BY OnlyInserts, CommitLinks
<1> QED BY <1>1, <1>2, ChainInvariant, PTL DEF Spec, ImplementsHashTree, Tree!Spec

-----------------------------------------------------------------------------
(* Chain: one request at a time, and no deletes *)

\* The entry that was committed last
LastHash == IF rows = <<>> THEN NULL ELSE rows[Len(rows)].hash

\* The entries are all live, and were stamped in the order they were committed.
RowsInLine ==
    /\ \A i \in DOMAIN rows : rows[i].st = "live"
    /\ \A i, j \in DOMAIN rows : i < j => rows[i].published_at < rows[j].published_at

\* The request deletes nothing and finds nothing to restore or purge; a post that
\* compared its prev with the head names the last entry, and is stamped after it.
RequestInLine(r) ==
    /\ r.op \in {"idle", "Post"} \/ (r.op \in {"Restore", "Purge"} /\ r.pc = "authed")
    /\ r.op = "Post" /\ r.pc \in {"anchored", "inserting"} => PrevForDB(r.prev) = LastHash
    /\ r.op = "Post" /\ r.pc = "inserting" =>
          \A i \in DOMAIN rows : rows[i].published_at < r.stamp

InLine == RowsInLine /\ \A p \in Procs : RequestInLine(req[p])

\* When the entries are in line, the head that a post reads is the last of them.
LEMMA HeadIsLast ==
    ASSUME TypeOK, RowsInLine, NEW h \in Hash, Anchor(h)
    PROVE  PrevForDB(h) = LastHash
<1>1. /\ Len(rows) \in Nat /\ DOMAIN rows = 1..Len(rows) /\ LiveRows = DOMAIN rows
      /\ \A i \in DOMAIN rows : rows[i].published_at \in Nat /\ rows[i].hash \in Bodies
    <2>1. \A i \in DOMAIN rows : rows[i] \in Row
        BY DEF TypeOK
    <2>2. Len(rows) \in Nat /\ DOMAIN rows = 1..Len(rows)
        BY DEF TypeOK
    <2>3. LiveRows = DOMAIN rows
        BY DEF RowsInLine, LiveRows
    <2> QED BY <2>1, <2>2, <2>3 DEF Row
<1>2. CASE rows = <<>>
    <2>1. h = Zeros
        BY <1>1, <1>2 DEF Anchor
    <2> QED BY <1>2, <2>1 DEF PrevForDB, LastHash
<1>3. CASE rows # <<>>
    <2>1. Len(rows) \in DOMAIN rows
        BY <1>1, <1>3 DEF TypeOK
    <2>2. PICK i \in DOMAIN rows : Latest(i) /\ h = rows[i].hash
        BY <1>1, <2>1 DEF Anchor
    <2>3. rows[Len(rows)].published_at <= rows[i].published_at
        BY <1>1, <2>1, <2>2 DEF Latest
    <2>4. i = Len(rows)
        BY <1>1, <2>1, <2>2, <2>3 DEF RowsInLine
    <2>5. h # Zeros
        BY <1>1, <2>2, ChainAssumption DEF ChainAssumption
    <2> QED BY <1>3, <2>2, <2>4, <2>5 DEF PrevForDB, LastHash
<1> QED BY <1>2, <1>3

\* What arrives, unless it is a delete, has neither compared nor restored anything yet.
LEMMA ArrivedInLine ==
    ASSUME IInv, InLine, ClientOps \cap {"SignedDelete", "Delete"} = {},
           NEW p \in Procs, Arrive(p)
    PROVE  InLine'
<1>1. req \in [Procs -> RequestType]
    BY DEF IInv, TypeOK, RequestType
<1>2. PICK op, b, h, s, i :
         /\ req' = [req EXCEPT ![p] = Request(op, "authed", b, h, s, i)]
         /\ op \in {"Post", "Restore", "Purge"}
    <2> DEFINE Made(op, pc, b, h, s, i) ==
                 req' = [req EXCEPT ![p] = Request(op, pc, b, h, s, i)]
    <2>1. ASSUME NEW op, NEW pc, NEW b, NEW h, NEW s, NEW i, Made(op, pc, b, h, s, i)
          PROVE  op \notin {"SignedDelete", "Delete"}
        <3>1. req'[p].op = op
            BY <1>1, <2>1, RequestFields
        <3> QED BY <3>1 DEF Arrive
    <2>2. \/ \E b \in Bodies, h \in Hash : Made("Post", "authed", b, h, NULL, 0)
          \/ \E s \in Slugs, h \in Hash : Made("SignedDelete", "authed", NULL, h, s, 0)
          \/ \E s \in Slugs : Made("Delete", "authorized", NULL, NULL, s, 0)
          \/ \E op \in {"Restore", "Purge"}, i \in DOMAIN rows :
                Made(op, "authed", NULL, NULL, NULL, i)
        BY DEF Arrive, Begin
    <2> QED BY <2>1, <2>2
<1>3. req'[p].op = op /\ req'[p].pc = "authed"
    BY <1>1, <1>2, RequestFields
<1>4. \A q \in Procs \ {p} : req'[q] = req[q]
    BY <1>1, <1>2
<1> QED BY <1>2, <1>3, <1>4 DEF InLine, RowsInLine, RequestInLine, LastHash, Arrive

\* A post that is alone commits the next entry in line.
LEMMA CommitInLine ==
    ASSUME IInv, InLine, NEW p \in Procs, Procs = {p}, CommitInsert(p)
    PROVE  InLine'
<1> DEFINE r == req[p]
           new == [hash |-> r.body, prev |-> PrevForDB(r.prev),
                   slug |-> Candidate[r.title][r.n], published_at |-> r.stamp, st |-> "live"]
           m == Len(rows) + 1
<1>1. rows' = Append(rows, new) /\ new.st = "live" /\ new.published_at = r.stamp
    BY DEF CommitInsert
<1>2. RequestInLine(r) /\ r.op = "Post" /\ r.pc = "inserting"
    BY DEF InLine, CommitInsert, At
<1> HIDE DEF new
<1>3. /\ Len(rows) \in Nat /\ DOMAIN rows = 1..Len(rows) /\ DOMAIN rows' = 1..m
      /\ \A i \in DOMAIN rows : rows'[i] = rows[i]
      /\ rows'[m] = new
    BY <1>1 DEF IInv, TypeOK
<1>4. RowsInLine'
    <2>1. \A i \in DOMAIN rows' : rows'[i].st = "live"
        BY <1>1, <1>3 DEF InLine, RowsInLine
    <2>2. ASSUME NEW i \in DOMAIN rows', NEW j \in DOMAIN rows', i < j
          PROVE  rows'[i].published_at < rows'[j].published_at
        <3>1. i \in DOMAIN rows
            BY <1>3, <2>2
        <3>2. j \in DOMAIN rows \/ j = m
            BY <1>3
        <3> QED BY <1>1, <1>2, <1>3, <2>2, <3>1, <3>2 DEF InLine, RowsInLine, RequestInLine
    <2> QED BY <2>1, <2>2 DEF RowsInLine
<1>5. req'[p] = Idle
    BY DEF CommitInsert, Done, IInv, TypeOK
<1> QED BY <1>4, <1>5, IdleType DEF InLine, RequestInLine

\* With one request at a time and no deletes, the entries and the request stay in line.
LEMMA NextInLine ==
    ASSUME NEW q, Procs = {q}, ClientOps \cap {"SignedDelete", "Delete"} = {},
           IInv, InLine, [Next]_vars
    PROVE  InLine'
<1>t. /\ req \in [Procs -> RequestType] /\ TypeOK
      /\ \A i \in DOMAIN rows : rows[i] \in Row
      /\ \A i \in DOMAIN rows : rows[i].published_at <= clock
    BY DEF IInv, TypeOK, RequestType, StampsOK
<1>s. BinnedRows = {}
    BY DEF InLine, RowsInLine, BinnedRows
<1>1. CASE UNCHANGED vars
    BY <1>1 DEF vars, InLine, RowsInLine, RequestInLine, LastHash
<1>2. ASSUME NEW p \in Procs, Arrive(p)
      PROVE  InLine'
    BY <1>2, ArrivedInLine
<1>3. ASSUME NEW p \in Procs, Return(p)
      PROVE  InLine'
    <2>1. req'[p] = Idle
        BY <1>3, <1>t DEF Return, Done
    <2> QED BY <1>3, <2>1, IdleType DEF InLine, RowsInLine, RequestInLine, Return
<1>4. ASSUME NEW p \in Procs, CheckAnchorForPost(p)
      PROVE  InLine'
    <2>1. req'[p].op = "Post" /\ req'[p].pc = "anchored" /\ req'[p].prev = req[p].prev
        BY <1>4, <1>t DEF CheckAnchorForPost, Slugify, RequestType, At
    <2>2. PrevForDB(req[p].prev) = LastHash
        BY <1>4, <1>t, HeadIsLast DEF CheckAnchorForPost, At, IInv, PostsOK, InLine
    <2> QED BY <1>4, <2>1, <2>2
            DEF InLine, RowsInLine, RequestInLine, LastHash, CheckAnchorForPost
<1>5. ASSUME NEW p \in Procs, BeginInsert(p)
      PROVE  InLine'
    <2>1. /\ req'[p].op = "Post" /\ req'[p].pc = "inserting" /\ req'[p].prev = req[p].prev
          /\ req'[p].stamp = clock + 1 /\ PrevForDB(req[p].prev) = LastHash
        BY <1>5, <1>t DEF BeginInsert, RequestType, At, InLine, RequestInLine
    <2>2. \A i \in DOMAIN rows : rows[i].published_at < clock + 1
        BY <1>t DEF Row, TypeOK
    <2>3. rows' = rows /\ LastHash' = LastHash
        BY <1>5 DEF BeginInsert, LastHash
    <2>4. RequestInLine(req[p])'
        BY <2>1, <2>2, <2>3 DEF RequestInLine
    <2> QED BY <2>3, <2>4 DEF InLine, RowsInLine
<1>6. ASSUME NEW p \in Procs, CommitInsert(p)
      PROVE  InLine'
    BY <1>6, CommitInLine
<1>7. ASSUME NEW p \in Procs, RetrySlug(p)
      PROVE  InLine'
    <2>1. /\ req'[p].op = "Post" /\ req'[p].pc = "anchored" /\ req'[p].prev = req[p].prev
          /\ PrevForDB(req[p].prev) = LastHash
        BY <1>7, <1>t DEF RetrySlug, RequestType, At, InLine, RequestInLine
    <2> QED BY <1>7, <2>1 DEF InLine, RowsInLine, RequestInLine, LastHash, RetrySlug
<1>8. ASSUME NEW p \in Procs,
             \/ CheckAnchorForDelete(p) \/ GetEntryByAgentAndSlug(p) \/ SoftDeleteEntry(p)
             \/ GetEntryByIDForOwner(p) \/ RestoreEntry(p) \/ HardDeleteEntry(p)
      PROVE  FALSE
    BY <1>8, <1>s DEF InLine, RequestInLine, At, CheckAnchorForDelete,
       GetEntryByAgentAndSlug, SoftDeleteEntry, GetEntryByIDForOwner, RestoreEntry, HardDeleteEntry
<1>9. ~PurgeExpiredEntries
    BY <1>s DEF PurgeExpiredEntries
<1> QED BY <1>1, <1>2, <1>3, <1>4, <1>5, <1>6, <1>7, <1>8, <1>9 DEF Next, Handle

\* The chain that the design document promises is kept by requests that are served one
\* at a time, as long as nobody deletes an entry: each names the entry before it.  What
\* breaks it (run fork_race) is that the head is compared in one statement and the entry
\* inserted in another, with other requests in between.
THEOREM SerialPostsChain ==
    ASSUME NEW q, Procs = {q}, ClientOps \cap {"SignedDelete", "Delete"} = {}
    PROVE  Spec => ImplementsHashChain
<1>1. Init => Line!Init /\ InLine
    BY IdleType DEF Init, Line!Init, Links, InLine, RowsInLine, RequestInLine
<1>2. IInv /\ InLine /\ [Next]_vars => InLine'
    BY NextInLine
<1>3. IInv /\ InLine /\ [Next]_vars => [Line!Next]_Links
    <2> SUFFICES ASSUME IInv, InLine, NEW p \in Procs, CommitInsert(p)
                 PROVE  Line!Next
        BY OnlyInserts
    <2>1. req[p].body \in Bodies /\ PrevForDB(req[p].prev) = LastHash
        BY DEF IInv, PostsOK, InLine, RequestInLine, CommitInsert, At
    <2>2. LastHash = Line!Anchor
        <3>1. /\ Len(Links) = Len(rows) /\ Len(rows) \in Nat /\ DOMAIN rows = 1..Len(rows)
              /\ DOMAIN Links = 1..Len(rows)
            BY CommitLink DEF IInv, TypeOK, Links
        <3>2. CASE rows = <<>>
            BY <3>2 DEF LastHash, Line!Anchor, Links
        <3>3. CASE rows # <<>>
            <4>1. Len(rows) \in 1..Len(rows)
                BY <3>1, <3>3 DEF IInv, TypeOK
            <4>2. Links # <<>>
                BY <3>1, <4>1
            <4>3. Links[Len(rows)].hash = rows[Len(rows)].hash
                BY <3>1, <4>1 DEF Links
            <4> QED BY <3>1, <3>3, <4>2, <4>3 DEF LastHash, Line!Anchor
        <3> QED BY <3>2, <3>3
    <2> QED BY <2>1, <2>2, CommitLink DEF Line!Next, Line!Chain
<1> QED BY <1>1, <1>2, <1>3, ChainInvariant, PTL DEF Spec, ImplementsHashChain, Line!Spec

-----------------------------------------------------------------------------
(* Keys: the inductive invariant *)

KeyRequest == [op : AllKeyOps \cup {"idle"},
                pc : {"idle", "loaded", "revoked", "inserted"},
                mode : Custody, key : Nat, seen : SUBSET Nat]

RevokedOnes == {k \in DOMAIN keys : keys[k].status = "revoked"}

\* What a request saw is there still, and revoked once the request has said so.
SeenOK == \A p \in KeyProcs :
    /\ kreq[p].seen \subseteq DOMAIN keys
    /\ p \in Rotating => kreq[p].seen \subseteq RevokedOnes

\* Every active key is paid for by a request that is not about to add another.
RotatingBounded == Cardinality(Active) + Cardinality(Rotating) <= Cardinality(KeyProcs)

KeysInv == KeysTypeOK /\ SeenOK /\ RotatingBounded

\* The sets the counting is about are finite.
LEMMA KeySets ==
    ASSUME KeysTypeOK
    PROVE  /\ IsFiniteSet(Active) /\ Cardinality(Active) \in Nat
           /\ IsFiniteSet(Rotating) /\ Cardinality(Rotating) \in Nat
           /\ Cardinality(Rotating) <= Cardinality(KeyProcs)
           /\ Cardinality(KeyProcs) \in Nat
<1>1. Len(keys) \in Nat /\ Active \in SUBSET (1..Len(keys))
    BY DEF KeysTypeOK, Active
<1>2. IsFiniteSet(1..Len(keys))
    BY <1>1, FS_Interval
<1>3. IsFiniteSet(Active)
    BY <1>1, <1>2, FS_Subset
<1>4. Rotating \in SUBSET KeyProcs
    BY DEF Rotating
<1>5. IsFiniteSet(Rotating) /\ Cardinality(Rotating) <= Cardinality(KeyProcs)
    BY <1>4, KeysAssumption, FS_Subset DEF KeysAssumption
<1> QED BY <1>3, <1>5, KeysAssumption, FS_CardinalityType DEF KeysAssumption

\* When neither set grows, the bound on their sum is kept.
LEMMA FewerKeys ==
    ASSUME KeysTypeOK, KeysTypeOK', RotatingBounded,
           Active' \subseteq Active, Rotating' \subseteq Rotating
    PROVE  RotatingBounded'
<1>1. Cardinality(Active') <= Cardinality(Active)
    BY KeySets, FS_Subset
<1>2. Cardinality(Rotating') <= Cardinality(Rotating)
    BY KeySets, FS_Subset
<1>3. /\ Cardinality(Active') \in Nat /\ Cardinality(Rotating') \in Nat
      /\ Cardinality(Active) \in Nat /\ Cardinality(Rotating) \in Nat
      /\ Cardinality(KeyProcs) \in Nat
    <2>1. Cardinality(Active') \in Nat /\ Cardinality(Rotating') \in Nat
        <3>1. IsFiniteSet(Active') /\ IsFiniteSet(Rotating')
            BY KeySets, FS_Subset
        <3> QED BY <3>1, FS_CardinalityType
    <2> QED BY <2>1, KeySets
<1> QED BY <1>1, <1>2, <1>3 DEF RotatingBounded

KeyRequestIs(p, r) == kreq' = [kreq EXCEPT ![p] = r]

\* A step of one process leaves the requests of the others alone.
LEMMA KeyRequestStep ==
    ASSUME KeysTypeOK, NEW p \in KeyProcs, NEW r \in KeyRequest, KeyRequestIs(p, r)
    PROVE  /\ kreq \in [KeyProcs -> KeyRequest] /\ kreq' \in [KeyProcs -> KeyRequest]
           /\ kreq'[p] = r
           /\ \A q \in KeyProcs \ {p} : kreq'[q] = kreq[q]
BY DEF KeysTypeOK, KeyRequest, KeyRequestIs

\* A step of p that adds no key and only revokes.
LEMMA RevokingStep ==
    ASSUME KeysInv, NEW p \in KeyProcs, NEW r \in KeyRequest, KeyRequestIs(p, r),
           r.pc # "revoked",
           r.op = "Revoke" => r.key \in DOMAIN keys,
           r.seen \subseteq DOMAIN keys,
           custody' \in Custody, keys' \in Seq(Key), DOMAIN keys' = DOMAIN keys,
           \A k \in DOMAIN keys : keys'[k].status = keys[k].status \/ keys'[k].status = "revoked"
    PROVE  KeysInv'
<1>s. KeysTypeOK /\ SeenOK /\ RotatingBounded
    BY DEF KeysInv
<1>1. /\ kreq \in [KeyProcs -> KeyRequest] /\ kreq' \in [KeyProcs -> KeyRequest]
      /\ kreq'[p] = r
      /\ \A q \in KeyProcs \ {p} : kreq'[q] = kreq[q]
    BY <1>s, KeyRequestStep
<1>2. KeysTypeOK'
    BY <1>s, <1>1 DEF KeysTypeOK, KeyRequest
<1>3. Rotating' \subseteq Rotating
    BY <1>1 DEF Rotating, KeyAt
<1>4. Active' \subseteq Active
    BY DEF Active
<1>5. RevokedOnes \subseteq RevokedOnes'
    BY DEF RevokedOnes
<1>6. SeenOK'
    BY <1>s, <1>1, <1>3, <1>5 DEF SeenOK, Rotating, KeyAt
<1> QED BY <1>s, <1>2, <1>3, <1>4, <1>6, FewerKeys DEF KeysInv

\* A free process has a well-typed request, and a new key is an active key.
LEMMA KeyTypes ==
    /\ KeyIdle \in KeyRequest /\ KeyIdle.op = "idle" /\ KeyIdle.pc = "idle" /\ KeyIdle.seen = {}
    /\ \A c \in Custody : Issue(c) \in Key /\ Issue(c).status = "active"
BY DEF KeyIdle, KeyRequest, AllKeyOps, Custody, Issue, Key

\* An UPDATE that revokes some of the keys.
LEMMA RevokedKeys ==
    ASSUME keys \in Seq(Key), NEW R,
           keys' = [k \in DOMAIN keys |->
                      IF k \in R THEN [keys[k] EXCEPT !.status = "revoked"] ELSE keys[k]]
    PROVE  /\ keys' \in Seq(Key) /\ DOMAIN keys' = DOMAIN keys
           /\ \A k \in DOMAIN keys : /\ k \in R => keys'[k].status = "revoked"
                                     /\ k \notin R => keys'[k] = keys[k]
<1>1. ASSUME NEW k \in DOMAIN keys
      PROVE  keys'[k] \in Key /\ (k \in R => keys'[k].status = "revoked")
    <2>1. keys[k] \in Key
        OBVIOUS
    <2>2. [keys[k] EXCEPT !.status = "revoked"] \in Key
        BY <2>1 DEF Key
    <2>3. [keys[k] EXCEPT !.status = "revoked"].status = "revoked"
        BY <2>1 DEF Key
    <2> QED BY <2>1, <2>2, <2>3
<1>2. keys' \in [1..Len(keys) -> Key] /\ Len(keys) \in Nat
    BY <1>1
<1> QED BY <1>1, <1>2

-----------------------------------------------------------------------------
(* Keys: each action keeps it *)

\* The beginning of a rotation or a switch keeps the invariant.
LEMMA LoadKeeps ==
    ASSUME KeysInv, NEW p \in KeyProcs, NEW op \in AllKeyOps, LoadOwnedAgent(p, op)
    PROVE  KeysInv'
<1> DEFINE r == [KeyIdle EXCEPT !.op = op, !.pc = "loaded", !.seen = Active,
                             !.mode = IF op = "Rotate" THEN custody ELSE Other(custody)]
<1>1. Active \subseteq DOMAIN keys /\ DOMAIN keys \subseteq Nat
    BY DEF KeysInv, KeysTypeOK, Active
<1>2. r \in KeyRequest /\ r.pc = "loaded" /\ r.op # "Revoke" /\ r.seen = Active
    <2>1. op \in {"Rotate", "Switch"}
        BY DEF LoadOwnedAgent
    <2> QED BY <1>1, <2>1 DEF KeysInv, KeysTypeOK, KeyIdle, KeyRequest, AllKeyOps, Custody, Other
<1>3. KeyRequestIs(p, r)
    BY DEF LoadOwnedAgent, KeyRequestIs
<1> HIDE DEF r
<1> QED BY <1>1, <1>2, <1>3, RevokingStep DEF LoadOwnedAgent, KeysInv, KeysTypeOK

\* The beginning of a revocation keeps the invariant.
LEMMA ListKeeps ==
    ASSUME KeysInv, NEW p \in KeyProcs, ListKeysForAgent(p)
    PROVE  KeysInv'
<1>1. PICK k \in DOMAIN keys :
          kreq' = [kreq EXCEPT ![p] = [KeyIdle EXCEPT !.op = "Revoke", !.pc = "loaded", !.key = k]]
    BY DEF ListKeysForAgent
<1> DEFINE r == [KeyIdle EXCEPT !.op = "Revoke", !.pc = "loaded", !.key = k]
<1>2. k \in Nat
    BY DEF KeysInv, KeysTypeOK
<1>3. r \in KeyRequest /\ r.pc = "loaded" /\ r.key = k /\ r.seen = {}
    BY <1>2 DEF KeyIdle, KeyRequest, AllKeyOps, Custody
<1>4. KeyRequestIs(p, r)
    BY <1>1 DEF KeyRequestIs
<1> HIDE DEF r
<1> QED BY <1>3, <1>4, RevokingStep DEF ListKeysForAgent, KeysInv, KeysTypeOK

\* The request ends, and has changed no key or revoked one.
LEMMA DoneKeeps ==
    ASSUME KeysInv, NEW p \in KeyProcs, KeyDone(p), custody' \in Custody,
           keys' \in Seq(Key), DOMAIN keys' = DOMAIN keys,
           \A k \in DOMAIN keys : keys'[k].status = keys[k].status \/ keys'[k].status = "revoked"
    PROVE  KeysInv'
<1>1. KeyRequestIs(p, KeyIdle)
    BY DEF KeyDone, KeyRequestIs
<1> QED BY <1>1, KeyTypes, RevokingStep

\* The revocation of one key keeps the invariant.
LEMMA RevokeKeeps ==
    ASSUME KeysInv, NEW p \in KeyProcs, RevokeAgentKey(p)
    PROVE  KeysInv'
<1>1. keys \in Seq(Key) /\ kreq[p].key \in DOMAIN keys
    BY DEF KeysInv, KeysTypeOK, RevokeAgentKey, KeyAt
<1>2. keys' = [k \in DOMAIN keys |-> IF k \in {kreq[p].key}
                 THEN [keys[k] EXCEPT !.status = "revoked"] ELSE keys[k]]
    BY <1>1 DEF RevokeAgentKey
<1>3. /\ keys' \in Seq(Key) /\ DOMAIN keys' = DOMAIN keys
      /\ \A k \in DOMAIN keys : keys'[k].status = keys[k].status \/ keys'[k].status = "revoked"
    BY <1>1, <1>2, RevokedKeys
<1> QED BY <1>3, DoneKeeps DEF RevokeAgentKey, KeysInv, KeysTypeOK

\* The request moves on to pc with its other fields as they were.
LEMMA Advance ==
    ASSUME KeysTypeOK, NEW p \in KeyProcs, NEW pc \in {"revoked", "inserted"}, KeyGoto(p, pc)
    PROVE  \E r \in KeyRequest :
              /\ KeyRequestIs(p, r) /\ r.pc = pc /\ r.op = kreq[p].op
              /\ r.key = kreq[p].key /\ r.seen = kreq[p].seen
<1> DEFINE r == [kreq[p] EXCEPT !.pc = pc]
<1>1. kreq[p] \in KeyRequest
    BY DEF KeysTypeOK, KeyRequest
<1>2. r \in KeyRequest /\ r.pc = pc /\ r.op = kreq[p].op
      /\ r.key = kreq[p].key /\ r.seen = kreq[p].seen
    BY <1>1 DEF KeyRequest
<1>3. KeyRequestIs(p, r)
    BY DEF KeyGoto, KeyRequestIs
<1> QED BY <1>2, <1>3

\* From the UPDATE on, the request's turn to insert is covered: no key is active.
LEMMA RevokeAllKeeps ==
    ASSUME KeysInv, NEW p \in KeyProcs, RevokeAllActiveKeysForAgent(p)
    PROVE  KeysInv'
<1>s. KeysTypeOK /\ SeenOK
    BY DEF KeysInv
<1>1. PICK r \in KeyRequest :
          /\ KeyRequestIs(p, r) /\ r.pc = "revoked" /\ r.op = kreq[p].op
          /\ r.key = kreq[p].key /\ r.seen = kreq[p].seen
    BY <1>s, Advance DEF RevokeAllActiveKeysForAgent
<1>2. /\ kreq \in [KeyProcs -> KeyRequest] /\ kreq' \in [KeyProcs -> KeyRequest]
      /\ kreq'[p] = r
      /\ \A q \in KeyProcs \ {p} : kreq'[q] = kreq[q]
    BY <1>s, <1>1, KeyRequestStep
<1>3. keys' = [k \in DOMAIN keys |-> IF k \in DOMAIN keys
                 THEN [keys[k] EXCEPT !.status = "revoked"] ELSE keys[k]]
    BY DEF RevokeAllActiveKeysForAgent, RevokedAll
<1>4. /\ keys' \in Seq(Key) /\ DOMAIN keys' = DOMAIN keys
      /\ \A k \in DOMAIN keys : keys'[k].status = "revoked"
    BY <1>s, <1>3, RevokedKeys DEF KeysTypeOK
<1>5. KeysTypeOK'
    BY <1>s, <1>1, <1>2, <1>4 DEF KeysTypeOK, KeyRequest, RevokeAllActiveKeysForAgent
<1>6. SeenOK'
    BY <1>s, <1>1, <1>2, <1>4 DEF SeenOK, RevokedOnes
<1>7. Active' = {}
    BY <1>4 DEF Active
<1>8. RotatingBounded'
    <2>1. Cardinality(Active') = 0
        BY <1>7, FS_EmptySet
    <2>2. IsFiniteSet(KeyProcs) /\ Rotating' \in SUBSET KeyProcs
        BY KeysAssumption DEF KeysAssumption, Rotating
    <2>3. Cardinality(Rotating') <= Cardinality(KeyProcs)
        BY <2>2, FS_Subset
    <2>4. Cardinality(Rotating') \in Nat /\ Cardinality(KeyProcs) \in Nat
        <3>1. IsFiniteSet(Rotating')
            BY <2>2, FS_Subset
        <3> QED BY <2>2, <3>1, FS_CardinalityType
    <2> QED BY <2>1, <2>3, <2>4 DEF RotatingBounded
<1> QED BY <1>5, <1>6, <1>8 DEF KeysInv

\* The insert exchanges a request that is about to add a key for the key.
LEMMA InsertKeeps ==
    ASSUME KeysInv, NEW p \in KeyProcs, InsertAgentKey(p)
    PROVE  KeysInv'
<1>s. KeysTypeOK /\ SeenOK /\ RotatingBounded
    BY DEF KeysInv
<1> DEFINE new == Issue(kreq[p].mode)
           n == Len(keys) + 1
<1>1. PICK r \in KeyRequest :
          /\ KeyRequestIs(p, r) /\ r.pc # "revoked" /\ r.op # "Revoke"
          /\ r.seen \subseteq kreq[p].seen
    <2>1. CASE kreq[p].op = "Rotate"
        <3>1. KeyRequestIs(p, KeyIdle)
            BY <2>1 DEF InsertAgentKey, KeyDone, KeyRequestIs
        <3> QED BY <3>1, KeyTypes
    <2>2. CASE kreq[p].op # "Rotate"
        <3>1. KeyGoto(p, "inserted") /\ kreq[p].op # "Revoke"
            BY <2>2 DEF InsertAgentKey, KeyAt
        <3> QED BY <1>s, <3>1, Advance
    <2> QED BY <2>1, <2>2
<1>2. /\ kreq \in [KeyProcs -> KeyRequest] /\ kreq' \in [KeyProcs -> KeyRequest]
      /\ kreq'[p] = r
      /\ \A q \in KeyProcs \ {p} : kreq'[q] = kreq[q]
    BY <1>s, <1>1, KeyRequestStep
<1>3. new \in Key /\ new.status = "active"
    BY <1>2, KeyTypes DEF KeyRequest
<1>4. keys \in Seq(Key) /\ keys' = Append(keys, new)
    BY <1>s DEF KeysTypeOK, InsertAgentKey
<1> HIDE DEF new
<1>5. /\ keys' \in Seq(Key)
      /\ DOMAIN keys' = DOMAIN keys \cup {n} /\ n \notin DOMAIN keys
      /\ \A k \in DOMAIN keys : keys'[k] = keys[k]
      /\ keys'[n] = new
    BY <1>3, <1>4
<1> HIDE DEF n
<1>6. KeysTypeOK'
    BY <1>s, <1>1, <1>2, <1>5 DEF KeysTypeOK, KeyRequest, InsertAgentKey
<1>7. Rotating' = Rotating \ {p} /\ p \in Rotating
    BY <1>1, <1>2 DEF Rotating, KeyAt, InsertAgentKey
<1>8. RevokedOnes \subseteq RevokedOnes'
    BY <1>5 DEF RevokedOnes
<1>9. SeenOK'
    BY <1>s, <1>1, <1>2, <1>5, <1>7, <1>8 DEF SeenOK
<1>10. Active' = Active \cup {n} /\ n \notin Active
    BY <1>3, <1>5 DEF Active
<1>11. RotatingBounded'
    <2>1. Cardinality(Active') = Cardinality(Active) + 1
        BY <1>s, <1>10, KeySets, FS_AddElement
    <2>2. Cardinality(Rotating') = Cardinality(Rotating) - 1
        BY <1>s, <1>7, KeySets, FS_RemoveElement
    <2> QED BY <1>s, <2>1, <2>2, KeySets DEF RotatingBounded
<1> QED BY <1>6, <1>9, <1>11 DEF KeysInv

-----------------------------------------------------------------------------
(* Keys: theorems *)

\* The invariant holds initially.
LEMMA InitKeysInv == KeysInit => KeysInv
<1> SUFFICES ASSUME KeysInit PROVE KeysInv
    OBVIOUS
<1>1. keys \in Seq(Key) /\ Len(keys) \in {0, 1} /\ DOMAIN keys \subseteq {1}
    <2>1. PICK first : first = Issue(custody)
        OBVIOUS
    <2>2. first \in Key /\ keys \in {<<>>, <<first>>}
        BY <2>1, KeyTypes DEF KeysInit
    <2>3. <<first>> \in Seq(Key) /\ Len(<<first>>) = 1
        BY <2>2
    <2>4. CASE keys = <<>>
        BY <2>4
    <2>5. CASE keys = <<first>>
        BY <2>3, <2>5
    <2> QED BY <2>2, <2>4, <2>5
<1>2. KeysTypeOK
    BY <1>1, KeyTypes DEF KeysInit, KeysTypeOK, KeyRequest
<1>3. Rotating = {}
    BY KeyTypes DEF KeysInit, Rotating, KeyAt
<1>4. SeenOK
    BY <1>3, KeyTypes DEF KeysInit, SeenOK
<1>5. RotatingBounded
    <2>1. Active \in SUBSET {1}
        BY <1>1 DEF Active
    <2>2. IsFiniteSet({1}) /\ Cardinality({1}) = 1
        <3>1. IsFiniteSet({}) /\ Cardinality({}) = 0
            BY FS_EmptySet
        <3>2. {} \cup {1} = {1} /\ 1 \notin {}
            OBVIOUS
        <3> QED BY <3>1, <3>2, FS_AddElement
    <2>3. Cardinality(Active) <= 1
        BY <2>1, <2>2, FS_Subset
    <2>4. Cardinality(Rotating) = 0
        BY <1>3, FS_EmptySet
    <2>5. IsFiniteSet(KeyProcs) /\ Cardinality(KeyProcs) # 0
        BY KeysAssumption, FS_EmptySet DEF KeysAssumption
    <2> QED BY <1>2, <2>3, <2>4, <2>5, KeySets DEF RotatingBounded
<1> QED BY <1>2, <1>4, <1>5 DEF KeysInv

\* Every step keeps the invariant: one case per action.
LEMMA NextKeysInv == KeysInv /\ [KeysNext]_keyVars => KeysInv'
<1> SUFFICES ASSUME KeysInv, [KeysNext]_keyVars PROVE KeysInv'
    OBVIOUS
<1>1. CASE UNCHANGED keyVars
    BY <1>1 DEF keyVars, KeysInv, KeysTypeOK, SeenOK, RevokedOnes, RotatingBounded, Active, Rotating, KeyAt
<1>2. ASSUME NEW p \in KeyProcs, NEW op \in AllKeyOps, LoadOwnedAgent(p, op) PROVE KeysInv'
    BY <1>2, LoadKeeps
<1>3. ASSUME NEW p \in KeyProcs, ListKeysForAgent(p) PROVE KeysInv'
    BY <1>3, ListKeeps
<1>4. ASSUME NEW p \in KeyProcs, RevokeAllActiveKeysForAgent(p) PROVE KeysInv'
    BY <1>4, RevokeAllKeeps
<1>5. ASSUME NEW p \in KeyProcs, InsertAgentKey(p) PROVE KeysInv'
    BY <1>5, InsertKeeps
<1>6. ASSUME NEW p \in KeyProcs, UpdateAgentCustody(p) PROVE KeysInv'
    <2>1. custody' \in Custody /\ keys' = keys /\ KeyDone(p)
        BY <1>6 DEF UpdateAgentCustody, KeysInv, KeysTypeOK
    <2> QED BY <2>1, DoneKeeps DEF KeysInv, KeysTypeOK
<1>7. ASSUME NEW p \in KeyProcs, RevokeAgentKey(p) PROVE KeysInv'
    BY <1>7, RevokeKeeps
<1>8. ASSUME NEW p \in KeyProcs, Fail(p) PROVE KeysInv'
    BY <1>8, DoneKeeps DEF Fail, KeysInv, KeysTypeOK
<1> QED BY <1>1, <1>2, <1>3, <1>4, <1>5, <1>6, <1>7, <1>8 DEF KeysNext

\* The inductive invariant holds in every reachable state.
LEMMA KeysInvariant == KeysSpec => []KeysInv
<1>1. KeysInv /\ [KeysNext]_keyVars => KeysInv'
    BY NextKeysInv
<1> QED BY <1>1, InitKeysInv, PTL DEF KeysSpec

\* Every variable keeps its type, and a request revokes a key of the agent's own.
THEOREM KeysTypeCorrect == KeysSpec => []KeysTypeOK
<1>1. KeysInv => KeysTypeOK
    BY DEF KeysInv
<1> QED BY <1>1, KeysInvariant, PTL

\* However many rotations and switches run, fail and are repeated, an agent never
\* has more active keys than there are requests in flight at once.
THEOREM ActiveKeysBounded == KeysSpec => []ActiveBounded
<1>1. KeysInv => ActiveBounded
    <2> SUFFICES ASSUME KeysInv PROVE ActiveBounded
        OBVIOUS
    <2>1. KeysTypeOK /\ RotatingBounded
        BY DEF KeysInv
    <2> QED BY <2>1, KeySets DEF RotatingBounded, ActiveBounded
<1> QED BY <1>1, KeysInvariant, PTL

\* A rotation or a switch never inserts its key beside one that was active when the
\* request arrived.
THEOREM OldKeysRevoked == KeysSpec => RotationRevokesOld
<1>1. KeysInv /\ [KeysNext]_keyVars =>
        [\A p \in KeyProcs : InsertAgentKey(p) =>
            \A k \in kreq[p].seen : keys'[k].status = "revoked"]_keyVars
    <2> SUFFICES ASSUME KeysInv, NEW p \in KeyProcs, InsertAgentKey(p),
                        NEW k \in kreq[p].seen
                 PROVE  keys'[k].status = "revoked"
        OBVIOUS
    <2>1. p \in Rotating
        BY DEF InsertAgentKey, Rotating, KeyAt
    <2>2. k \in DOMAIN keys /\ keys[k].status = "revoked"
        BY <2>1 DEF KeysInv, SeenOK, RevokedOnes
    <2>3. keys'[k] = keys[k]
        <3>1. keys \in Seq(Key) /\ keys' = Append(keys, Issue(kreq[p].mode))
            BY DEF KeysInv, KeysTypeOK, InsertAgentKey
        <3> HIDE DEF Issue
        <3> QED BY <2>2, <3>1
    <2> QED BY <2>2, <2>3
<1> QED BY <1>1, KeysInvariant, PTL DEF KeysSpec, RotationRevokesOld

-----------------------------------------------------------------------------
(* Signing is Chain, and is AgentKeys, with signatures in between *)

\* Every step of the composition is one of Chain's, or leaves its state alone.
LEMMA StepOfChain == [SigningNext]_signingVars => [Next]_vars
<1> SUFFICES ASSUME [SigningNext]_signingVars PROVE [Next]_vars
    OBVIOUS
<1>1. CASE UNCHANGED signingVars
    BY <1>1 DEF signingVars, vars
<1>2. ASSUME NEW p \in Procs, FetchKey(p) \/ ArriveBySession(p) \/ Serve(p)
      PROVE  Next
    BY <1>2 DEF FetchKey, ArriveBySession, Serve, Next
<1>3. ASSUME NEW p \in Procs, Deliver(p) \/ CheckRequest(p) \/ Refuse(p)
      PROVE  UNCHANGED vars
    BY <1>3 DEF Deliver, CheckRequest, Refuse, chainVars, vars
<1>4. CASE Purges
    BY <1>4 DEF Purges, Next
<1>5. CASE Sign \/ ChangeKeys \/ Tick
    BY <1>5 DEF Sign, ChangeKeys, Tick, chainVars, vars
<1> QED BY <1>1, <1>2, <1>3, <1>4, <1>5 DEF SigningNext

\* Signed requests are no more than requests: whatever Chain promises of any request
\* that arrives, it promises of those that a signature has let in.
THEOREM SigningImplementsChain == SigningSpec => Spec
<1>1. SigningInit => Init
    BY DEF SigningInit
<1> QED BY <1>1, StepOfChain, PTL DEF SigningSpec, Spec

\* Hence the chain of signed entries is grounded, forks no wider than there are requests
\* in flight, and grows link by link, over a network that delays, repeats and damages.
THEOREM SigningKeepsChain == SigningSpec => []ChainGrounded /\ []ForkBounded /\ ImplementsHashTree
BY SigningImplementsChain, Grounded, ForksAreBounded, TreeRefined

\* The keys change as AgentKeys says, whatever is signed with them.
THEOREM SigningImplementsKeys == SigningSpec => KeysSpec
<1>1. SigningInit => KeysInit
    BY DEF SigningInit
<1>2. [SigningNext]_signingVars => [KeysNext]_keyVars
    <2> SUFFICES ASSUME [SigningNext]_signingVars PROVE KeysNext \/ UNCHANGED keyVars
        BY DEF keyVars
    <2>1. ASSUME NEW p \in Procs,
                 \/ Deliver(p) \/ CheckRequest(p) \/ FetchKey(p) \/ Refuse(p)
                 \/ Serve(p) \/ ArriveBySession(p)
          PROVE  UNCHANGED keyVars
        BY <2>1 DEF Deliver, CheckRequest, FetchKey, Refuse, Serve, ArriveBySession
    <2> QED BY <2>1 DEF SigningNext, signingVars, keyVars, Sign, Purges, ChangeKeys, Tick
<1> QED BY <1>1, <1>2, PTL DEF SigningSpec, KeysSpec

\* Hence what holds of the keys by themselves holds of those that requests are signed
\* with, while they are.
THEOREM SigningKeepsKeys == SigningSpec => []ActiveBounded /\ RotationRevokesOld
BY SigningImplementsKeys, ActiveKeysBounded, OldKeysRevoked

-----------------------------------------------------------------------------
(* Signing: the inductive invariant *)

AnyRequest == [op : {"none", "Post", "SignedDelete"}, key : Nat \cup {Foreign, Missing},
               created : Nat \cup {Missing}, body : Bodies \cup {NULL},
               digest : Bodies \cup {NULL, Missing}, prev : Hash \cup {NULL, Missing},
               slug : Slugs \cup {NULL}]
AnyDelivery == [pc : {"idle", "read", "timely", "verified"}, sent : AnyRequest,
                got : AnyRequest, at : Nat, active : SUBSET Nat, seen : Nat]

\* The clock, the requests that were signed, and the keys; a client's digest is that
\* of its body, and it signs with a key that exists.
WireOK ==
    /\ now \in Nat /\ keys \in Seq(Key)
    /\ wire \subseteq AnyRequest
    /\ \A d \in wire : d.digest = d.body /\ d.key \in DOMAIN keys \cup {Foreign}

\* What a process knows of the request that it serves: a key that is active now was
\* active when the request arrived, since none becomes active again; at most one tick
\* has passed; and each check, once passed, holds of what has arrived.
DeliveryOK(v) ==
    /\ v \in AnyDelivery
    /\ v.pc # "idle" =>
          /\ v.sent \in wire
          /\ v.got.key \in DOMAIN keys \cup {Foreign, Missing}
          /\ v.got.key \in Active => v.got.key \in v.active
          /\ v.at <= now /\ now <= v.at + 1
    /\ v.pc \in {"timely", "verified"} =>
          /\ v.got.created \in Nat
          /\ now - v.got.created \in (-Window)..(Window + 1)
          /\ now = v.at => now - v.got.created <= Window
    /\ v.pc = "timely" => v.got.digest = v.got.body
    /\ v.pc = "verified" => /\ v.got.key \in v.active
                            /\ v.got.body = v.sent.body /\ v.got.prev = v.sent.prev

\* A post is in Chain's hands only with its signature verified, as it was signed.
ServesOK(r, v) ==
    /\ r.op = "Post" => v.pc = "verified" /\ r.body = v.got.body /\ r.prev = v.got.prev
    /\ v.pc = "verified" => r # Idle

\* What every stored entry keeps of its request
OriginOK(row, v) ==
    /\ v \in AnyDelivery
    /\ v.sent \in wire
    /\ v.got.key \in v.active
    /\ row.hash = v.sent.body /\ row.prev = PrevForDB(v.sent.prev)

OriginsOK ==
    /\ origin \in Seq(AnyDelivery) /\ Len(origin) = Len(rows)
    /\ \A i \in DOMAIN rows : OriginOK(rows[i], origin[i])

ProcOK(p) == DeliveryOK(serving[p]) /\ ServesOK(req[p], serving[p])

SIInv ==
    /\ WireOK
    /\ serving \in [Procs -> AnyDelivery]
    /\ \A p \in Procs : ProcOK(p)
    /\ OriginsOK

-----------------------------------------------------------------------------
(* Signing: what each part of a step does *)

\* An UPDATE of a key's status revokes it.
LEMMA RevokedKey ==
    ASSUME NEW k \in Key
    PROVE  /\ [k EXCEPT !.status = "revoked"] \in Key
           /\ [k EXCEPT !.status = "revoked"].status = "revoked"
BY DEF Key

\* Rotations and revocations add keys and revoke keys; none becomes active again.
LEMMA KeysStep ==
    ASSUME keys \in Seq(Key), KeysNext
    PROVE  /\ keys' \in Seq(Key)
           /\ DOMAIN keys \subseteq DOMAIN keys'
           /\ Active' \cap DOMAIN keys \subseteq Active
<1>1. CASE keys' = keys
    BY <1>1 DEF Active
<1>t. Len(keys) \in Nat /\ DOMAIN keys = 1..Len(keys) /\ \A k \in DOMAIN keys : keys[k] \in Key
    OBVIOUS
<1>2. ASSUME NEW R, keys' = [k \in DOMAIN keys |->
                 IF k \in R THEN [keys[k] EXCEPT !.status = "revoked"] ELSE keys[k]]
      PROVE  /\ keys' \in Seq(Key)
             /\ DOMAIN keys \subseteq DOMAIN keys'
             /\ Active' \cap DOMAIN keys \subseteq Active
    <2>1. \A k \in DOMAIN keys :
             /\ [keys[k] EXCEPT !.status = "revoked"] \in Key
             /\ [keys[k] EXCEPT !.status = "revoked"].status = "revoked"
        BY <1>t, RevokedKey
    <2>2. keys' \in [1..Len(keys) -> Key]
        BY <1>t, <1>2, <2>1
    <2>3. \A k \in DOMAIN keys : keys'[k] = keys[k] \/ keys'[k].status = "revoked"
        BY <1>2, <2>1
    <2>4. keys' \in Seq(Key) /\ DOMAIN keys' = DOMAIN keys
        BY <1>t, <2>2
    <2> QED BY <2>3, <2>4 DEF Active
<1>3. ASSUME NEW c, keys' = Append(keys, Issue(c))
      PROVE  /\ keys' \in Seq(Key)
             /\ DOMAIN keys \subseteq DOMAIN keys'
             /\ Active' \cap DOMAIN keys \subseteq Active
    <2>1. Issue(c) \in Key
        BY DEF Issue, Key
    <2>2. keys' \in Seq(Key) /\ \A k \in DOMAIN keys : k \in DOMAIN keys' /\ keys'[k] = keys[k]
        BY <1>3, <2>1
    <2> QED BY <2>2 DEF Active
<1>4. CASE keys' = RevokedAll
    BY <1>2, <1>4 DEF RevokedAll
<1>5. ASSUME NEW i, keys' = [keys EXCEPT ![i].status = "revoked"]
      PROVE  keys' = [k \in DOMAIN keys |-> IF k \in {i}
                        THEN [keys[k] EXCEPT !.status = "revoked"] ELSE keys[k]]
    BY <1>5
<1> QED BY <1>1, <1>2, <1>3, <1>4, <1>5 DEF KeysNext, LoadOwnedAgent, ListKeysForAgent,
        RevokeAllActiveKeysForAgent, InsertAgentKey, UpdateAgentCustody,
        RevokeAgentKey, Fail

\* What a process knows stays true while others sign, the keys change and the clock
\* ticks as it may.
LEMMA DeliveryKept ==
    ASSUME WireOK, WireOK', wire \subseteq wire', DOMAIN keys \subseteq DOMAIN keys',
           Active' \cap DOMAIN keys \subseteq Active,
           NEW p \in Procs, DeliveryOK(serving[p]), serving'[p] = serving[p],
           \/ now' = now
           \/ now' = now + 1 /\ (serving[p].pc # "idle" => serving[p].at = now)
    PROVE  DeliveryOK(serving[p])'
<1>1. PICK v \in AnyDelivery : v = serving[p]
    BY DEF DeliveryOK
<1>2. v.at \in Nat /\ now \in Nat /\ now' \in Nat /\ Window \in Nat
    BY SigningAssumption DEF WireOK, AnyDelivery, SigningAssumption
<1>3. v.pc # "idle" =>
          /\ v.sent \in wire'
          /\ v.got.key \in DOMAIN keys' \cup {Foreign, Missing}
          /\ v.got.key \in Active' => v.got.key \in v.active
          /\ v.at <= now' /\ now' <= v.at + 1
    <2> SUFFICES ASSUME v.pc # "idle"
                 PROVE  /\ v.sent \in wire'
                        /\ v.got.key \in DOMAIN keys' \cup {Foreign, Missing}
                        /\ v.got.key \in Active' => v.got.key \in v.active
                        /\ v.at <= now' /\ now' <= v.at + 1
        OBVIOUS
    <2>1. /\ v.sent \in wire /\ v.got.key \in DOMAIN keys \cup {Foreign, Missing}
          /\ v.got.key \in Active => v.got.key \in v.active
          /\ v.at <= now /\ now <= v.at + 1
        BY <1>1 DEF DeliveryOK
    <2>2. Active' \subseteq Nat
        BY DEF WireOK, Active
    <2>3. Foreign \notin Nat /\ Missing \notin Nat
        BY SigningAssumption DEF SigningAssumption
    <2>4. v.at <= now' /\ now' <= v.at + 1
        BY <1>1, <1>2, <2>1
    <2>5. v.got.key \in DOMAIN keys' \cup {Foreign, Missing}
        BY <2>1
    <2>6. v.got.key \in Active' => v.got.key \in v.active
        BY <2>1, <2>2, <2>3
    <2> QED BY <2>1, <2>4, <2>5, <2>6
<1>4. v.pc \in {"timely", "verified"} =>
          /\ v.got.created \in Nat
          /\ now' - v.got.created \in (-Window)..(Window + 1)
          /\ now' = v.at => now' - v.got.created <= Window
    <2> SUFFICES ASSUME v.pc \in {"timely", "verified"}
                 PROVE  /\ v.got.created \in Nat
                        /\ now' - v.got.created \in (-Window)..(Window + 1)
                        /\ now' = v.at => now' - v.got.created <= Window
        OBVIOUS
    <2>1. /\ v.got.created \in Nat
          /\ now - v.got.created \in (-Window)..(Window + 1)
          /\ now = v.at => now - v.got.created <= Window
        BY <1>1 DEF DeliveryOK
    <2>2. now' = now \/ (now' = now + 1 /\ v.at = now)
        BY <1>1
    <2> DEFINE c == v.got.created
    <2>3. c \in Nat /\ now - c \in (-Window)..(Window + 1) /\ (now = v.at => now - c <= Window)
        BY <2>1
    <2> HIDE DEF c
    <2>4. CASE now' = now
        BY <2>3, <2>4 DEF c
    <2>5. CASE now' = now + 1 /\ v.at = now
        <3>1. now' - c \in (-Window)..(Window + 1) /\ now' # v.at
            BY <1>2, <2>3, <2>5
        <3> QED BY <2>3, <3>1 DEF c
    <2> QED BY <2>2, <2>4, <2>5
<1>5. /\ v.pc = "timely" => v.got.digest = v.got.body
      /\ v.pc = "verified" => /\ v.got.key \in v.active
                              /\ v.got.body = v.sent.body /\ v.got.prev = v.sent.prev
    BY <1>1 DEF DeliveryOK
<1> QED BY <1>1, <1>3, <1>4, <1>5 DEF DeliveryOK

\* A handler serves one request, and a post that it goes on with is the one it was.
LEMMA HandleReq ==
    ASSUME IInv, NEW p \in Procs, Handle(p)
    PROVE  /\ \A q \in Procs \ {p} : req'[q] = req[q]
           /\ req'[p].op = "Post" =>
                 /\ req[p].op = "Post" /\ req'[p].body = req[p].body /\ req'[p].prev = req[p].prev
                 /\ CheckAnchorForPost(p) \/ req[p].pc \in {"anchored", "inserting"}
<1>1. req \in [Procs -> RequestType]
    BY DEF IInv, TypeOK, RequestType
<1>2. CASE Done(p)
    BY <1>1, <1>2, IdleType DEF Done
<1>3. ASSUME NEW r, req' = [req EXCEPT ![p] = r], r.op # "Post"
      PROVE  /\ \A q \in Procs \ {p} : req'[q] = req[q]
             /\ req'[p].op # "Post"
    BY <1>1, <1>3
<1>4. CASE CheckAnchorForPost(p)
    <2>1. PICK t : req' = [req EXCEPT ![p].pc = "anchored", ![p].title = t]
        BY <1>4 DEF CheckAnchorForPost, Slugify
    <2>2. req[p].op = "Post"
        BY <1>4 DEF CheckAnchorForPost, At
    <2> QED BY <1>1, <1>4, <2>1, <2>2 DEF RequestType
<1>5. CASE BeginInsert(p)
    BY <1>1, <1>5 DEF BeginInsert, At, RequestType
<1>6. CASE RetrySlug(p)
    BY <1>1, <1>6 DEF RetrySlug, At, RequestType
<1>7. CASE CheckAnchorForDelete(p)
    <2> DEFINE r == Request("Delete", "authorized", NULL, NULL, req[p].slug, 0)
    <2>1. r.op # "Post"
        BY DEF Request
    <2> HIDE DEF r
    <2>2. req' = [req EXCEPT ![p] = r]
        BY <1>7 DEF CheckAnchorForDelete, r
    <2> QED BY <1>3, <2>1, <2>2
<1>8. CASE GetEntryByAgentAndSlug(p)
    <2>1. PICK i : req' = [req EXCEPT ![p] = Request("Delete", "checked", NULL, NULL, NULL, i)]
        BY <1>8 DEF GetEntryByAgentAndSlug
    <2> DEFINE r == Request("Delete", "checked", NULL, NULL, NULL, i)
    <2>2. r.op # "Post"
        BY DEF Request
    <2> HIDE DEF r
    <2>3. req' = [req EXCEPT ![p] = r]
        BY <2>1 DEF r
    <2> QED BY <1>3, <2>2, <2>3
<1>9. CASE GetEntryByIDForOwner(p)
    BY <1>1, <1>9 DEF GetEntryByIDForOwner, Goto, RequestType
<1> QED BY <1>2, <1>4, <1>5, <1>6, <1>7, <1>8, <1>9 DEF Handle, CommitInsert,
        SoftDeleteEntry, RestoreEntry, HardDeleteEntry, Return

\* Only an insert adds a row; nothing rewrites what a row holds and names.
LEMMA HandleRows ==
    ASSUME IInv, NEW p \in Procs, Handle(p), ~CommitInsert(p)
    PROVE  Moved
<1>1. rows \in Seq(Row) /\ req \in [Procs -> RequestType]
    BY DEF IInv, TypeOK, RequestType
<1>2. CASE UNCHANGED rows
    BY <1>2 DEF Moved
<1>3. CASE SoftDeleteEntry(p) \/ RestoreEntry(p) \/ HardDeleteEntry(p)
    <2>1. req[p].row \in Nat /\ \E s \in Later : Move(req[p].row, s)
        BY <1>1, <1>3 DEF RequestType, SoftDeleteEntry, RestoreEntry, HardDeleteEntry, Later, RowState
    <2> QED BY <1>1, <2>1, MoveMoves
<1> QED BY <1>2, <1>3 DEF Handle, CheckAnchorForPost, BeginInsert, RetrySlug,
        CheckAnchorForDelete, GetEntryByAgentAndSlug, GetEntryByIDForOwner, Return

\* What the stored entries have kept of their requests stays as it is.
LEMMA OriginsKept ==
    ASSUME IInv, IInv', OriginsOK, Moved, origin' = origin, wire \subseteq wire'
    PROVE  OriginsOK'
<1>1. rows \in Seq(Row) /\ rows' \in Seq(Row) /\ DOMAIN rows' = DOMAIN rows
    BY DEF IInv, TypeOK, Moved
<1> QED BY <1>1 DEF OriginsOK, OriginOK, Moved

\* An insert adds one entry, which the request that is being served has signed.
LEMMA OriginsInsert ==
    ASSUME IInv, IInv', OriginsOK, NEW p \in Procs, CommitInsert(p), wire' = wire,
           serving[p] \in AnyDelivery, origin' = Append(origin, serving[p]),
           DeliveryOK(serving[p]), ServesOK(req[p], serving[p])
    PROVE  OriginsOK'
<1>1. req[p].op = "Post"
    BY DEF CommitInsert, At
<1>2. PICK v \in AnyDelivery : v = serving[p]
    OBVIOUS
<1>3. /\ v.sent \in wire /\ v.got.key \in v.active
      /\ req[p].body = v.sent.body /\ req[p].prev = v.sent.prev
    BY <1>1, <1>2 DEF ServesOK, DeliveryOK
<1> DEFINE m == Len(rows) + 1
<1>4. PICK new : /\ rows' = Append(rows, new)
                 /\ new.hash = req[p].body /\ new.prev = PrevForDB(req[p].prev)
    BY DEF CommitInsert
<1>5. /\ rows \in Seq(Row) /\ Len(rows) \in Nat
      /\ DOMAIN rows' = 1..m /\ DOMAIN rows = 1..Len(rows)
      /\ rows'[m] = new /\ \A i \in DOMAIN rows : rows'[i] = rows[i]
    BY <1>4 DEF IInv, TypeOK
<1>6. /\ origin' \in Seq(AnyDelivery) /\ Len(origin') = m
      /\ origin'[m] = v /\ \A i \in DOMAIN rows : origin'[i] = origin[i]
    BY <1>2, <1>5 DEF OriginsOK
<1>7. OriginOK(new, v)'
    BY <1>2, <1>3, <1>4 DEF OriginOK
<1>8. Len(rows') = m
    BY <1>4, <1>5
<1>9. ASSUME NEW i \in DOMAIN rows'
      PROVE  OriginOK(rows[i], origin[i])'
    <2>1. CASE i = m
        BY <1>5, <1>6, <1>7, <2>1 DEF OriginOK
    <2>2. CASE i # m
        <3>1. i \in DOMAIN rows
            BY <1>5, <2>2
        <3> QED BY <1>5, <1>6, <3>1 DEF OriginsOK, OriginOK
    <2> QED BY <2>1, <2>2
<1> QED BY <1>6, <1>8, <1>9 DEF OriginsOK

-----------------------------------------------------------------------------
(* Signing: each action keeps the invariant *)

\* A step that leaves the clock, the keys and what was signed alone, and concerns the
\* request of one process.
LEMMA OneProc ==
    ASSUME SIInv, UNCHANGED <<now, keys, wire>>, NEW p \in Procs,
           serving' \in [Procs -> AnyDelivery], ProcOK(p)',
           \A q \in Procs \ {p} : serving'[q] = serving[q] /\ req'[q] = req[q],
           OriginsOK'
    PROVE  SIInv'
<1>1. WireOK'
    BY DEF SIInv, WireOK
<1>2. ASSUME NEW q \in Procs \ {p}
      PROVE  ProcOK(q)'
    <2>1. DeliveryOK(serving[q])'
        BY <1>1, <1>2, DeliveryKept DEF SIInv, ProcOK, Active
    <2>2. ServesOK(req[q], serving[q])'
        BY <1>2 DEF SIInv, ProcOK, ServesOK
    <2> QED BY <2>1, <2>2 DEF ProcOK
<1> QED BY <1>1, <1>2 DEF SIInv

\* A step that concerns no process: a client signs, the keys change, the clock ticks.
LEMMA NoProc ==
    ASSUME IInv, IInv', SIInv, WireOK', wire \subseteq wire',
           DOMAIN keys \subseteq DOMAIN keys', Active' \cap DOMAIN keys \subseteq Active,
           \/ now' = now
           \/ now' = now + 1 /\ \A p \in Procs : serving[p].pc # "idle" => serving[p].at = now,
           UNCHANGED <<serving, req, origin>>, Moved
    PROVE  SIInv'
<1>1. ASSUME NEW p \in Procs
      PROVE  ProcOK(p)'
    <2>1. DeliveryOK(serving[p])'
        BY <1>1, DeliveryKept DEF SIInv, ProcOK
    <2>2. ServesOK(req[p], serving[p])'
        BY <1>1 DEF SIInv, ProcOK, ServesOK
    <2> QED BY <2>1, <2>2 DEF ProcOK
<1> QED BY <1>1, OriginsKept DEF SIInv

\* Rows that stay as they are have moved nowhere.
LEMMA StayedMoved == ASSUME UNCHANGED rows PROVE Moved
BY DEF Moved

\* A client that signs with its keys, or another's, keeps the invariant.
LEMMA SignKeeps ==
    ASSUME IInv, IInv', SIInv, Sign
    PROVE  SIInv'
<1>1. PICK k \in DOMAIN keys \cup {Foreign}, t \in Nat \cap (now - Skew)..(now + Skew), h \in Hash :
          \/ \E b \in Bodies :
                wire' = wire \cup {SignedRequest("Post", k, t, b, h, NULL)}
          \/ \E s \in Slugs :
                wire' = wire \cup {SignedRequest("SignedDelete", k, t, NULL, h, s)}
    BY DEF Sign
<1>2. PICK op \in {"Post", "SignedDelete"}, b \in Bodies \cup {NULL}, s \in Slugs \cup {NULL} :
          wire' = wire \cup {SignedRequest(op, k, t, b, h, s)}
    BY <1>1
<1> DEFINE d == SignedRequest(op, k, t, b, h, s)
<1>3. d \in AnyRequest /\ d.digest = d.body /\ d.key = k
    <2>1. k \in Nat \cup {Foreign}
        BY DEF SIInv, WireOK
    <2> QED BY <2>1 DEF SignedRequest, AnyRequest
<1> HIDE DEF d
<1>4. UNCHANGED <<now, keys, serving, req, origin, rows>>
    BY DEF Sign, chainVars, keyVars
<1>5. WireOK'
    BY <1>2, <1>3, <1>4 DEF SIInv, WireOK, d
<1> QED BY <1>2, <1>4, <1>5, NoProc, StayedMoved DEF Active

\* Changing keys keeps it: what is active now was active before, or is new.
LEMMA ChangeKeysKeeps ==
    ASSUME IInv, IInv', SIInv, ChangeKeys
    PROVE  SIInv'
<1>1. UNCHANGED <<now, wire, serving, req, origin, rows>> /\ KeysNext /\ keys \in Seq(Key)
    BY DEF ChangeKeys, chainVars, SIInv, WireOK
<1>2. /\ keys' \in Seq(Key) /\ DOMAIN keys \subseteq DOMAIN keys'
      /\ Active' \cap DOMAIN keys \subseteq Active
    BY <1>1, KeysStep
<1>3. WireOK'
    BY <1>1, <1>2 DEF SIInv, WireOK
<1> QED BY <1>1, <1>2, <1>3, NoProc, StayedMoved

\* The clock ticks only while every request in flight has arrived in this tick.
LEMMA TickKeeps ==
    ASSUME IInv, IInv', SIInv, Tick
    PROVE  SIInv'
<1>1. UNCHANGED <<keys, wire, serving, req, origin, rows>> /\ now' = now + 1
    BY DEF Tick, chainVars, keyVars
<1>2. \A p \in Procs : serving[p].pc # "idle" => serving[p].at = now
    <2>1. NoDelivery.pc = "idle"
        BY DEF NoDelivery
    <2> QED BY <2>1 DEF Tick
<1>3. WireOK'
    BY <1>1 DEF SIInv, WireOK
<1> QED BY <1>1, <1>2, <1>3, NoProc, StayedMoved DEF Active

\* A purge of the bin keeps what every entry came with.
LEMMA PurgesKeeps ==
    ASSUME IInv, IInv', SIInv, Purges
    PROVE  SIInv'
<1>1. UNCHANGED <<now, keys, wire, serving, req, origin>> /\ Moved
    <2>1. rows \in Seq(Row)
        BY DEF IInv, TypeOK
    <2> QED BY <2>1, PurgeMoves DEF Purges, PurgeExpiredEntries, keyVars
<1>2. WireOK'
    BY <1>1 DEF SIInv, WireOK
<1> QED BY <1>1, <1>2, NoProc DEF Active

\* What the network makes of a request is a request, with a key of the agent's, another
\* agent's, or none.
LEMMA DamagedType ==
    ASSUME WireOK, NEW d \in wire, NEW g \in {d} \cup Damaged(d)
    PROVE  g \in AnyRequest /\ g.key \in DOMAIN keys \cup {Foreign, Missing}
<1>1. d \in AnyRequest /\ d.key \in DOMAIN keys \cup {Foreign, Missing}
    BY DEF WireOK
<1>2. now \in Nat /\ DOMAIN keys \subseteq Nat
    BY DEF WireOK
<1>3. CASE g = d
    BY <1>1, <1>3
<1>4. CASE \E b \in Bodies : g = [d EXCEPT !.body = b]
    BY <1>1, <1>4 DEF AnyRequest
<1>5. CASE \E b \in Bodies \cup {Missing} : g = [d EXCEPT !.digest = b]
    BY <1>1, <1>5 DEF AnyRequest
<1>6. CASE \E h \in Hash \cup {Missing} : g = [d EXCEPT !.prev = h]
    BY <1>1, <1>6 DEF AnyRequest
<1>7. CASE \E t \in {now, Missing} : g = [d EXCEPT !.created = t]
    BY <1>1, <1>2, <1>7 DEF AnyRequest
<1>8. CASE \E k \in DOMAIN keys \cup {Missing} : g = [d EXCEPT !.key = k]
    BY <1>1, <1>2, <1>8 DEF AnyRequest
<1> QED BY <1>3, <1>4, <1>5, <1>6, <1>7, <1>8 DEF Damaged

\* The rows and their origins stay as they are.
LEMMA OriginsStay ==
    ASSUME OriginsOK, UNCHANGED <<rows, wire, origin>>
    PROVE  OriginsOK'
BY DEF OriginsOK, OriginOK

\* Arriving keeps the invariant: nothing is known yet but when the request came.
LEMMA DeliverKeeps ==
    ASSUME IInv, SIInv, NEW p \in Procs, Deliver(p)
    PROVE  SIInv'
<1>d. PICK d \in wire : \E g \in {d} \cup Damaged(d) :
          serving' = [serving EXCEPT ![p] = Delivery("read", d, g)]
    BY DEF Deliver
<1>1. PICK g \in {d} \cup Damaged(d) :
          serving' = [serving EXCEPT ![p] = Delivery("read", d, g)]
    BY <1>d
<1>2. UNCHANGED <<now, keys, wire, rows, req, origin>>
    BY DEF Deliver, chainVars, keyVars
<1> DEFINE v == Delivery("read", d, g)
<1>3. g \in AnyRequest /\ g.key \in DOMAIN keys \cup {Foreign, Missing} /\ d \in AnyRequest
    BY DamagedType DEF SIInv, WireOK
<1>4. /\ v.pc = "read" /\ v.sent = d /\ v.got = g /\ v.at = now /\ v.active = Active
      /\ v \in AnyDelivery
    <2>1. now \in Nat /\ Active \subseteq Nat /\ Len(rows) \in Nat
        BY DEF SIInv, WireOK, Active, IInv, TypeOK
    <2> QED BY <1>3, <2>1 DEF Delivery, AnyDelivery
<1> HIDE DEF v
<1>5. serving \in [Procs -> AnyDelivery] /\ serving' = [serving EXCEPT ![p] = v]
    BY <1>1 DEF SIInv, v
<1>6. /\ serving' \in [Procs -> AnyDelivery] /\ serving'[p] = v
      /\ \A q \in Procs \ {p} : serving'[q] = serving[q]
    BY <1>4, <1>5
<1>7. DeliveryOK(serving[p])'
    <2>1. now \in Nat
        BY DEF SIInv, WireOK
    <2> QED BY <1>2, <1>3, <1>4, <1>6, <2>1 DEF DeliveryOK, Active
<1>8. ServesOK(req[p], serving[p])'
    <2>1. req'[p] = Idle
        BY <1>2 DEF Deliver
    <2> QED BY <1>4, <1>6, <2>1 DEF ServesOK, Idle, Request
<1>9. OriginsOK'
    BY <1>2, OriginsStay DEF SIInv
<1> QED BY <1>2, <1>6, <1>7, <1>8, <1>9, OneProc DEF ProcOK

\* A process that lets go of its request has none.
LEMMA NoDeliveryOK ==
    /\ NoDelivery \in AnyDelivery /\ NoDelivery.pc = "idle"
BY DEF NoDelivery, Nothing, SignedRequest, AnyRequest, AnyDelivery

\* A refusal keeps the invariant.
LEMMA RefuseKeeps ==
    ASSUME IInv, SIInv, NEW p \in Procs, Refuse(p)
    PROVE  SIInv'
<1>1. UNCHANGED <<now, keys, wire, rows, req, origin>>
    BY DEF Refuse, chainVars, keyVars
<1>2. serving \in [Procs -> AnyDelivery] /\ serving' = [serving EXCEPT ![p] = NoDelivery]
    BY DEF Refuse, SIInv
<1>3. /\ serving' \in [Procs -> AnyDelivery] /\ serving'[p] = NoDelivery
      /\ \A q \in Procs \ {p} : serving'[q] = serving[q]
    BY <1>2, NoDeliveryOK
<1>4. DeliveryOK(serving[p])'
    BY <1>3, NoDeliveryOK DEF DeliveryOK
<1>5. ServesOK(req[p], serving[p])'
    <2>1. req[p].op # "Post"
        BY DEF SIInv, ProcOK, ServesOK, Refuse
    <2> QED BY <1>1, <1>3, <2>1, NoDeliveryOK DEF ServesOK
<1>6. OriginsOK'
    BY <1>1, OriginsStay DEF SIInv
<1> QED BY <1>1, <1>3, <1>4, <1>5, <1>6, OneProc DEF ProcOK

\* The checks without the key keep it: the clock is within the window, and the body is
\* what the digest says.
LEMMA CheckKeeps ==
    ASSUME IInv, SIInv, NEW p \in Procs, CheckRequest(p)
    PROVE  SIInv'
<1>1. UNCHANGED <<now, keys, wire, rows, req, origin>>
    BY DEF CheckRequest, chainVars, keyVars
<1>2. serving \in [Procs -> AnyDelivery] /\ DeliveryOK(serving[p]) /\ ServesOK(req[p], serving[p])
    BY DEF SIInv, ProcOK
<1>3. PICK v \in AnyDelivery : v = serving[p]
    BY <1>2
<1> DEFINE w == [v EXCEPT !.pc = "timely"]
<1>4. /\ w \in AnyDelivery /\ w.pc = "timely" /\ w.sent = v.sent /\ w.got = v.got
      /\ w.at = v.at /\ w.active = v.active
    BY DEF AnyDelivery
<1>5. serving' = [serving EXCEPT ![p] = w]
    BY <1>3 DEF CheckRequest
<1> HIDE DEF w
<1>6. /\ serving' \in [Procs -> AnyDelivery] /\ serving'[p] = w
      /\ \A q \in Procs \ {p} : serving'[q] = serving[q]
    BY <1>2, <1>4, <1>5
<1>7. /\ v.got.created \in Nat /\ v.got.digest = v.got.body
      /\ now - v.got.created \in (-Window)..(Window + 1)
      /\ now - v.got.created <= Window
    <2>1. v.got.created \in Nat
        <3>1. v.got \in AnyRequest /\ v.got.created # Missing
            BY <1>3 DEF AnyDelivery, CheckRequest, WellFormed
        <3> QED BY <3>1 DEF AnyRequest
    <2> DEFINE c == v.got.created
    <2>2. c \in Nat /\ now - c <= Window /\ c - now <= Window
        BY <1>3, <2>1 DEF CheckRequest, Timely
    <2> HIDE DEF c
    <2>3. now \in Nat /\ Window \in Nat
        BY SigningAssumption DEF SIInv, WireOK, SigningAssumption
    <2>4. now - c \in (-Window)..(Window + 1) /\ now - c <= Window
        BY <2>2, <2>3
    <2>5. v.got.digest = v.got.body
        BY <1>3 DEF CheckRequest, DigestMatches
    <2> QED BY <2>1, <2>4, <2>5 DEF c
<1>8. DeliveryOK(serving[p])'
    <2>1. v.pc = "read"
        BY <1>3 DEF CheckRequest
    <2>2. DeliveryOK(v)
        BY <1>2, <1>3
    <2> QED BY <1>1, <1>4, <1>6, <1>7, <2>1, <2>2 DEF DeliveryOK, Active
<1>9. ServesOK(req[p], serving[p])'
    <2>1. v.pc = "read"
        BY <1>3 DEF CheckRequest
    <2> QED BY <1>1, <1>2, <1>3, <1>4, <1>6, <2>1 DEF ServesOK
<1>10. OriginsOK'
    BY <1>1, OriginsStay DEF SIInv
<1> QED BY <1>1, <1>6, <1>8, <1>9, <1>10, OneProc DEF ProcOK

\* The checks with the key keep it: the key is active and the agent's own, and what has
\* arrived is what was signed.
LEMMA FetchKeyKeeps ==
    ASSUME IInv, SIInv, NEW p \in Procs, FetchKey(p)
    PROVE  SIInv'
<1>1. UNCHANGED <<now, keys, wire, rows, origin>> /\ req[p] = Idle
    BY DEF FetchKey, keyVars, Arrive, Begin
<1>2. serving \in [Procs -> AnyDelivery] /\ DeliveryOK(serving[p])
    BY DEF SIInv, ProcOK
<1>3. PICK v \in AnyDelivery : v = serving[p]
    BY <1>2
<1> DEFINE w == [v EXCEPT !.pc = "verified"]
<1>4. /\ w \in AnyDelivery /\ w.pc = "verified" /\ w.sent = v.sent /\ w.got = v.got
      /\ w.at = v.at /\ w.active = v.active
    BY DEF AnyDelivery
<1>5. serving' = [serving EXCEPT ![p] = w] /\ v.pc = "timely"
    BY <1>3 DEF FetchKey
<1> HIDE DEF w
<1>6. /\ serving' \in [Procs -> AnyDelivery] /\ serving'[p] = w
      /\ \A q \in Procs \ {p} : serving'[q] = serving[q]
    BY <1>2, <1>4, <1>5
<1>7. /\ \A q \in Procs \ {p} : req'[q] = req[q]
      /\ req'[p] = Request(v.got.op, "authed", v.got.body, v.got.prev, v.got.slug, 0)
    <2>1. req \in [Procs -> RequestType] /\ \E r : req' = [req EXCEPT ![p] = r]
        BY DEF IInv, TypeOK, RequestType, FetchKey, Arrive, Begin
    <2>2. req'[p] = Request(v.got.op, "authed", v.got.body, v.got.prev, v.got.slug, 0)
        BY <1>3 DEF FetchKey
    <2> QED BY <2>1, <2>2
<1>8. v.got.key \in v.active
    <2>1. v.got.key \in Active
        BY <1>3 DEF FetchKey, Fetch, OwnKey
    <2> QED BY <1>2, <1>3, <1>5, <2>1 DEF DeliveryOK
<1>9. v.got.body = v.sent.body /\ v.got.prev = v.sent.prev
    <2>1. v.got.digest = v.sent.digest /\ v.got.prev = v.sent.prev
        BY <1>3 DEF FetchKey, SignatureVerifies, SignatureBase
    <2>2. v.got.digest = v.got.body /\ v.sent \in wire
        BY <1>2, <1>3, <1>5 DEF DeliveryOK
    <2>3. v.sent.digest = v.sent.body
        BY <2>2 DEF SIInv, WireOK
    <2> QED BY <2>1, <2>2, <2>3
<1>10. DeliveryOK(serving[p])'
    <2>1. DeliveryOK(v)
        BY <1>2, <1>3
    <2> QED BY <1>1, <1>4, <1>5, <1>6, <1>8, <1>9, <2>1 DEF DeliveryOK, Active
<1>11. ServesOK(req[p], serving[p])'
    <2>1. /\ req'[p].pc = "authed" /\ Idle.pc = "idle"
          /\ req'[p].body = v.got.body /\ req'[p].prev = v.got.prev
        BY <1>7 DEF Request, Idle
    <2> QED BY <1>4, <1>6, <2>1 DEF ServesOK
<1>12. OriginsOK'
    BY <1>1, OriginsStay DEF SIInv
<1> QED BY <1>1, <1>6, <1>7, <1>10, <1>11, <1>12, OneProc DEF ProcOK

\* A step of a handler keeps it: an insert keeps what it came with, and whoever has
\* answered has let go of the request.
LEMMA ServeKeeps ==
    ASSUME IInv, IInv', SIInv, NEW p \in Procs, Serve(p)
    PROVE  SIInv'
<1>1. UNCHANGED <<now, keys, wire>> /\ Handle(p)
    BY DEF Serve, keyVars
<1>2. /\ serving \in [Procs -> AnyDelivery] /\ WireOK /\ WireOK' /\ OriginsOK
      /\ DeliveryOK(serving[p]) /\ ServesOK(req[p], serving[p])
    BY <1>1 DEF SIInv, ProcOK, WireOK
<1>3. /\ \A q \in Procs \ {p} : req'[q] = req[q]
      /\ req'[p].op = "Post" =>
            req[p].op = "Post" /\ req'[p].body = req[p].body /\ req'[p].prev = req[p].prev
    BY <1>1, HandleReq
<1>4. /\ serving' \in [Procs -> AnyDelivery]
      /\ ProcOK(p)'
      /\ \A q \in Procs \ {p} : serving'[q] = serving[q]
    <2>1. CASE req'[p] = Idle
        <3>1. serving' = [serving EXCEPT ![p] = NoDelivery]
            BY <2>1 DEF Serve
        <3>2. /\ serving' \in [Procs -> AnyDelivery] /\ serving'[p] = NoDelivery
              /\ \A q \in Procs \ {p} : serving'[q] = serving[q]
            BY <1>2, <3>1, NoDeliveryOK
        <3>3. ProcOK(p)'
            BY <2>1, <3>2, NoDeliveryOK, IdleType DEF ProcOK, DeliveryOK, ServesOK
        <3> QED BY <3>2, <3>3
    <2>2. CASE req'[p] # Idle
        <3>1. serving' = serving
            BY <2>2 DEF Serve
        <3>2. DeliveryOK(serving[p])'
            BY <1>1, <1>2, <3>1, DeliveryKept DEF Active
        <3>3. ServesOK(req[p], serving[p])'
            BY <1>2, <1>3, <2>2, <3>1 DEF ServesOK
        <3> QED BY <1>2, <3>1, <3>2, <3>3 DEF ProcOK
    <2> QED BY <2>1, <2>2
<1>5. OriginsOK'
    <2>1. CASE CommitInsert(p)
        <3>1. Len(rows') > Len(rows)
            BY <2>1 DEF CommitInsert, IInv, TypeOK
        <3>2. origin' = Append(origin, serving[p]) /\ serving[p] \in AnyDelivery
            BY <1>2, <3>1 DEF Serve
        <3> QED BY <1>1, <1>2, <2>1, <3>2, OriginsInsert
    <2>2. CASE ~CommitInsert(p)
        <3>1. Moved
            BY <1>1, <2>2, HandleRows
        <3>2. Len(rows') = Len(rows)
            BY <3>1 DEF Moved, IInv, TypeOK
        <3>3. origin' = origin
            BY <3>2 DEF Serve, IInv, TypeOK
        <3> QED BY <1>1, <1>2, <3>1, <3>3, OriginsKept
    <2> QED BY <2>1, <2>2
<1> QED BY <1>1, <1>3, <1>4, <1>5, OneProc

\* A request of the owner's session keeps it: it is neither a post nor signed.
LEMMA ArriveBySessionKeeps ==
    ASSUME IInv, SIInv, NEW p \in Procs, ArriveBySession(p)
    PROVE  SIInv'
<1>1. UNCHANGED <<now, keys, wire, rows, serving, origin>> /\ serving[p] = NoDelivery
    BY DEF ArriveBySession, keyVars, Arrive
<1>2. \A q \in Procs \ {p} : req'[q] = req[q]
    <2>1. req \in [Procs -> RequestType] /\ \E r : req' = [req EXCEPT ![p] = r]
        BY DEF IInv, TypeOK, RequestType, ArriveBySession, Arrive, Begin
    <2> QED BY <2>1
<1>3. ProcOK(p)'
    <2>1. req'[p].op # "Post"
        BY DEF ArriveBySession
    <2> QED BY <1>1, <2>1, NoDeliveryOK DEF ProcOK, DeliveryOK, ServesOK
<1>4. OriginsOK'
    BY <1>1, OriginsStay DEF SIInv
<1>5. serving' \in [Procs -> AnyDelivery]
    BY <1>1 DEF SIInv
<1> QED BY <1>1, <1>2, <1>3, <1>4, <1>5, OneProc

-----------------------------------------------------------------------------
(* Signing: the theorems *)

\* Nothing is signed, served or stored at first.
LEMMA InitSIInv == SigningInit => SIInv
<1> SUFFICES ASSUME SigningInit PROVE SIInv
    OBVIOUS
<1>1. keys \in Seq(Key)
    <2>1. Issue(custody) \in Key
        BY DEF SigningInit, KeysInit, Issue, Key
    <2> DEFINE k == Issue(custody)
    <2>2. k \in Key /\ (keys = <<>> \/ keys = <<k>>)
        BY <2>1 DEF SigningInit, KeysInit
    <2> HIDE DEF k
    <2>3. ASSUME NEW S, NEW x \in S PROVE <<>> \in Seq(S) /\ <<x>> \in Seq(S)
        OBVIOUS
    <2> QED BY <2>2, <2>3
<1>2. WireOK
    BY <1>1 DEF WireOK, SigningInit
<1>3. serving \in [Procs -> AnyDelivery]
    BY NoDeliveryOK DEF SigningInit
<1>4. ASSUME NEW p \in Procs PROVE ProcOK(p)
    BY NoDeliveryOK, IdleType DEF SigningInit, Init, ProcOK, DeliveryOK, ServesOK
<1>5. OriginsOK
    BY DEF OriginsOK, SigningInit, Init
<1> QED BY <1>2, <1>3, <1>4, <1>5 DEF SIInv

\* Every step keeps the invariant.
LEMMA NextSIInv == IInv /\ IInv' /\ SIInv /\ [SigningNext]_signingVars => SIInv'
<1> SUFFICES ASSUME IInv, IInv', SIInv, [SigningNext]_signingVars PROVE SIInv'
    OBVIOUS
<1>1. CASE UNCHANGED signingVars
    <2>1. UNCHANGED <<now, keys, wire, rows, req, serving, origin>>
        BY <1>1 DEF signingVars
    <2>2. WireOK'
        BY <2>1 DEF SIInv, WireOK
    <2> QED BY <2>1, <2>2, NoProc, StayedMoved DEF Active
<1>2. ASSUME NEW p \in Procs,
             \/ Deliver(p) \/ CheckRequest(p) \/ FetchKey(p) \/ Refuse(p)
             \/ Serve(p) \/ ArriveBySession(p)
      PROVE  SIInv'
    BY <1>2, DeliverKeeps, CheckKeeps, FetchKeyKeeps, RefuseKeeps, ServeKeeps,
       ArriveBySessionKeeps
<1> QED BY <1>1, <1>2, SignKeeps, PurgesKeeps, ChangeKeysKeeps, TickKeeps DEF SigningNext

\* What the verifier has established of a request holds until it has its effect, and
\* of what it stored ever after.
THEOREM SigningInvariant == SigningSpec => [](IInv /\ SIInv)
<1>1. SigningSpec => []IInv
    BY SigningImplementsChain, ChainInvariant, PTL
<1> QED BY <1>1, InitSIInv, NextSIInv, PTL DEF SigningSpec

\* Every variable of Signing has its type, and every row its origin.
THEOREM SigningTypeCorrect == SigningSpec => []SigningTypeOK
<1>1. SIInv => SigningTypeOK
    BY DEF SIInv, WireOK, OriginsOK, SigningTypeOK, AnyRequest, AnyDelivery
<1> QED BY <1>1, SigningInvariant, PTL

\* Every entry was signed with a key of the agent that was active when its request
\* arrived, for any number of keys, requests and deliveries.
THEOREM KeysWereActive == SigningSpec => []ActiveKeySigned
<1>1. SIInv => ActiveKeySigned
    BY DEF SIInv, OriginsOK, OriginOK, ActiveKeySigned
<1> QED BY <1>1, SigningInvariant, PTL

\* Every entry is what the client signed, whatever the network damages.
THEOREM EntriesAreAsSigned == SigningSpec => []EntryAsSigned
<1>1. SIInv => EntryAsSigned
    BY DEF SIInv, OriginsOK, OriginOK, EntryAsSigned
<1> QED BY <1>1, SigningInvariant, PTL

\* A signed request has its effect within the window around its creation and the tick
\* that it may take, whatever the window and however far off the clients' clocks are.
THEOREM EffectsAreFresh == SigningSpec => FreshEffect
<1>1. ASSUME SIInv, NEW p \in Procs, serving[p].pc = "verified"
      PROVE  now - serving[p].got.created \in (-Window)..(Window + 1)
    BY <1>1 DEF SIInv, ProcOK, DeliveryOK
<1>2. IInv /\ SIInv => [\A p \in Procs :
         (serving[p].pc = "verified" /\ rows' # rows /\ req'[p] = Idle) =>
             now - serving[p].got.created \in (-Window)..(Window + 1)]_signingVars
    BY <1>1
<1> QED BY <1>2, SigningInvariant, PTL DEF FreshEffect

-----------------------------------------------------------------------------
(* Signing: a post that is sent again *)

\* Every entry that was there when a request arrived and has never been deleted is no
\* newer than an entry that holds h: whoever names h has seen them all.
Outlived(h, n) ==
    \A i \in 1..n : rows[i].st = "live" =>
        \E k \in DOMAIN rows : rows[k].hash = h /\ rows[i].published_at <= rows[k].published_at

\* A post that has compared its prev with the head
Compared(p) == req[p].op = "Post" /\ req[p].pc \in {"anchored", "inserting"}

PostRetryOK(p) ==
    /\ serving[p].seen <= Len(rows)
    /\ Compared(p) => Outlived(req[p].prev, serving[p].seen)

\* The same of a stored entry, whether its request was sent once or again
RowRetryOK(j) ==
    /\ origin[j].seen < j
    /\ \A i \in 1..origin[j].seen : rows[i].st = "live" =>
          \E k \in 1..(j - 1) : /\ rows[k].hash = rows[j].prev
                                /\ rows[i].published_at <= rows[k].published_at

RetryOK == (\A p \in Procs : PostRetryOK(p)) /\ (\A j \in DOMAIN rows : RowRetryOK(j))

\* What no step does: take rows away, change what they hold, or make one as good as new
Grown ==
    /\ Len(rows) <= Len(rows')
    /\ \A i \in DOMAIN rows : /\ rows'[i].hash = rows[i].hash
                              /\ rows'[i].prev = rows[i].prev
                              /\ rows'[i].published_at = rows[i].published_at
                              /\ rows'[i].st = "live" => rows[i].st = "live"

\* Moved rows are all there.
LEMMA MovedGrown ==
    ASSUME rows \in Seq(Row), Moved
    PROVE  Grown
BY DEF Moved, Grown

\* What a post knows when it has compared its prev, it knows until it is done.
LEMMA PostRetryKept ==
    ASSUME rows \in Seq(Row), rows' \in Seq(Row), Grown, NEW p \in Procs, PostRetryOK(p),
           serving[p].seen \in Nat, serving'[p].seen = serving[p].seen,
           Compared(p)' => Compared(p) /\ req'[p].prev = req[p].prev
    PROVE  PostRetryOK(p)'
<1> DEFINE n == serving[p].seen
<1>1. n \in Nat /\ n <= Len(rows) /\ Len(rows) \in Nat /\ Len(rows') \in Nat
      /\ DOMAIN rows = 1..Len(rows) /\ DOMAIN rows' = 1..Len(rows')
    BY DEF PostRetryOK
<1>2. n <= Len(rows') /\ DOMAIN rows \subseteq DOMAIN rows' /\ 1..n \subseteq DOMAIN rows
    BY <1>1 DEF Grown
<1>3. ASSUME NEW h, Outlived(h, n)
      PROVE  Outlived(h, n)'
    <2> SUFFICES ASSUME NEW i \in 1..n, rows'[i].st = "live"
                 PROVE  \E k \in DOMAIN rows' : /\ rows'[k].hash = h
                                                /\ rows'[i].published_at <= rows'[k].published_at
        BY DEF Outlived
    <2>1. i \in DOMAIN rows /\ rows[i].st = "live"
        BY <1>2 DEF Grown
    <2>2. PICK k \in DOMAIN rows : rows[k].hash = h /\ rows[i].published_at <= rows[k].published_at
        BY <1>3, <2>1 DEF Outlived
    <2> QED BY <1>2, <2>1, <2>2 DEF Grown
<1> QED BY <1>2, <1>3 DEF PostRetryOK

\* What is true of a stored entry stays true: the rows before it are there.
LEMMA RowRetryKept ==
    ASSUME rows \in Seq(Row), Grown, NEW j \in DOMAIN rows, RowRetryOK(j),
           origin[j].seen \in Nat, origin'[j] = origin[j]
    PROVE  RowRetryOK(j)'
<1>1. j \in Nat /\ DOMAIN rows = 1..Len(rows) /\ Len(rows) \in Nat
    OBVIOUS
<1> SUFFICES ASSUME NEW i \in 1..origin[j].seen, rows'[i].st = "live"
             PROVE  \E k \in 1..(j - 1) : /\ rows'[k].hash = rows'[j].prev
                                          /\ rows'[i].published_at <= rows'[k].published_at
    BY DEF RowRetryOK
<1>2. i \in DOMAIN rows /\ origin[j].seen < j
    BY <1>1 DEF RowRetryOK
<1>3. PICK k \in 1..(j - 1) : /\ rows[k].hash = rows[j].prev
                              /\ rows[i].published_at <= rows[k].published_at
    BY <1>2 DEF Grown, RowRetryOK
<1>4. k \in DOMAIN rows
    BY <1>1
<1> QED BY <1>2, <1>3, <1>4 DEF Grown

\* The head is the latest of the live entries, and there is none when it is zeros.
LEMMA HeadOutlives ==
    ASSUME rows \in Seq(Row), NEW h \in Hash, Anchor(h), NEW n \in Nat, n <= Len(rows)
    PROVE  Outlived(h, n)
<1> SUFFICES ASSUME NEW i \in 1..n, rows[i].st = "live"
             PROVE  \E k \in DOMAIN rows : /\ rows[k].hash = h
                                           /\ rows[i].published_at <= rows[k].published_at
    BY DEF Outlived
<1>1. i \in LiveRows
    BY DEF LiveRows
<1>2. PICK k \in LiveRows : Latest(k) /\ h = rows[k].hash
    BY <1>1 DEF Anchor
<1> QED BY <1>1, <1>2 DEF Latest, LiveRows

\* A step that adds no row.
LEMMA RetryMoved ==
    ASSUME IInv, IInv', SIInv, RetryOK, Moved, origin' = origin,
           \A p \in Procs : \/ PostRetryOK(p)'
                            \/ /\ serving'[p].seen = serving[p].seen
                               /\ Compared(p)' => Compared(p) /\ req'[p].prev = req[p].prev
    PROVE  RetryOK'
<1>1. rows \in Seq(Row) /\ rows' \in Seq(Row) /\ Grown /\ DOMAIN rows' = DOMAIN rows
    BY MovedGrown DEF IInv, TypeOK, Moved
<1>2. \A p \in Procs : serving[p].seen \in Nat
    BY DEF SIInv, AnyDelivery
<1>3. \A j \in DOMAIN rows : origin[j].seen \in Nat
    <2>1. \A j \in DOMAIN rows : origin[j] \in AnyDelivery
        BY DEF SIInv, OriginsOK, OriginOK
    <2> QED BY <2>1 DEF AnyDelivery
<1>4. \A p \in Procs : PostRetryOK(p)'
    BY <1>1, <1>2, PostRetryKept DEF RetryOK
<1>5. \A j \in DOMAIN rows' : RowRetryOK(j)'
    BY <1>1, <1>3, RowRetryKept DEF RetryOK
<1> QED BY <1>4, <1>5 DEF RetryOK

\* A step that inserts the entry of a post that has compared its prev.
LEMMA RetryCommit ==
    ASSUME IInv, IInv', SIInv, RetryOK, NEW p \in Procs, CommitInsert(p),
           origin' = Append(origin, serving[p]), serving'[p].seen = 0,
           \A q \in Procs \ {p} : serving'[q] = serving[q] /\ req'[q] = req[q]
    PROVE  RetryOK'
<1> DEFINE n == serving[p].seen
<1>0. PICK m \in Nat : m = Len(rows) + 1
    BY DEF IInv, TypeOK
<1>1. PICK new : /\ rows' = Append(rows, new)
                 /\ new.prev = PrevForDB(req[p].prev)
    BY DEF CommitInsert
<1>2. /\ rows \in Seq(Row) /\ rows' \in Seq(Row) /\ Len(rows) \in Nat
      /\ DOMAIN rows = 1..Len(rows) /\ DOMAIN rows' = 1..m
      /\ rows'[m] = new /\ \A i \in DOMAIN rows : rows'[i] = rows[i]
    BY <1>0, <1>1 DEF IInv, TypeOK
<1>3. Grown
    BY <1>0, <1>1, <1>2 DEF Grown
<1>4. origin'[m] = serving[p] /\ \A i \in DOMAIN rows : origin'[i] = origin[i]
    BY <1>0, <1>2 DEF SIInv, OriginsOK
<1>5. /\ \A q \in Procs : serving[q].seen \in Nat
      /\ \A j \in DOMAIN rows : origin[j].seen \in Nat
    <2>1. \A j \in DOMAIN rows : origin[j] \in AnyDelivery
        BY DEF SIInv, OriginsOK, OriginOK
    <2> QED BY <2>1 DEF SIInv, AnyDelivery
<1>6. Compared(p) /\ n <= Len(rows) /\ Outlived(req[p].prev, n)
    BY DEF RetryOK, PostRetryOK, Compared, CommitInsert, At
<1>7. RowRetryOK(m)'
    <2>1. n < m
        BY <1>0, <1>2, <1>5, <1>6
    <2>2. ASSUME NEW i \in 1..n, rows'[i].st = "live"
          PROVE  \E k \in 1..(m - 1) : /\ rows'[k].hash = rows'[m].prev
                                       /\ rows'[i].published_at <= rows'[k].published_at
        <3>0. n \in Nat /\ n <= Len(rows)
            BY <1>5, <1>6
        <3>1. i \in DOMAIN rows /\ rows[i].st = "live"
            <4>1. i \in 1..Len(rows)
                BY <1>2, <3>0
            <4>2. i \in DOMAIN rows
                BY <1>2, <4>1
            <4> QED BY <1>2, <2>2, <4>2
        <3>2. PICK k \in DOMAIN rows : /\ rows[k].hash = req[p].prev
                                       /\ rows[i].published_at <= rows[k].published_at
            BY <1>6, <3>1 DEF Outlived
        <3>3. rows[k] \in Row
            BY <1>2
        <3>4. PrevForDB(req[p].prev) = req[p].prev
            BY <3>2, <3>3, ChainAssumption DEF Row, PrevForDB, ChainAssumption
        <3> QED BY <1>0, <1>1, <1>2, <3>1, <3>2, <3>4
    <2> QED BY <1>4, <2>1, <2>2 DEF RowRetryOK
<1>8. ASSUME NEW j \in DOMAIN rows'
      PROVE  RowRetryOK(j)'
    <2>1. CASE j = m
        BY <1>7, <2>1
    <2>2. CASE j # m
        <3>1. j \in DOMAIN rows
            BY <1>0, <1>2, <2>2
        <3> QED BY <1>2, <1>3, <1>4, <1>5, <3>1, RowRetryKept DEF RetryOK
    <2> QED BY <2>1, <2>2
<1>9. ASSUME NEW q \in Procs
      PROVE  PostRetryOK(q)'
    <2>1. CASE q = p
        <3>1. req'[p].op # "Post"
            BY IdleType DEF CommitInsert, Done, IInv, TypeOK
        <3> QED BY <1>2, <2>1, <3>1 DEF PostRetryOK, Compared
    <2>2. CASE q # p
        BY <1>2, <1>3, <1>5, <2>2, PostRetryKept DEF RetryOK, Compared
    <2> QED BY <2>1, <2>2
<1> QED BY <1>8, <1>9 DEF RetryOK

\* A handler's step keeps it: a post that finds its prev at the head has seen all that
\* was there when it arrived.
LEMMA ServeRetry ==
    ASSUME IInv, IInv', SIInv, RetryOK, NEW p \in Procs, Serve(p)
    PROVE  RetryOK'
<1>1. Handle(p) /\ rows \in Seq(Row) /\ rows' \in Seq(Row)
    BY DEF Serve, IInv, TypeOK
<1>2. serving \in [Procs -> AnyDelivery] /\ serving[p].seen \in Nat
    BY DEF SIInv, AnyDelivery
<1>3. /\ \A q \in Procs \ {p} : serving'[q] = serving[q] /\ req'[q] = req[q]
      /\ req'[p].op = "Post" =>
            /\ req[p].op = "Post" /\ req'[p].prev = req[p].prev
            /\ CheckAnchorForPost(p) \/ req[p].pc \in {"anchored", "inserting"}
    BY <1>1, <1>2, HandleReq DEF Serve
<1>4. req'[p] = Idle => serving'[p].seen = 0 /\ PostRetryOK(p)'
    <2>1. NoDelivery.seen = 0
        BY DEF NoDelivery
    <2>2. req'[p] = Idle => serving'[p].seen = 0
        BY <1>2, <2>1 DEF Serve
    <2> QED BY <1>1, <2>2, IdleType DEF PostRetryOK, Compared
<1>5. CASE CommitInsert(p)
    <2>1. Len(rows') > Len(rows) /\ req'[p] = Idle
        BY <1>5 DEF CommitInsert, Done, IInv, TypeOK
    <2> QED BY <1>3, <1>4, <1>5, <2>1, RetryCommit DEF Serve
<1>6. CASE ~CommitInsert(p)
    <2>1. Moved
        BY <1>1, <1>6, HandleRows
    <2>2. origin' = origin
        BY <1>1, <2>1 DEF Serve, Moved
    <2>3. PostRetryOK(p)' \/ /\ serving'[p].seen = serving[p].seen
                             /\ Compared(p)' => Compared(p) /\ req'[p].prev = req[p].prev
        <3>1. CASE req'[p] = Idle
            BY <1>4, <3>1
        <3>2. CASE req'[p] # Idle /\ CheckAnchorForPost(p)
            <4>1. rows' = rows /\ serving' = serving
                BY <3>2 DEF Serve, CheckAnchorForPost
            <4>2. req[p].prev \in Hash /\ Anchor(req[p].prev)
                BY <3>2 DEF CheckAnchorForPost, At, IInv, PostsOK
            <4>3. serving[p].seen <= Len(rows)
                BY DEF RetryOK, PostRetryOK
            <4>4. Outlived(req[p].prev, serving[p].seen)
                BY <1>1, <1>2, <4>2, <4>3, HeadOutlives
            <4> QED BY <1>3, <4>1, <4>3, <4>4 DEF PostRetryOK, Compared, Outlived
        <3>3. CASE req'[p] # Idle /\ ~CheckAnchorForPost(p)
            BY <1>3, <3>3 DEF Serve, Compared
        <3> QED BY <3>1, <3>2, <3>3
    <2> QED BY <1>3, <2>1, <2>2, <2>3, RetryMoved DEF Compared
<1> QED BY <1>5, <1>6

\* Arriving, and the steps of the verifier, keep it.
LEMMA VerifierRetry ==
    ASSUME IInv, IInv', SIInv, RetryOK, NEW p \in Procs,
           \/ Deliver(p) \/ CheckRequest(p) \/ FetchKey(p) \/ Refuse(p) \/ ArriveBySession(p)
    PROVE  RetryOK'
<1>1. rows' = rows /\ origin' = origin /\ Len(rows) \in Nat
    BY DEF Deliver, CheckRequest, FetchKey, Refuse, ArriveBySession, Arrive, chainVars, IInv, TypeOK
<1>2. /\ serving \in [Procs -> AnyDelivery] /\ req \in [Procs -> RequestType]
      /\ req[p].op = "Post" => serving[p].pc = "verified"
    BY DEF SIInv, ProcOK, ServesOK, IInv, TypeOK, RequestType
<1>3. \A q \in Procs \ {p} : serving'[q] = serving[q] /\ req'[q] = req[q]
    <2>1. (\E v : serving' = [serving EXCEPT ![p] = v]) \/ serving' = serving
        <3>1. CASE Deliver(p)
            BY <3>1 DEF Deliver
        <3>2. CASE Refuse(p) \/ ArriveBySession(p)
            BY <3>2 DEF Refuse, ArriveBySession
        <3>3. CASE CheckRequest(p) \/ FetchKey(p)
            BY <3>3 DEF CheckRequest, FetchKey
        <3> QED BY <3>1, <3>2, <3>3
    <2>2. (\E r : req' = [req EXCEPT ![p] = r]) \/ req' = req
        BY DEF Deliver, CheckRequest, FetchKey, Refuse, ArriveBySession, chainVars, Arrive, Begin
    <2> QED BY <1>2, <2>1, <2>2
<1>4. ~Compared(p)'
    <2>1. CASE Deliver(p)
        BY <2>1, IdleType DEF Deliver, chainVars, Compared
    <2>2. CASE CheckRequest(p) \/ Refuse(p)
        BY <1>2, <2>2 DEF CheckRequest, Refuse, chainVars, Compared
    <2>3. CASE FetchKey(p)
        BY <2>3, RequestFields DEF FetchKey, Compared
    <2>4. CASE ArriveBySession(p)
        BY <2>4 DEF ArriveBySession, Compared
    <2> QED BY <2>1, <2>2, <2>3, <2>4
<1>5. serving'[p].seen = serving[p].seen \/ serving'[p].seen = Len(rows) \/ serving'[p].seen = 0
    <2>1. CASE Deliver(p)
        <3>1. PICK d, g : serving' = [serving EXCEPT ![p] = Delivery("read", d, g)]
            BY <2>1 DEF Deliver
        <3> QED BY <1>2, <3>1 DEF Delivery
    <2>2. CASE CheckRequest(p) \/ FetchKey(p)
        BY <1>2, <2>2 DEF CheckRequest, FetchKey, AnyDelivery
    <2>3. CASE Refuse(p)
        BY <1>2, <2>3 DEF Refuse, NoDelivery
    <2>4. CASE ArriveBySession(p)
        BY <2>4 DEF ArriveBySession
    <2> QED BY <2>1, <2>2, <2>3, <2>4
<1>6. PostRetryOK(p)'
    BY <1>1, <1>4, <1>5 DEF RetryOK, PostRetryOK
<1> QED BY <1>1, <1>3, <1>6, RetryMoved, StayedMoved DEF Compared

\* Every step keeps it: clients, keys and the clock do not come into it.
LEMMA NextRetryOK == IInv /\ IInv' /\ SIInv /\ RetryOK /\ [SigningNext]_signingVars => RetryOK'
<1> SUFFICES ASSUME IInv, IInv', SIInv, RetryOK, [SigningNext]_signingVars PROVE RetryOK'
    OBVIOUS
<1>1. ASSUME Moved, UNCHANGED <<serving, req, origin>>
      PROVE  RetryOK'
    BY <1>1, RetryMoved DEF Compared
<1>2. CASE Purges
    <2>1. rows \in Seq(Row)
        BY DEF IInv, TypeOK
    <2>2. Moved /\ UNCHANGED <<serving, req, origin>>
        BY <1>2, <2>1, PurgeMoves DEF Purges, PurgeExpiredEntries
    <2> QED BY <1>1, <2>2
<1>3. CASE Sign \/ ChangeKeys \/ Tick \/ UNCHANGED signingVars
    <2>1. UNCHANGED <<rows, serving, req, origin>>
        BY <1>3 DEF Sign, ChangeKeys, Tick, signingVars, chainVars
    <2> QED BY <1>1, <2>1, StayedMoved
<1>4. ASSUME NEW p \in Procs,
             \/ Deliver(p) \/ CheckRequest(p) \/ FetchKey(p) \/ Refuse(p)
             \/ Serve(p) \/ ArriveBySession(p)
      PROVE  RetryOK'
    BY <1>4, ServeRetry, VerifierRetry
<1> QED BY <1>2, <1>3, <1>4 DEF SigningNext

\* A post that is sent again after it was stored is stored again only if what it names
\* was published again in between, or the first was deleted, for any number of requests
\* and deliveries.
THEOREM RetriesAreStoredOnce == SigningSpec => []RetryStoredOnce
<1>1. SigningInit => RetryOK
    <2> SUFFICES ASSUME SigningInit PROVE RetryOK
        OBVIOUS
    <2>1. ASSUME NEW p \in Procs PROVE PostRetryOK(p)
        <3>1. serving[p].seen = 0 /\ req[p] = Idle /\ rows = <<>>
            BY DEF SigningInit, Init, NoDelivery
        <3> QED BY <3>1, IdleType DEF PostRetryOK, Compared
    <2>2. DOMAIN rows = {}
        BY DEF SigningInit, Init
    <2> QED BY <2>1, <2>2 DEF RetryOK
<1>2. IInv /\ RetryOK => RetryStoredOnce
    BY DEF RetryOK, RowRetryOK, RetryStoredOnce
<1> QED BY <1>1, <1>2, NextRetryOK, SigningInvariant, PTL DEF SigningSpec
=============================================================================
