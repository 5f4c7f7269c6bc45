------------------------------ MODULE Retention ------------------------------
(***************************************************************************)
(* The thirty-day bin of diarion-core: the rows of users, agents and       *)
(* entries, the handlers that bin, restore and purge them, account         *)
(* self-deletion, and the hourly purge workers.                            *)
(*                                                                         *)
(* A handler is a sequence of autocommitted SQL statements: it reads a row *)
(* (the "check"), and then writes by primary key without repeating the     *)
(* condition.  Every statement is an action of its own, so that other      *)
(* requests, other machines and the workers run in between.  The three     *)
(* explicit transactions (purgeAgentTx, emptyAllTx, softDeleteUserTx) run  *)
(* under READ COMMITTED: rows a transaction has deleted stay visible to    *)
(* the others, and locked, until it commits (variable txDeleted).          *)
(***************************************************************************)
EXTENDS Integers, FiniteSets

CONSTANTS
    Users, Agents, Entries,  \* primary keys; a BIGSERIAL key is never reused
    OwnerOf,                 \* agents.owner_id: no statement updates it
    AgentOf,                 \* entries.agent_id: no statement updates it
    Procs,                   \* requests in flight at once
    Workers,                 \* purge workers: one per running machine
    Grace,                   \* the INTERVAL '30 days', in clock ticks
    MaxTime,                 \* bound on the clock
    BinListLimit,            \* the LIMIT that emptyAllTx lists agents with
    ClientOps,               \* the operations that clients call
    NoId                     \* "no user" / "no target" of a request

ASSUME RetentionAssumption ==
    /\ OwnerOf \in [Agents -> Users]
    /\ AgentOf \in [Entries -> Agents]
    /\ Grace \in Nat /\ Grace > 1
    /\ MaxTime \in Nat
    /\ BinListLimit \in Nat \ {0}
    /\ NoId \notin Users \cup Agents \cup Entries

VARIABLES
    now,        \* the database clock
    users,      \* the rows of the three tables
    agents,
    entries,
    req,        \* the request each process is serving
    txDeleted,  \* entries its open transaction has deleted, not yet committed
    step,       \* statement of RunOnce a worker executes next; 0: waiting
    quiet       \* history: no clock move, no request write since RunOnce began

tables == <<users, agents, entries>>
vars == <<now, users, agents, entries, req, txDeleted, step, quiet>>

-----------------------------------------------------------------------------
(* Rows *)

NULL == -1
Stamp == Nat \cup {NULL}

\* "purged": deleted for itself; "cascaded": deleted because its agent or its
\* owner was.  Both mean that the table has no such row any more.
RowState == {"none", "present", "purged", "cascaded"}
Row == [st : RowState, removed_at : Stamp, hard_delete_at : Stamp]

Present(r) == r.st = "present"
Live(r)    == Present(r) /\ r.removed_at = NULL
InBin(r)   == Present(r) /\ r.removed_at # NULL
Due(r)     == Present(r) /\ r.hard_delete_at # NULL /\ r.hard_delete_at <= now

Fresh(s)  == [st |-> s, removed_at |-> NULL, hard_delete_at |-> NULL]
NoRow     == Fresh("none")
NewRow    == Fresh("present")
Marked(r, at, until) == [st |-> r.st, removed_at |-> at, hard_delete_at |-> until]
SoftDeleted(r) == Marked(r, now, now + Grace)
\* SoftDeleteAgentsByUser: COALESCE keeps what is already there
Coalesce(x, y) == IF x = NULL THEN y ELSE x
CascadeDeleted(r) ==
    Marked(r, Coalesce(r.removed_at, now), Coalesce(r.hard_delete_at, now + Grace))
\* Mutant: RestoreEntry and RestoreAgent that leave hard_delete_at alone
RestoredKeepsDeadline(r) == Marked(r, NULL, r.hard_delete_at)
Restored(r) == Marked(r, NULL, NULL)

\* UPDATE ... WHERE id = i: no row, nothing updated, and no error
Update(table, i, r) == IF Present(table[i]) THEN [table EXCEPT ![i] = r] ELSE table
\* DELETE of the rows D
Delete(table, D, s) == [i \in DOMAIN table |-> IF i \in D THEN Fresh(s) ELSE table[i]]

EntriesOf(a) == {e \in Entries : AgentOf[e] = a}
AgentsOf(u)  == {a \in Agents : OwnerOf[a] = u}
Uncommitted  == UNION {txDeleted[p] : p \in Procs}
LockedByOthers(p) == UNION {txDeleted[q] : q \in Procs \ {p}}

\* ON DELETE RESTRICT: agents D may go once no entry refers to them, apart
\* from the entries S the same transaction has deleted; users D likewise.
AgentsUnreferenced(D, S) ==
    \A e \in Entries \ S : Present(entries[e]) => AgentOf[e] \notin D
UsersUnreferenced(D) ==
    \A a \in Agents : Present(agents[a]) => OwnerOf[a] \notin D

-----------------------------------------------------------------------------
(* Requests *)

UserOps  == {"DeleteMe", "EmptyAll"}
AgentOps == {"CreateAgent", "DeleteAgent", "RestoreAgent", "PurgeAgent"}
EntryOps == {"DeleteEntry", "RestoreEntry", "PurgeEntry"}
SignedOps == {"PostEntry", "DeleteEntry"}
Ops == UserOps \cup AgentOps \cup EntryOps \cup SignedOps

Idle == [op |-> "idle", pc |-> "idle", user |-> NoId, id |-> NoId,
         todo |-> {}, overtaken |-> {}, aged |-> FALSE]
\* Mutant: the two ids of a call in the wrong order
RequestSwapped(op, u, i) == [Idle EXCEPT !.op = op, !.pc = "authed", !.user = i, !.id = u]
Request(op, u, i) == [Idle EXCEPT !.op = op, !.pc = "authed", !.user = u, !.id = i]

At(p, op, pc) == req[p].op = op /\ req[p].pc = pc
Goto(p, pc) == req' = [req EXCEPT ![p].pc = pc]
Done(p) == req' = [req EXCEPT ![p] = Idle]

\* A purge that has found its rows in the bin, and has not deleted them yet
Purging(p) == req[p].op \in {"PurgeEntry", "PurgeAgent", "EmptyAll"} /\ req[p].pc # "authed"

\* The request ends in the restore of row i.  overtaken is a history: the rows that
\* were restored after a purge had found them in the bin.
DoneRestoring(p, i) ==
    req' = [q \in Procs |->
               IF q = p THEN Idle
               ELSE [req[q] EXCEPT !.overtaken = IF Purging(q) THEN @ \cup {i} ELSE @]]

\* A write of a request: the passes under way are no longer undisturbed
Disturb == quiet' = [w \in Workers |-> FALSE]
Reads(p) == UNCHANGED <<now, tables, txDeleted, step, quiet>>
Writes(p) == UNCHANGED <<now, txDeleted, step>> /\ Disturb

\* The session or PAT middleware has found the user, present and not deleted
Authenticate(p, op, u, i) ==
    /\ req[p] = Idle
    /\ Live(users[u])
    /\ req' = [req EXCEPT ![p] = Request(op, u, i)]
    /\ Reads(p)

\* Verify has found an active key, hence a row of the signing agent; it does
\* not look at the owner's account
VerifySigned(p, op, e) ==
    /\ req[p] = Idle
    /\ Present(agents[AgentOf[e]])
    /\ req' = [req EXCEPT ![p] = Request(op, NoId, e)]
    /\ Reads(p)

\* The request ends with no further effect: a failed check (404, 403, 409), an
\* error of the database, the 30 s timeout, a crash of the machine.  An open
\* transaction rolls back.  (A 2xx answer ends in the last write instead.)
Return(p) ==
    /\ req[p] # Idle
    /\ Done(p)
    /\ txDeleted' = [txDeleted EXCEPT ![p] = {}]
    /\ UNCHANGED <<now, tables, step, quiet>>

Owns(p, a) == OwnerOf[a] = req[p].user

-----------------------------------------------------------------------------
(* agents.Create: InsertAgent, then the key; when the key cannot be inserted *)
(* the agent is binned, best effort.                                         *)

InsertAgent(p) ==
    LET a == req[p].id IN
    /\ At(p, "CreateAgent", "authed")
    /\ agents[a] = NoRow
    /\ Present(users[req[p].user])                 \* FK agents.owner_id
    /\ agents' = [agents EXCEPT ![a] = NewRow]
    /\ Goto(p, "inserted")
    /\ UNCHANGED <<users, entries>> /\ Writes(p)

UndoCreate(p) ==
    LET a == req[p].id IN
    /\ At(p, "CreateAgent", "inserted")
    /\ agents' = Update(agents, a, SoftDeleted(agents[a]))
    /\ Done(p)
    /\ UNCHANGED <<users, entries>> /\ Writes(p)

(* agents.Delete *)

LoadOwnedAgent(p) ==
    /\ At(p, "DeleteAgent", "authed")
    /\ Live(agents[req[p].id]) /\ Owns(p, req[p].id)
    /\ Goto(p, "checked")
    /\ Reads(p)

SoftDeleteAgent(p) ==
    LET a == req[p].id IN
    /\ At(p, "DeleteAgent", "checked")
    /\ agents' = Update(agents, a, SoftDeleted(agents[a]))
    /\ Done(p)
    /\ UNCHANGED <<users, entries>> /\ Writes(p)

(* entries.Post: Verify, the live agent, and later the insert *)

GetAgentForPost(p) ==
    /\ At(p, "PostEntry", "authed")
    /\ Live(agents[AgentOf[req[p].id]])
    /\ Goto(p, "checked")
    /\ Reads(p)

InsertEntry(p) ==
    LET e == req[p].id IN
    /\ At(p, "PostEntry", "checked")
    /\ entries[e] = NoRow
    /\ Present(agents[AgentOf[e]])                 \* FK entries.agent_id
    /\ entries' = [entries EXCEPT ![e] = NewRow]
    /\ Done(p)
    /\ UNCHANGED <<users, agents>> /\ Writes(p)

(* entries.Delete: by the session of the owner, or by a signature, which is *)
(* verified after the agent has been read: nothing tells the two orders apart. *)

GetAgentForDelete(p) ==
    LET a == AgentOf[req[p].id] IN
    /\ At(p, "DeleteEntry", "authed")
    /\ Live(agents[a])
    /\ req[p].user # NoId => Owns(p, a)
    /\ Goto(p, "found")
    /\ Reads(p)

GetEntryForDelete(p) ==
    /\ At(p, "DeleteEntry", "found")
    /\ Live(entries[req[p].id])
    /\ Goto(p, "checked")
    /\ Reads(p)

SoftDeleteEntry(p) ==
    LET e == req[p].id IN
    /\ At(p, "DeleteEntry", "checked")
    /\ e \notin LockedByOthers(p)
    /\ entries' = Update(entries, e, SoftDeleted(entries[e]))
    /\ Done(p)
    /\ UNCHANGED <<users, agents>> /\ Writes(p)

(* bin.RestoreEntry and bin.PurgeEntry *)

\* Mutant: the row is found, in the bin or not
GetEntryUnchecked(p, op) ==
    LET e == req[p].id IN
    /\ At(p, op, "authed")
    /\ Owns(p, AgentOf[e]) /\ Present(entries[e])
    /\ Goto(p, "checked")
    /\ Reads(p)

GetEntryInBin(p, op) ==
    LET e == req[p].id IN
    /\ At(p, op, "authed")
    /\ Owns(p, AgentOf[e]) /\ InBin(entries[e])
    /\ Goto(p, "checked")
    /\ Reads(p)

RestoreEntry(p) ==
    LET e == req[p].id IN
    /\ At(p, "RestoreEntry", "checked")
    /\ e \notin LockedByOthers(p)
    /\ entries' = Update(entries, e, Restored(entries[e]))
    /\ DoneRestoring(p, e)
    /\ UNCHANGED <<users, agents>> /\ Writes(p)

HardDeleteEntry(p) ==
    LET e == req[p].id IN
    /\ At(p, "PurgeEntry", "checked")
    /\ e \notin LockedByOthers(p)
    /\ entries' = Update(entries, e, Fresh("purged"))
    /\ Done(p)
    /\ UNCHANGED <<users, agents>> /\ Writes(p)

(* bin.RestoreAgent and bin.PurgeAgent *)

GetBinnedAgentForOwner(p, op) ==
    LET a == req[p].id IN
    /\ At(p, op, "authed")
    /\ Owns(p, a) /\ InBin(agents[a])
    /\ Goto(p, "checked")
    /\ Reads(p)

RestoreAgent(p) ==
    LET a == req[p].id IN
    /\ At(p, "RestoreAgent", "checked")
    /\ agents' = Update(agents, a, Restored(agents[a]))
    /\ DoneRestoring(p, a)
    /\ UNCHANGED <<users, entries>> /\ Writes(p)

PurgeAgentEntries(p) ==
    LET D == {e \in EntriesOf(req[p].id) : Present(entries[e])} IN
    /\ At(p, "PurgeAgent", "checked")
    /\ D \cap LockedByOthers(p) = {}
    /\ txDeleted' = [txDeleted EXCEPT ![p] = D]
    /\ Goto(p, "emptied")
    /\ UNCHANGED <<now, tables, step, quiet>>

\* HardDeleteAgent and Commit
PurgeAgentCommit(p) ==
    LET a == req[p].id IN
    /\ At(p, "PurgeAgent", "emptied")
    /\ AgentsUnreferenced({a}, txDeleted[p])
    /\ agents' = Update(agents, a, Fresh("purged"))
    /\ entries' = Delete(entries, txDeleted[p], "cascaded")
    /\ txDeleted' = [txDeleted EXCEPT ![p] = {}]
    /\ Done(p)
    /\ UNCHANGED <<now, users, step>> /\ Disturb

(* bin.EmptyAll *)

BinnedAgentsOf(u) == {a \in AgentsOf(u) : InBin(agents[a])}

\* ORDER BY removed_at DESC LIMIT n
ListBinnedAgents(p) ==
    LET B == BinnedAgentsOf(req[p].user) IN
    /\ At(p, "EmptyAll", "authed")
    /\ \E L \in SUBSET B :
          /\ IF Cardinality(B) <= BinListLimit THEN L = B
                                               ELSE Cardinality(L) = BinListLimit
          /\ \A a \in L, b \in B \ L : agents[a].removed_at >= agents[b].removed_at
          /\ req' = [req EXCEPT ![p].pc = "listed", ![p].todo = L]
    /\ Reads(p)

EmptyAllCascade(p) ==
    /\ At(p, "EmptyAll", "listed")
    /\ \E a \in req[p].todo :
          LET D == {e \in EntriesOf(a) : Present(entries[e])} IN
          /\ D \cap LockedByOthers(p) = {}
          /\ txDeleted' = [txDeleted EXCEPT ![p] = @ \cup D]
          /\ req' = [req EXCEPT ![p].todo = @ \ {a}]
    /\ UNCHANGED <<now, tables, step, quiet>>

\* Mutant: the join skips the agents that are not in the bin
BinnedEntriesOfBinnedAgents(u) ==
    {e \in Entries : AgentOf[e] \in BinnedAgentsOf(u) /\ InBin(entries[e])}
BinnedEntriesOf(u) == {e \in Entries : OwnerOf[AgentOf[e]] = u /\ InBin(entries[e])}

\* HardDeleteEntriesByOwner
EmptyAllEntries(p) ==
    LET D == BinnedEntriesOf(req[p].user) IN
    /\ At(p, "EmptyAll", "listed") /\ req[p].todo = {}
    /\ D \cap LockedByOthers(p) = {}
    /\ txDeleted' = [txDeleted EXCEPT ![p] = @ \cup D]
    /\ Goto(p, "emptied")
    /\ UNCHANGED <<now, tables, step, quiet>>

\* HardDeleteAgentsByOwner and Commit
EmptyAllCommit(p) ==
    LET D == BinnedAgentsOf(req[p].user) IN
    /\ At(p, "EmptyAll", "emptied")
    /\ AgentsUnreferenced(D, txDeleted[p])
    /\ agents' = Delete(agents, D, "purged")
    /\ entries' = Delete(entries, txDeleted[p], "cascaded")
    /\ txDeleted' = [txDeleted EXCEPT ![p] = {}]
    /\ Done(p)
    /\ UNCHANGED <<now, users, step>> /\ Disturb

(* me.Delete.  Its two statements are one action: the transaction reads    *)
(* nothing that another could change between them, and an agent inserted   *)
(* or restored in between is binned by the second statement.               *)

\* Mutants: the account alone; also the agents that are in the bin already
AgentsLeftAlone(u) == agents
AgentsBinnedAgain(u) ==
    [a \in Agents |-> IF OwnerOf[a] = u /\ Present(agents[a])
                         THEN SoftDeleted(agents[a]) ELSE agents[a]]
SoftDeleteAgentsByUser(u) ==
    [a \in Agents |-> IF OwnerOf[a] = u /\ Live(agents[a])
                         THEN CascadeDeleted(agents[a]) ELSE agents[a]]

SoftDeleteUser(p) ==
    LET u == req[p].user IN
    /\ At(p, "DeleteMe", "authed")
    /\ users' = Update(users, u, SoftDeleted(users[u]))
    /\ agents' = SoftDeleteAgentsByUser(u)
    /\ Done(p)
    /\ UNCHANGED entries /\ Writes(p)

-----------------------------------------------------------------------------
(* The purge worker.  RunOnce is six autocommitted statements and no       *)
(* transaction; the first error ends the pass, and the next tick starts    *)
(* again from the first statement.                                         *)

RunOnce(w) ==
    /\ step[w] = 0
    /\ step' = [step EXCEPT ![w] = 1]
    /\ quiet' = [quiet EXCEPT ![w] = TRUE]
    /\ UNCHANGED <<now, tables, req, txDeleted>>

EndsPass(w) ==
    /\ step' = [step EXCEPT ![w] = 0]
    /\ UNCHANGED <<now, tables, req, txDeleted, quiet>>

\* Any other error of statement step[w], or a crash of the machine and its restart
PassFails(w) ==
    /\ step[w] # 0
    /\ EndsPass(w)

Executes(w, n) ==
    /\ step[w] = n
    /\ step' = [step EXCEPT ![w] = (n + 1) % 7]
    /\ UNCHANGED <<now, req, txDeleted, quiet>>

DueAgents == {a \in Agents : Due(agents[a])}
DueUsers  == {u \in Users : Due(users[u])}
\* Mutants: a cascade that takes only the rows that are due themselves
DueEntriesOfDueAgents == {e \in Entries : Due(entries[e]) /\ AgentOf[e] \in DueAgents}
DueEntriesOfDueUsers ==
    {e \in Entries : Due(entries[e]) /\ OwnerOf[AgentOf[e]] \in DueUsers}
DueAgentsOfDueUsers == {a \in DueAgents : OwnerOf[a] \in DueUsers}
EntriesOfDueAgents == {e \in Entries : Present(entries[e]) /\ AgentOf[e] \in DueAgents}
EntriesOfDueUsers ==
    {e \in Entries : Present(entries[e]) /\ OwnerOf[AgentOf[e]] \in DueUsers}
AgentsOfDueUsers == {a \in Agents : Present(agents[a]) /\ OwnerOf[a] \in DueUsers}

HardDeleteEntriesForExpiredAgents(w) ==
    /\ Executes(w, 1)
    /\ EntriesOfDueAgents \cap Uncommitted = {}
    /\ entries' = Delete(entries, EntriesOfDueAgents, "cascaded")
    /\ UNCHANGED <<users, agents>>

HardDeleteEntriesForExpiredUsers(w) ==
    /\ Executes(w, 2)
    /\ EntriesOfDueUsers \cap Uncommitted = {}
    /\ entries' = Delete(entries, EntriesOfDueUsers, "cascaded")
    /\ UNCHANGED <<users, agents>>

PurgeExpiredEntries(w) ==
    LET D == {e \in Entries : Due(entries[e])} IN
    /\ Executes(w, 3)
    /\ D \cap Uncommitted = {}
    /\ entries' = Delete(entries, D, "purged")
    /\ UNCHANGED <<users, agents>>

HardDeleteAgentsForExpiredUsers(w) ==
    /\ Executes(w, 4)
    /\ AgentsUnreferenced(AgentsOfDueUsers, {})
    /\ agents' = Delete(agents, AgentsOfDueUsers, "cascaded")
    /\ UNCHANGED <<users, entries>>

PurgeExpiredAgents(w) ==
    /\ Executes(w, 5)
    /\ AgentsUnreferenced(DueAgents, {})
    /\ agents' = Delete(agents, DueAgents, "purged")
    /\ UNCHANGED <<users, entries>>

PurgeExpiredUsers(w) ==
    /\ Executes(w, 6)
    /\ UsersUnreferenced(DueUsers)
    /\ users' = Delete(users, DueUsers, "purged")
    /\ UNCHANGED <<agents, entries>>

\* Statement 4, 5 or 6 meets a row that still refers to one it would delete.  A
\* reference that an open transaction is deleting makes it wait instead.
ForeignKeyError(w) ==
    /\ \/ step[w] = 4 /\ ~AgentsUnreferenced(AgentsOfDueUsers, Uncommitted)
       \/ step[w] = 5 /\ ~AgentsUnreferenced(DueAgents, Uncommitted)
       \/ step[w] = 6 /\ ~UsersUnreferenced(DueUsers)
    /\ EndsPass(w)

-----------------------------------------------------------------------------
(* Time, the next-state relation, fairness *)

\* middleware.Timeout ends a request after 30 s, and a tick stands for days: a
\* request may straddle one tick, never two.
Tick ==
    /\ now < MaxTime
    /\ \A p \in Procs : ~req[p].aged
    /\ now' = now + 1
    /\ req' = [p \in Procs |-> [req[p] EXCEPT !.aged = req[p].op # "idle"]]
    /\ Disturb
    /\ UNCHANGED <<tables, txDeleted, step>>

Init ==
    /\ now = 0
    /\ users = [u \in Users |-> NewRow]
    /\ agents = [a \in Agents |-> NoRow]
    /\ entries = [e \in Entries |-> NoRow]
    /\ req = [p \in Procs |-> Idle]
    /\ txDeleted = [p \in Procs |-> {}]
    /\ step = [w \in Workers |-> 0]
    /\ quiet = [w \in Workers |-> FALSE]

Arrive(p) ==
    \/ \E u \in Users :
          \/ \E op \in UserOps \cap ClientOps : Authenticate(p, op, u, NoId)
          \/ \E op \in AgentOps \cap ClientOps, a \in Agents :
                \* a: the key that InsertAgent is about to draw
                /\ op = "CreateAgent" => OwnerOf[a] = u /\ agents[a] = NoRow
                /\ Authenticate(p, op, u, a)
          \/ \E op \in EntryOps \cap ClientOps, e \in Entries : Authenticate(p, op, u, e)
    \/ \E op \in SignedOps \cap ClientOps, e \in Entries :
          /\ op = "PostEntry" => entries[e] = NoRow
          /\ VerifySigned(p, op, e)

Handle(p) ==
    \/ InsertAgent(p) \/ UndoCreate(p)
    \/ LoadOwnedAgent(p) \/ SoftDeleteAgent(p)
    \/ GetAgentForPost(p) \/ InsertEntry(p)
    \/ GetAgentForDelete(p) \/ GetEntryForDelete(p) \/ SoftDeleteEntry(p)
    \/ GetEntryInBin(p, "RestoreEntry") \/ RestoreEntry(p)
    \/ GetEntryInBin(p, "PurgeEntry") \/ HardDeleteEntry(p)
    \/ GetBinnedAgentForOwner(p, "RestoreAgent") \/ RestoreAgent(p)
    \/ GetBinnedAgentForOwner(p, "PurgeAgent") \/ PurgeAgentEntries(p) \/ PurgeAgentCommit(p)
    \/ ListBinnedAgents(p) \/ EmptyAllCascade(p) \/ EmptyAllEntries(p) \/ EmptyAllCommit(p)
    \/ SoftDeleteUser(p)
    \/ Return(p)

Statement(w) ==
    \/ HardDeleteEntriesForExpiredAgents(w)
    \/ HardDeleteEntriesForExpiredUsers(w)
    \/ PurgeExpiredEntries(w)
    \/ HardDeleteAgentsForExpiredUsers(w)
    \/ PurgeExpiredAgents(w)
    \/ PurgeExpiredUsers(w)
    \/ ForeignKeyError(w)

Next ==
    \/ \E p \in Procs : Arrive(p) \/ Handle(p)
    \/ \E w \in Workers : RunOnce(w) \/ Statement(w) \/ PassFails(w)
    \/ Tick

Spec == Init /\ [][Next]_vars

\* A request ends (the 30 s timeout).  The ticker keeps firing.  A statement that
\* waits for a row lock gets it in its turn, and in the end the database and the
\* machine stop failing: from then on only a foreign key can end a pass early.
Fairness ==
    /\ \A p \in Procs : WF_vars(Handle(p))
    /\ \A w \in Workers : WF_vars(RunOnce(w)) /\ SF_vars(Statement(w))
    /\ <>[][\A w \in Workers : PassFails(w) => ForeignKeyError(w)]_vars

FairSpec == Spec /\ Fairness

-----------------------------------------------------------------------------
(* Properties *)

Pcs == {"idle", "authed", "found", "checked", "inserted", "listed", "emptied"}

TablesOK ==
    users \in [Users -> Row] /\ agents \in [Agents -> Row] /\ entries \in [Entries -> Row]

\* The target of a request is a row of the table that its operation works on
RequestsOK ==
    /\ req \in [Procs -> [op : Ops \cup {"idle"}, pc : Pcs, user : Users \cup {NoId},
                         id : Users \cup Agents \cup Entries \cup {NoId},
                         todo : SUBSET Agents, overtaken : SUBSET (Agents \cup Entries),
                         aged : BOOLEAN]]
    /\ \A p \in Procs :
          /\ req[p].op \in AgentOps => req[p].id \in Agents
          /\ req[p].op \in EntryOps \cup SignedOps => req[p].id \in Entries
          /\ req[p].op \in UserOps \cup AgentOps => req[p].user \in Users

\* Every variable has its type.
TypeOK ==
    /\ now \in Nat
    /\ TablesOK
    /\ RequestsOK
    /\ txDeleted \in [Procs -> SUBSET Entries]
    /\ step \in [Workers -> 0..6]
    /\ quiet \in [Workers -> BOOLEAN]

\* The deadline of a row: none outside the bin, and in the bin the full grace
\* period counted from removed_at.
DeadlineOf(r) ==
    IF InBin(r) THEN r.removed_at <= now /\ r.hard_delete_at = r.removed_at + Grace
                ELSE r.removed_at = NULL /\ r.hard_delete_at = NULL

\* The purge statements look at hard_delete_at alone, the handlers and the pages
\* at removed_at (deleted_at) alone.  The two columns agree on every row, in
\* every interleaving: no live row carries a forgotten deadline, no binned row
\* lacks one, and none has a deadline shorter than the grace period.
DeadlineInv ==
    /\ \A u \in Users : DeadlineOf(users[u])
    /\ \A a \in Agents : DeadlineOf(agents[a])
    /\ \A e \in Entries : DeadlineOf(entries[e])

\* The order of the six statements of RunOnce is right: a pass that no request
\* writes into, and that sees one clock, never meets a RESTRICT foreign key,
\* whatever passes other machines run at the same time.
QuietPassUnblocked ==
    \A w \in Workers : quiet[w] =>
        /\ step[w] = 4 => AgentsUnreferenced(AgentsOfDueUsers, {})
        /\ step[w] = 5 => AgentsUnreferenced(DueAgents, {})
        /\ step[w] = 6 => UsersUnreferenced(DueUsers)

WindowOver(r) == r.removed_at # NULL /\ r.removed_at + Grace <= now
WorkerMoves == step' # step
Vanishes(r, s) == Present(r) /\ ~Present(s)

\* What a purge worker destroys had been in the bin for the whole grace period,
\* or its agent or its owner had: no interleaving of bin, restore, bin again and
\* account deletion lets a worker take a row early.
WorkerKeepsWindow ==
    [][WorkerMoves =>
        /\ \A e \in Entries : Vanishes(entries[e], entries'[e]) =>
              \/ WindowOver(entries[e])
              \/ WindowOver(agents[AgentOf[e]])
              \/ WindowOver(users[OwnerOf[AgentOf[e]]])
        /\ \A a \in Agents : Vanishes(agents[a], agents'[a]) =>
              WindowOver(agents[a]) \/ WindowOver(users[OwnerOf[a]])
        /\ \A u \in Users : Vanishes(users[u], users'[u]) => WindowOver(users[u])]_vars

Visible(e) == Live(entries[e]) /\ Live(agents[AgentOf[e]])

\* Request p was there already when row r was marked, as far as the clock tells
SinceArrival(p, r) == now <= r.removed_at + (IF req[p].aged THEN 1 ELSE 0)

\* An entry that the public pages show is hard-deleted in two ways only: with an
\* account that was deleted a grace period ago, or by a purge that its owner asked
\* for, that found the entry or its agent in the bin, and that a restore overtook.
\* No other request, and no restore before the check, costs an entry that is shown.
VisibleGoesThroughBin ==
    [][\A e \in Entries : Visible(e) /\ Vanishes(entries[e], entries'[e]) =>
          \/ WorkerMoves /\ WindowOver(users[OwnerOf[AgentOf[e]]])
          \/ \E p \in Procs : /\ req[p] # Idle /\ req'[p] = Idle
                              /\ Owns(p, AgentOf[e])
                              /\ {e, AgentOf[e]} \cap req[p].overtaken # {}]_vars

\* The deadline of a row in the bin moves by a tick at most, when two deletes of it
\* race: no repeated delete, and no delete of the account, gives what was binned
\* earlier another grace period.
BinDeadlineKept ==
    [][/\ \A a \in Agents : InBin(agents[a]) /\ InBin(agents'[a]) =>
             agents'[a].hard_delete_at <= agents[a].hard_delete_at + 1
       /\ \A e \in Entries : InBin(entries[e]) /\ InBin(entries'[e]) =>
             entries'[e].hard_delete_at <= entries[e].hard_delete_at + 1]_vars

\* When the transaction of EmptyAll commits, nothing of the caller is left in the
\* bin but entries that were binned since it came, and no agent that was not in it
\* has gone.
EmptyAllEmptiesBin ==
    [][\A p \in Procs : EmptyAllCommit(p) =>
          /\ \A a \in AgentsOf(req[p].user) :
                ~InBin(agents'[a]) /\ (Live(agents[a]) => Live(agents'[a]))
          /\ \A e \in Entries : OwnerOf[AgentOf[e]] = req[p].user /\ InBin(entries'[e]) =>
                SinceArrival(p, entries[e])]_vars

\* me/delete.go: "cascade-soft-deletes their agents": the deletion of an account
\* leaves none of its agents live, and none is live again but by a request that the
\* deletion found under way, hence within a tick.
DeletedAccountStaysDown ==
    [][\A a \in Agents :
          LET u == OwnerOf[a] IN
          InBin(users'[u]) /\ Live(agents'[a]) =>
              /\ InBin(users[u])
              /\ Live(agents[a]) \/ now <= users[u].removed_at + 1]_vars

\* Design document 4.2, on agents past their deadline: "Cascade-purge agent +
\* entries + keys (or restore aborts cascade)": an agent that is back has not
\* lost its entries to a cascade.  The code does not keep it.
RestoreAbortsCascade ==
    \A e \in Entries : entries[e].st = "cascaded" => ~Live(agents[AgentOf[e]])

\* A deleted account is gone in the end, with every agent and entry under it,
\* whatever was being created, restored or purged when its deadline passed.
DeletedUserPurged ==
    \A u \in Users : Due(users[u]) ~>
        /\ ~Present(users[u])
        /\ \A a \in AgentsOf(u) : ~Present(agents[a])
        /\ \A e \in Entries : OwnerOf[AgentOf[e]] = u => ~Present(entries[e])

\* No row stays in the bin past its deadline: it is purged, or restored.
DueRowsLeave ==
    /\ \A a \in Agents : Due(agents[a]) ~> ~Due(agents[a])
    /\ \A e \in Entries : Due(entries[e]) ~> ~Due(entries[e])
=============================================================================
