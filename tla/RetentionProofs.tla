--------------------------- MODULE RetentionProofs ---------------------------
(***************************************************************************)
(* Theorems about Retention, for every number of accounts, agents,         *)
(* entries, requests and machines, and every grace period.                 *)
(***************************************************************************)
EXTENDS Retention, TLAPS

-----------------------------------------------------------------------------
(* Rows *)

\* What the statements write is a row.
LEMMA RowTypes ==
    ASSUME now \in Nat
    PROVE  /\ NoRow \in Row /\ NewRow \in Row
           /\ \A s \in RowState : Fresh(s) \in Row
           /\ \A r \in Row : /\ SoftDeleted(r) \in Row
                             /\ CascadeDeleted(r) \in Row
                             /\ Restored(r) \in Row
<1>1. \A s \in RowState : Fresh(s) \in Row
    BY DEF Fresh, Row, RowState, Stamp, NULL
<1>2. NoRow \in Row /\ NewRow \in Row
    BY <1>1 DEF NoRow, NewRow, RowState
<1>3. ASSUME NEW r \in Row
      PROVE  SoftDeleted(r) \in Row /\ CascadeDeleted(r) \in Row /\ Restored(r) \in Row
    <2>1. now + Grace \in Nat
        BY RetentionAssumption DEF RetentionAssumption
    <2>2. /\ r.st \in RowState /\ {now, now + Grace, NULL} \subseteq Stamp
          /\ Coalesce(r.removed_at, now) \in Stamp
          /\ Coalesce(r.hard_delete_at, now + Grace) \in Stamp
        BY <2>1 DEF Row, Stamp, Coalesce
    <2> QED BY <2>2 DEF Row, Marked, SoftDeleted, CascadeDeleted, Restored
<1> QED BY <1>1, <1>2, <1>3

\* What one statement may do to a row: create it, bin it, restore it, delete it
\* or leave it alone.
RowStep(r, s) ==
    \/ s = r
    \/ r = NoRow /\ s = NewRow
    \/ Present(r) /\ s \in {SoftDeleted(r), Restored(r)}
    \/ Live(r) /\ s = CascadeDeleted(r)
    \/ s \in {Fresh("purged"), Fresh("cascaded")}

RowSteps(S, t, u) == u = [i \in S |-> u[i]] /\ \A i \in S : RowStep(t[i], u[i])

\* INSERT, UPDATE, DELETE and no statement at all are such steps of a table.
LEMMA TableStep ==
    ASSUME NEW S, NEW t \in [S -> Row]
    PROVE  /\ RowSteps(S, t, t)
           /\ \A i \in S : t[i] = NoRow => RowSteps(S, t, [t EXCEPT ![i] = NewRow])
           /\ \A i \in S : \A r : (Present(t[i]) => RowStep(t[i], r)) => RowSteps(S, t, Update(t, i, r))
           /\ \A D : \A s \in {"purged", "cascaded"} : RowSteps(S, t, Delete(t, D, s))
<1>1. RowSteps(S, t, t) /\ \A i \in S : t[i] = NoRow => RowSteps(S, t, [t EXCEPT ![i] = NewRow])
    BY DEF RowSteps, RowStep
<1>2. ASSUME NEW i \in S, NEW r, Present(t[i]) => RowStep(t[i], r)
      PROVE  RowSteps(S, t, Update(t, i, r))
    BY <1>1, <1>2 DEF RowSteps, RowStep, Update
<1>3. ASSUME NEW D, NEW s \in {"purged", "cascaded"}
      PROVE  RowSteps(S, t, Delete(t, D, s))
    BY DEF RowSteps, RowStep, Delete
<1> QED BY <1>1, <1>2, <1>3

\* A step of a table keeps its type.
LEMMA RowStepsType ==
    ASSUME now \in Nat, NEW S, NEW t \in [S -> Row], NEW u, RowSteps(S, t, u)
    PROVE  u \in [S -> Row]
<1>1. \A r \in Row : \A s : RowStep(r, s) => s \in Row
    BY RowTypes DEF RowStep, RowState
<1> QED BY <1>1 DEF RowSteps

-----------------------------------------------------------------------------
(* Requests *)

\* A free process has a well-typed request.
LEMMA IdleType ==
    /\ Idle.op = "idle" /\ Idle.pc = "idle" /\ Idle.user = NoId /\ Idle.id = NoId
    /\ Idle.todo = {} /\ Idle.overtaken = {} /\ Idle.aged = FALSE
    /\ Idle \in [op : Ops \cup {"idle"}, pc : Pcs, user : Users \cup {NoId},
                 id : Users \cup Agents \cup Entries \cup {NoId},
                 todo : SUBSET Agents, overtaken : SUBSET (Agents \cup Entries),
                 aged : BOOLEAN]
BY DEF Idle, Pcs

\* A request that moves on, or ends, stays well-typed.
LEMMA GotoType ==
    ASSUME RequestsOK, NEW p \in Procs, NEW pc \in Pcs, Goto(p, pc)
    PROVE  RequestsOK'
BY DEF RequestsOK, Goto

\* Ending a request keeps the type of req.
LEMMA DoneType ==
    ASSUME RequestsOK, NEW p \in Procs, Done(p)
    PROVE  RequestsOK'
BY IdleType DEF RequestsOK, Done, AgentOps, EntryOps, SignedOps, UserOps

\* So does ending it in a restore, which the purges under way are told of.
LEMMA RestoringType ==
    ASSUME RequestsOK, NEW p \in Procs, NEW i \in Agents \cup Entries, DoneRestoring(p, i)
    PROVE  RequestsOK'
<1>1. /\ req' = [q \in Procs |-> req'[q]] /\ req'[p] = Idle
      /\ \A q \in Procs \ {p} :
            \E O \in SUBSET (Agents \cup Entries) : req'[q] = [req[q] EXCEPT !.overtaken = O]
    BY DEF DoneRestoring, RequestsOK
<1> QED BY <1>1, IdleType DEF RequestsOK, AgentOps, EntryOps, SignedOps, UserOps

\* So does one that arrives.
LEMMA ArriveType ==
    ASSUME RequestsOK, NEW p \in Procs, Arrive(p)
    PROVE  RequestsOK'
<1> DEFINE T == [op : Ops \cup {"idle"}, pc : Pcs, user : Users \cup {NoId},
                 id : Users \cup Agents \cup Entries \cup {NoId},
                 todo : SUBSET Agents, overtaken : SUBSET (Agents \cup Entries),
                 aged : BOOLEAN]
<1>1. SUFFICES ASSUME NEW op \in Ops, NEW u \in Users \cup {NoId},
                      NEW i \in Users \cup Agents \cup Entries \cup {NoId},
                      req' = [req EXCEPT ![p] = Request(op, u, i)],
                      op \in AgentOps => i \in Agents,
                      op \in EntryOps \cup SignedOps => i \in Entries,
                      op \in UserOps \cup AgentOps => u \in Users
               PROVE  RequestsOK'
    BY DEF Arrive, Authenticate, VerifySigned, Ops, UserOps, AgentOps, EntryOps, SignedOps
<1>2. /\ Request(op, u, i) \in T
      /\ Request(op, u, i).op = op /\ Request(op, u, i).user = u /\ Request(op, u, i).id = i
    BY DEF Request, Idle, Pcs
<1> QED BY <1>1, <1>2 DEF RequestsOK

\* Every step keeps the requests well-typed.
LEMMA RequestsType ==
    ASSUME RequestsOK, [Next]_vars
    PROVE  RequestsOK'
<1>1. CASE UNCHANGED req
    BY <1>1 DEF RequestsOK
<1>2. ASSUME NEW p \in Procs, Arrive(p)
      PROVE  RequestsOK'
    BY <1>2, ArriveType
<1>3. ASSUME NEW p \in Procs, ListBinnedAgents(p)
      PROVE  RequestsOK'
    <2>1. PICK L \in SUBSET Agents : req' = [req EXCEPT ![p].pc = "listed", ![p].todo = L]
        BY <1>3 DEF ListBinnedAgents, BinnedAgentsOf, AgentsOf
    <2>2. /\ req' = [q \in Procs |-> req'[q]]
          /\ \A q \in Procs \ {p} : req'[q] = req[q]
          /\ req'[p] = [op |-> req[p].op, pc |-> "listed", user |-> req[p].user,
                        id |-> req[p].id, todo |-> L, overtaken |-> req[p].overtaken,
                        aged |-> req[p].aged]
        BY <2>1 DEF RequestsOK
    <2> QED BY <2>2 DEF RequestsOK, Pcs
<1>4. ASSUME NEW p \in Procs, EmptyAllCascade(p)
      PROVE  RequestsOK'
    BY <1>4 DEF RequestsOK, EmptyAllCascade
<1>r. ASSUME NEW p \in Procs, RestoreEntry(p) \/ RestoreAgent(p)
      PROVE  RequestsOK'
    <2>1. PICK i \in Agents \cup Entries : DoneRestoring(p, i)
        BY <1>r DEF RestoreEntry, RestoreAgent, At, RequestsOK, AgentOps, EntryOps
    <2> QED BY <2>1, RestoringType
<1>5. ASSUME NEW p \in Procs, Handle(p), ~ListBinnedAgents(p), ~EmptyAllCascade(p),
             ~RestoreEntry(p), ~RestoreAgent(p)
      PROVE  RequestsOK'
    <2>1. ASSUME NEW pc \in {"found", "checked", "inserted", "emptied"}, Goto(p, pc)
          PROVE  RequestsOK'
        <3>1. pc \in Pcs
            BY DEF Pcs
        <3> QED BY <2>1, <3>1, GotoType
    <2>2. CASE Done(p)
        BY <2>2, DoneType
    <2>3. \/ Done(p) \/ Goto(p, "found") \/ Goto(p, "checked") \/ Goto(p, "inserted")
          \/ Goto(p, "emptied")
        BY <1>5 DEF Handle, InsertAgent, UndoCreate, LoadOwnedAgent, SoftDeleteAgent,
            GetAgentForPost, InsertEntry, GetAgentForDelete, GetEntryForDelete, SoftDeleteEntry,
            GetEntryInBin, HardDeleteEntry, GetBinnedAgentForOwner, PurgeAgentEntries,
            PurgeAgentCommit, EmptyAllEntries, EmptyAllCommit, SoftDeleteUser, Return
    <2> QED BY <2>1, <2>2, <2>3
<1>6. ASSUME NEW p \in Procs, Handle(p)
      PROVE  RequestsOK'
    <2>1. CASE ListBinnedAgents(p)
        BY <2>1, <1>3
    <2>2. CASE EmptyAllCascade(p)
        BY <2>2, <1>4
    <2>3. CASE RestoreEntry(p) \/ RestoreAgent(p)
        BY <2>3, <1>r
    <2>4. CASE /\ ~ListBinnedAgents(p) /\ ~EmptyAllCascade(p)
               /\ ~RestoreEntry(p) /\ ~RestoreAgent(p)
        BY <1>6, <2>4, <1>5
    <2> QED BY <2>1, <2>2, <2>3, <2>4
<1>7. CASE Tick
    BY <1>7 DEF Tick, RequestsOK
<1>8. ASSUME NEW w \in Workers, RunOnce(w) \/ Statement(w) \/ PassFails(w)
      PROVE  UNCHANGED req
    BY <1>8 DEF RunOnce, Statement, PassFails, ForeignKeyError, EndsPass, Executes,
        HardDeleteEntriesForExpiredAgents, HardDeleteEntriesForExpiredUsers,
        PurgeExpiredEntries, HardDeleteAgentsForExpiredUsers, PurgeExpiredAgents,
        PurgeExpiredUsers
<1> QED BY <1>1, <1>2, <1>6, <1>7, <1>8 DEF Next, vars

-----------------------------------------------------------------------------
(* The tables *)

AllRowSteps ==
    /\ RowSteps(Users, users, users')
    /\ RowSteps(Agents, agents, agents')
    /\ RowSteps(Entries, entries, entries')

\* A statement of a handler does nothing else to a row.
LEMMA HandleRows ==
    ASSUME TypeOK, NEW p \in Procs, Handle(p)
    PROVE  now' = now /\ AllRowSteps
<1> DEFINE i == req[p].id
<1> USE DEF AllRowSteps
<1>s. /\ RowSteps(Users, users, users) /\ RowSteps(Agents, agents, agents)
      /\ RowSteps(Entries, entries, entries)
    BY TableStep DEF TypeOK, TablesOK
<1>a. ASSUME req[p].op \in AgentOps
      PROVE  /\ i \in Agents
             /\ agents[i] = NoRow => RowSteps(Agents, agents, [agents EXCEPT ![i] = NewRow])
             /\ \A r : (Present(agents[i]) => RowStep(agents[i], r)) =>
                          RowSteps(Agents, agents, Update(agents, i, r))
    BY <1>a, TableStep DEF TypeOK, TablesOK, RequestsOK
<1>e. ASSUME req[p].op \in EntryOps \cup SignedOps
      PROVE  /\ i \in Entries
             /\ entries[i] = NoRow => RowSteps(Entries, entries, [entries EXCEPT ![i] = NewRow])
             /\ \A r : (Present(entries[i]) => RowStep(entries[i], r)) =>
                          RowSteps(Entries, entries, Update(entries, i, r))
    BY <1>e, TableStep DEF TypeOK, TablesOK, RequestsOK
<1>d. /\ \A D : \A s \in {"purged", "cascaded"} : RowSteps(Agents, agents, Delete(agents, D, s))
      /\ \A D : \A s \in {"purged", "cascaded"} : RowSteps(Entries, entries, Delete(entries, D, s))
    BY TableStep DEF TypeOK, TablesOK
<1>1. CASE InsertAgent(p)
    BY <1>1, <1>s, <1>a DEF InsertAgent, Writes, At, AgentOps
<1>2. CASE UndoCreate(p)
    BY <1>2, <1>s, <1>a DEF UndoCreate, Writes, At, AgentOps, RowStep
<1>3. CASE SoftDeleteAgent(p)
    BY <1>3, <1>s, <1>a DEF SoftDeleteAgent, Writes, At, AgentOps, RowStep
<1>4. CASE InsertEntry(p)
    BY <1>4, <1>s, <1>e DEF InsertEntry, Writes, At, SignedOps
<1>5. CASE SoftDeleteEntry(p)
    BY <1>5, <1>s, <1>e DEF SoftDeleteEntry, Writes, At, EntryOps, RowStep
<1>6. CASE RestoreEntry(p)
    BY <1>6, <1>s, <1>e DEF RestoreEntry, Writes, At, EntryOps, RowStep
<1>7. CASE HardDeleteEntry(p)
    BY <1>7, <1>s, <1>e DEF HardDeleteEntry, Writes, At, EntryOps, RowStep
<1>8. CASE RestoreAgent(p)
    BY <1>8, <1>s, <1>a DEF RestoreAgent, Writes, At, AgentOps, RowStep
<1>9. CASE PurgeAgentCommit(p)
    BY <1>9, <1>s, <1>a, <1>d DEF PurgeAgentCommit, At, AgentOps, RowStep
<1>10. CASE EmptyAllCommit(p)
    BY <1>10, <1>s, <1>d DEF EmptyAllCommit
<1>11. CASE SoftDeleteUser(p)
    <2>1. req[p].user \in Users
        BY <1>11 DEF SoftDeleteUser, TypeOK, RequestsOK, At, UserOps
    <2>2. RowSteps(Users, users, users')
        BY <1>11, <2>1, TableStep DEF SoftDeleteUser, TypeOK, TablesOK, RowStep
    <2>3. RowSteps(Agents, agents, agents')
        BY <1>11 DEF SoftDeleteUser, SoftDeleteAgentsByUser, RowSteps, RowStep
    <2> QED BY <1>11, <1>s, <2>2, <2>3 DEF SoftDeleteUser, Writes
<1>12. CASE UNCHANGED <<now, tables>>
    BY <1>12, <1>s DEF tables
<1>13. UNCHANGED <<now, tables>> \/ InsertAgent(p) \/ UndoCreate(p) \/ SoftDeleteAgent(p)
           \/ InsertEntry(p) \/ SoftDeleteEntry(p) \/ RestoreEntry(p) \/ HardDeleteEntry(p)
           \/ RestoreAgent(p) \/ PurgeAgentCommit(p) \/ EmptyAllCommit(p) \/ SoftDeleteUser(p)
    BY DEF Handle, LoadOwnedAgent, GetAgentForPost, GetAgentForDelete, GetEntryForDelete, GetEntryInBin,
        GetBinnedAgentForOwner, PurgeAgentEntries, ListBinnedAgents, EmptyAllCascade,
        EmptyAllEntries, Return, Reads
<1> QED BY <1>1, <1>2, <1>3, <1>4, <1>5, <1>6, <1>7, <1>8, <1>9, <1>10, <1>11, <1>12, <1>13

\* Nor does a statement of a worker.
LEMMA WorkerRows ==
    ASSUME TypeOK, NEW w \in Workers, RunOnce(w) \/ Statement(w) \/ PassFails(w)
    PROVE  now' = now /\ AllRowSteps
<1>1. /\ RowSteps(Users, users, users) /\ RowSteps(Agents, agents, agents)
      /\ RowSteps(Entries, entries, entries)
    BY TableStep DEF TypeOK, TablesOK
<1>2. \A D : \A s \in {"purged", "cascaded"} :
         /\ RowSteps(Users, users, Delete(users, D, s))
         /\ RowSteps(Agents, agents, Delete(agents, D, s))
         /\ RowSteps(Entries, entries, Delete(entries, D, s))
    BY TableStep DEF TypeOK, TablesOK
<1>3. now' = now
    BY DEF RunOnce, Statement, PassFails, ForeignKeyError, EndsPass, Executes,
        HardDeleteEntriesForExpiredAgents, HardDeleteEntriesForExpiredUsers,
        PurgeExpiredEntries, HardDeleteAgentsForExpiredUsers, PurgeExpiredAgents,
        PurgeExpiredUsers
<1>4. AllRowSteps
    BY <1>1, <1>2 DEF AllRowSteps, RunOnce, Statement, PassFails, ForeignKeyError, EndsPass,
        tables, HardDeleteEntriesForExpiredAgents, HardDeleteEntriesForExpiredUsers,
        PurgeExpiredEntries, HardDeleteAgentsForExpiredUsers, PurgeExpiredAgents,
        PurgeExpiredUsers
<1> QED BY <1>3, <1>4

\* A step of the system is such a step of every row at one clock, or a move of
\* the clock that leaves the rows alone.
LEMMA NextRows ==
    ASSUME TypeOK, [Next]_vars
    PROVE  (now' = now /\ AllRowSteps) \/ (now' = now + 1 /\ UNCHANGED tables)
<1>1. CASE UNCHANGED <<now, tables>>
    BY <1>1, TableStep DEF AllRowSteps, TypeOK, TablesOK, tables
<1>2. ASSUME NEW p \in Procs, Arrive(p)
      PROVE  UNCHANGED <<now, tables>>
    BY <1>2 DEF Arrive, Authenticate, VerifySigned, Reads
<1>3. CASE Tick
    BY <1>3 DEF Tick
<1> QED BY <1>1, <1>2, <1>3, HandleRows, WorkerRows DEF Next, vars, tables

-----------------------------------------------------------------------------
(* Type correctness *)

\* The initial state is well typed.
LEMMA InitType == Init => TypeOK
<1> SUFFICES ASSUME Init PROVE TypeOK
    OBVIOUS
<1>1. TablesOK
    BY RowTypes DEF Init, TablesOK
<1>2. RequestsOK
    BY IdleType DEF Init, RequestsOK, AgentOps, EntryOps, SignedOps, UserOps
<1> QED BY <1>1, <1>2 DEF Init, TypeOK

\* Every step keeps the types: HandleRows and WorkerRows for the tables, RequestsType for req.
LEMMA NextType == TypeOK /\ [Next]_vars => TypeOK'
<1> SUFFICES ASSUME TypeOK, [Next]_vars PROVE TypeOK'
    OBVIOUS
<1>1. RequestsOK'
    BY RequestsType DEF TypeOK
<1>2. now' \in Nat /\ TablesOK'
    BY NextRows, RowStepsType DEF TypeOK, TablesOK, AllRowSteps, tables
<1>3. txDeleted' \in [Procs -> SUBSET Entries]
    <2>1. CASE UNCHANGED txDeleted
        BY <2>1 DEF TypeOK
    <2>2. ASSUME NEW p \in Procs, Handle(p)
          PROVE  UNCHANGED txDeleted \/ \E D \in SUBSET Entries : txDeleted' = [txDeleted EXCEPT ![p] = D]
        <3>1. CASE EmptyAllCascade(p)
            BY <3>1 DEF EmptyAllCascade, EntriesOf, TypeOK
        <3>2. CASE EmptyAllEntries(p)
            BY <3>2 DEF EmptyAllEntries, BinnedEntriesOf, TypeOK
        <3>3. CASE PurgeAgentEntries(p)
            BY <3>3 DEF PurgeAgentEntries, EntriesOf
        <3>4. CASE PurgeAgentCommit(p) \/ EmptyAllCommit(p) \/ Return(p)
            BY <3>4 DEF PurgeAgentCommit, EmptyAllCommit, Return
        <3> QED BY <2>2, <3>1, <3>2, <3>3, <3>4 DEF Handle, InsertAgent, UndoCreate,
            LoadOwnedAgent, SoftDeleteAgent, GetAgentForPost, InsertEntry, GetAgentForDelete, GetEntryForDelete,
            SoftDeleteEntry, GetEntryInBin, RestoreEntry, HardDeleteEntry,
            GetBinnedAgentForOwner, RestoreAgent, ListBinnedAgents, SoftDeleteUser,
            Reads, Writes
    <2>3. ASSUME NEW p \in Procs, Arrive(p)
          PROVE  UNCHANGED txDeleted
        BY <2>3 DEF Arrive, Authenticate, VerifySigned, Reads
    <2>4. ASSUME NEW w \in Workers, RunOnce(w) \/ Statement(w) \/ PassFails(w)
          PROVE  UNCHANGED txDeleted
        BY <2>4 DEF RunOnce, Statement, PassFails, ForeignKeyError, EndsPass, Executes,
            HardDeleteEntriesForExpiredAgents, HardDeleteEntriesForExpiredUsers,
            PurgeExpiredEntries, HardDeleteAgentsForExpiredUsers, PurgeExpiredAgents,
            PurgeExpiredUsers
    <2>5. CASE Tick
        BY <2>5, <2>1 DEF Tick
    <2> QED BY <2>1, <2>2, <2>3, <2>4, <2>5 DEF Next, vars, TypeOK
<1>4. step' \in [Workers -> 0..6] /\ quiet' \in [Workers -> BOOLEAN]
    <2>1. CASE UNCHANGED <<step, quiet>>
        BY <2>1 DEF TypeOK
    <2>2. ASSUME NEW p \in Procs, Arrive(p) \/ Handle(p)
          PROVE  UNCHANGED step /\ (UNCHANGED quiet \/ Disturb)
        BY <2>2 DEF Arrive, Authenticate, VerifySigned, Handle, InsertAgent, UndoCreate,
            LoadOwnedAgent, SoftDeleteAgent, GetAgentForPost, InsertEntry, GetAgentForDelete, GetEntryForDelete,
            SoftDeleteEntry, GetEntryInBin, RestoreEntry, HardDeleteEntry,
            GetBinnedAgentForOwner, RestoreAgent, PurgeAgentEntries, PurgeAgentCommit,
            ListBinnedAgents, EmptyAllCascade, EmptyAllEntries, EmptyAllCommit,
            SoftDeleteUser, Return, Reads, Writes
    <2>3. ASSUME NEW w \in Workers, RunOnce(w)
          PROVE  step' = [step EXCEPT ![w] = 1] /\ quiet' = [quiet EXCEPT ![w] = TRUE]
        BY <2>3 DEF RunOnce
    <2>4. ASSUME NEW w \in Workers, Statement(w) \/ PassFails(w)
          PROVE  UNCHANGED quiet /\ \E n \in 0..6 : step' = [step EXCEPT ![w] = n]
        BY <2>4 DEF Statement, PassFails, ForeignKeyError, EndsPass, Executes,
            HardDeleteEntriesForExpiredAgents, HardDeleteEntriesForExpiredUsers,
            PurgeExpiredEntries, HardDeleteAgentsForExpiredUsers, PurgeExpiredAgents,
            PurgeExpiredUsers
    <2>5. Disturb => quiet' \in [Workers -> BOOLEAN]
        BY DEF Disturb
    <2>6. CASE Tick
        BY <2>5, <2>6 DEF Tick, TypeOK
    <2>7. CASE \E p \in Procs : Arrive(p) \/ Handle(p)
        BY <2>2, <2>5, <2>7 DEF TypeOK
    <2>8. CASE \E w \in Workers : RunOnce(w)
        <3>1. PICK w \in Workers : RunOnce(w)
            BY <2>8
        <3>2. step' = [step EXCEPT ![w] = 1] /\ quiet' = [quiet EXCEPT ![w] = TRUE]
            BY <2>3, <3>1
        <3> QED BY <3>1, <3>2 DEF TypeOK
    <2>9. CASE \E w \in Workers : Statement(w) \/ PassFails(w)
        <3>1. PICK w \in Workers : Statement(w) \/ PassFails(w)
            BY <2>9
        <3>2. PICK n \in 0..6 : step' = [step EXCEPT ![w] = n]
            BY <2>4, <3>1
        <3> QED BY <2>4, <3>1, <3>2 DEF TypeOK
    <2> QED BY <2>1, <2>6, <2>7, <2>8, <2>9 DEF Next, vars
<1> QED BY <1>1, <1>2, <1>3, <1>4 DEF TypeOK

\* Type correctness: in every behaviour of the handlers and the workers, every
\* variable has its type.
THEOREM TypeCorrect == Spec => []TypeOK
<1> QED BY InitType, NextType, PTL DEF Spec

-----------------------------------------------------------------------------
(* The two columns of the bin *)

\* The inductive fact about one row: whatever one statement does to it, the two
\* columns still agree.
LEMMA RowStepDeadline ==
    ASSUME now \in Nat, NEW r \in Row, NEW s, DeadlineOf(r), RowStep(r, s)
    PROVE  DeadlineOf(s)
<1> USE RetentionAssumption DEF RetentionAssumption
<1>1. CASE s = r
    BY <1>1
<1>2. CASE s \in {NewRow, Fresh("purged"), Fresh("cascaded")}
    BY <1>2 DEF NewRow, Fresh, DeadlineOf, InBin, Present
<1>3. CASE s = Restored(r)
    BY <1>3 DEF Restored, Marked, DeadlineOf, InBin, Present
<1>4. CASE Present(r) /\ s = SoftDeleted(r)
    BY <1>4 DEF SoftDeleted, Marked, DeadlineOf, InBin, Present, NULL
<1>5. CASE Live(r) /\ s = CascadeDeleted(r)
    <2>1. r.removed_at = NULL /\ r.hard_delete_at = NULL
        BY <1>5 DEF DeadlineOf, InBin, Live
    <2>2. s = SoftDeleted(r)
        BY <1>5, <2>1 DEF CascadeDeleted, SoftDeleted, Coalesce
    <2> QED BY <1>4, <1>5, <2>2 DEF Live
<1> QED BY <1>1, <1>2, <1>3, <1>4, <1>5 DEF RowStep

\* Every step keeps the two columns in agreement, since every row takes a RowStep.
LEMMA NextDeadline == TypeOK /\ DeadlineInv /\ [Next]_vars => DeadlineInv'
<1> SUFFICES ASSUME TypeOK, DeadlineInv, [Next]_vars PROVE DeadlineInv'
    OBVIOUS
<1>1. CASE now' = now /\ AllRowSteps
    <2>1. ASSUME NEW S, NEW t \in [S -> Row], NEW u, \A i \in S : DeadlineOf(t[i]),
                 RowSteps(S, t, u)
          PROVE  \A i \in S : DeadlineOf(u[i])
        BY <2>1, RowStepDeadline DEF TypeOK, RowSteps
    <2>2. /\ \A i \in Users : DeadlineOf(users'[i])
          /\ \A i \in Agents : DeadlineOf(agents'[i])
          /\ \A i \in Entries : DeadlineOf(entries'[i])
        BY <1>1, <2>1 DEF AllRowSteps, TypeOK, TablesOK, DeadlineInv
    <2> QED BY <1>1, <2>2 DEF DeadlineInv, DeadlineOf, InBin, Present
<1>2. CASE now' = now + 1 /\ UNCHANGED tables
    BY <1>2 DEF DeadlineInv, DeadlineOf, InBin, Present, TypeOK, TablesOK, tables,
        Row, Stamp, NULL
<1> QED BY <1>1, <1>2, NextRows

\* On every row of the three tables removed_at and hard_delete_at agree, and a
\* deadline is never shorter than the grace period, in every interleaving of
\* requests, failures, purges and restarts.
THEOREM DeadlinesAgree == Spec => []DeadlineInv
<1>1. Init => DeadlineInv
    BY DEF Init, DeadlineInv, DeadlineOf, InBin, Present, NewRow, NoRow, Fresh
<1> QED BY <1>1, NextDeadline, TypeCorrect, PTL DEF Spec

-----------------------------------------------------------------------------
(* What a worker destroys *)

StatementOf(w) ==
    \/ HardDeleteEntriesForExpiredAgents(w) \/ HardDeleteEntriesForExpiredUsers(w)
    \/ PurgeExpiredEntries(w) \/ HardDeleteAgentsForExpiredUsers(w)
    \/ PurgeExpiredAgents(w) \/ PurgeExpiredUsers(w)

\* A handler and the clock do not move a worker; and where a worker moves without
\* executing a statement, the tables stay as they are.
LEMMA MovesByStatement ==
    ASSUME [Next]_vars, WorkerMoves
    PROVE  UNCHANGED tables \/ \E w \in Workers : StatementOf(w)
<1>1. CASE UNCHANGED vars
    BY <1>1 DEF vars, WorkerMoves
<1>2. ASSUME NEW p \in Procs, Arrive(p) \/ Handle(p)
      PROVE  UNCHANGED step
    BY <1>2 DEF Arrive, Authenticate, VerifySigned, Handle, InsertAgent, UndoCreate,
        LoadOwnedAgent, SoftDeleteAgent, GetAgentForPost, InsertEntry, GetAgentForDelete, GetEntryForDelete,
        SoftDeleteEntry, GetEntryInBin, RestoreEntry, HardDeleteEntry,
        GetBinnedAgentForOwner, RestoreAgent, PurgeAgentEntries, PurgeAgentCommit,
        ListBinnedAgents, EmptyAllCascade, EmptyAllEntries, EmptyAllCommit,
        SoftDeleteUser, Return, Reads, Writes
<1>3. Tick => UNCHANGED step
    BY DEF Tick
<1>4. ASSUME NEW w \in Workers, RunOnce(w) \/ Statement(w) \/ PassFails(w)
      PROVE  UNCHANGED tables \/ StatementOf(w)
    BY <1>4 DEF RunOnce, Statement, StatementOf, PassFails, ForeignKeyError, EndsPass
<1> QED BY <1>1, <1>2, <1>3, <1>4 DEF Next, WorkerMoves

\* What hard_delete_at calls due has been in the bin for the grace period.
LEMMA DueIsOver ==
    ASSUME NEW r \in Row, DeadlineOf(r), Due(r)
    PROVE  WindowOver(r)
BY RetentionAssumption DEF RetentionAssumption, DeadlineOf, Due, InBin, WindowOver,
    Row, Stamp, NULL

\* A row that DELETE takes was in its set.
LEMMA DeleteTakes ==
    ASSUME NEW S, NEW t \in [S -> Row], NEW D, NEW s \in RowState, NEW i \in S,
           Vanishes(t[i], Delete(t, D, s)[i])
    PROVE  i \in D
BY DEF Vanishes, Delete

\* No interleaving of bins, restores, account deletions and passes of several
\* machines lets a purge worker take a row before its thirty days, or those of
\* its agent or its owner, are over.
THEOREM WindowKept == Spec => WorkerKeepsWindow
<1> DEFINE Kept ==
        /\ \A e \in Entries : Vanishes(entries[e], entries'[e]) =>
              \/ WindowOver(entries[e])
              \/ WindowOver(agents[AgentOf[e]])
              \/ WindowOver(users[OwnerOf[AgentOf[e]]])
        /\ \A a \in Agents : Vanishes(agents[a], agents'[a]) =>
              WindowOver(agents[a]) \/ WindowOver(users[OwnerOf[a]])
        /\ \A u \in Users : Vanishes(users[u], users'[u]) => WindowOver(users[u])
<1>1. ASSUME TypeOK, DeadlineInv, [Next]_vars, WorkerMoves
      PROVE  Kept
    <2>1. CASE UNCHANGED tables
        BY <2>1 DEF tables, Vanishes
    <2>2. /\ \A e \in Entries : Due(entries[e]) => WindowOver(entries[e])
          /\ \A a \in Agents : Due(agents[a]) => WindowOver(agents[a])
          /\ \A u \in Users : Due(users[u]) => WindowOver(users[u])
        BY <1>1, DueIsOver DEF TypeOK, TablesOK, DeadlineInv
    <2>3. /\ \A a \in Agents : OwnerOf[a] \in Users
          /\ \A e \in Entries : AgentOf[e] \in Agents
        BY RetentionAssumption DEF RetentionAssumption
    <2>4. ASSUME NEW w \in Workers, StatementOf(w)
          PROVE  Kept
        <3>1. CASE HardDeleteEntriesForExpiredAgents(w)
            BY <1>1, <3>1, <2>2, <2>3, DeleteTakes DEF HardDeleteEntriesForExpiredAgents,
                EntriesOfDueAgents, DueAgents, TypeOK, TablesOK, RowState, Vanishes
        <3>2. CASE HardDeleteEntriesForExpiredUsers(w)
            BY <1>1, <3>2, <2>2, <2>3, DeleteTakes DEF HardDeleteEntriesForExpiredUsers,
                EntriesOfDueUsers, DueUsers, TypeOK, TablesOK, RowState, Vanishes
        <3>3. CASE PurgeExpiredEntries(w)
            BY <1>1, <3>3, <2>2, DeleteTakes DEF PurgeExpiredEntries,
                TypeOK, TablesOK, RowState, Vanishes
        <3>4. CASE HardDeleteAgentsForExpiredUsers(w)
            BY <1>1, <3>4, <2>2, <2>3, DeleteTakes DEF HardDeleteAgentsForExpiredUsers,
                AgentsOfDueUsers, DueUsers, TypeOK, TablesOK, RowState, Vanishes
        <3>5. CASE PurgeExpiredAgents(w)
            BY <1>1, <3>5, <2>2, DeleteTakes DEF PurgeExpiredAgents, DueAgents,
                TypeOK, TablesOK, RowState, Vanishes
        <3>6. CASE PurgeExpiredUsers(w)
            BY <1>1, <3>6, <2>2, DeleteTakes DEF PurgeExpiredUsers, DueUsers,
                TypeOK, TablesOK, RowState, Vanishes
        <3> QED BY <2>4, <3>1, <3>2, <3>3, <3>4, <3>5, <3>6 DEF StatementOf
    <2> QED BY <1>1, <2>1, <2>4, MovesByStatement
<1>2. TypeOK /\ DeadlineInv /\ [Next]_vars => [WorkerMoves => Kept]_vars
    BY <1>1
<1> QED BY <1>2, TypeCorrect, DeadlinesAgree, PTL DEF Spec, WorkerKeepsWindow

-----------------------------------------------------------------------------
(* The order of the statements of a pass *)

\* What the statements behind a pass have emptied stays empty as long as nothing
\* disturbs it.
QuietInv ==
    \A w \in Workers : quiet[w] =>
        /\ step[w] > 1 => EntriesOfDueAgents = {}
        /\ step[w] > 2 => EntriesOfDueUsers = {}
        /\ step[w] > 4 => AgentsOfDueUsers = {}
        /\ step[w] > 5 => DueAgents = {}

\* What QuietInv says of the statement a worker has reached is what its foreign keys ask.
LEMMA QuietImplies == TypeOK /\ QuietInv => QuietPassUnblocked
BY RetentionAssumption DEF RetentionAssumption, TypeOK, QuietInv, QuietPassUnblocked,
    EntriesOfDueAgents, EntriesOfDueUsers, AgentsOfDueUsers, DueAgents,
    AgentsUnreferenced, UsersUnreferenced

\* A request writes nothing, or it disturbs every pass.
LEMMA RequestsDisturb ==
    ASSUME NEW p \in Procs, Arrive(p) \/ Handle(p)
    PROVE  Disturb \/ UNCHANGED <<now, tables, step, quiet>>
BY DEF Arrive, Authenticate, VerifySigned, Handle, InsertAgent, UndoCreate,
    LoadOwnedAgent, SoftDeleteAgent, GetAgentForPost, InsertEntry, GetAgentForDelete, GetEntryForDelete,
    SoftDeleteEntry, GetEntryInBin, RestoreEntry, HardDeleteEntry,
    GetBinnedAgentForOwner, RestoreAgent, PurgeAgentEntries, PurgeAgentCommit,
    ListBinnedAgents, EmptyAllCascade, EmptyAllEntries, EmptyAllCommit,
    SoftDeleteUser, Return, Reads, Writes

\* A statement of a pass only removes rows.
LEMMA StatementsRemove ==
    ASSUME TypeOK, NEW w \in Workers, StatementOf(w)
    PROVE  /\ now' = now
           /\ \A u \in Users : users'[u] = users[u] \/ ~Present(users'[u])
           /\ \A a \in Agents : agents'[a] = agents[a] \/ ~Present(agents'[a])
           /\ \A e \in Entries : entries'[e] = entries[e] \/ ~Present(entries'[e])
BY DEF StatementOf, Executes, Delete, Fresh, Present, TypeOK, TablesOK,
    HardDeleteEntriesForExpiredAgents, HardDeleteEntriesForExpiredUsers,
    PurgeExpiredEntries, HardDeleteAgentsForExpiredUsers, PurgeExpiredAgents,
    PurgeExpiredUsers

\* As long as rows are only removed and the clock stands, what nobody is due for stays so.
LEMMA EmptyStaysEmpty ==
    ASSUME now' = now,
           \A u \in Users : users'[u] = users[u] \/ ~Present(users'[u]),
           \A a \in Agents : agents'[a] = agents[a] \/ ~Present(agents'[a]),
           \A e \in Entries : entries'[e] = entries[e] \/ ~Present(entries'[e])
    PROVE  /\ EntriesOfDueAgents = {} => EntriesOfDueAgents' = {}
           /\ EntriesOfDueUsers = {} => EntriesOfDueUsers' = {}
           /\ AgentsOfDueUsers = {} => AgentsOfDueUsers' = {}
           /\ DueAgents = {} => DueAgents' = {}
BY RetentionAssumption DEF RetentionAssumption, EntriesOfDueAgents, EntriesOfDueUsers,
    AgentsOfDueUsers, DueAgents, DueUsers, Due, Present

\* Every step keeps QuietInv: a request or a tick ends the quiet, a statement only removes rows.
LEMMA NextQuiet == TypeOK /\ QuietInv /\ [Next]_vars => QuietInv'
<1> SUFFICES ASSUME TypeOK, QuietInv, [Next]_vars PROVE QuietInv'
    OBVIOUS
<1>1. CASE Disturb
    BY <1>1 DEF Disturb, QuietInv
<1>2. CASE UNCHANGED <<now, tables, step, quiet>>
    BY <1>2 DEF tables, QuietInv, EntriesOfDueAgents, EntriesOfDueUsers,
        AgentsOfDueUsers, DueAgents, DueUsers, Due, Present
<1>3. CASE Tick
    BY <1>1, <1>3 DEF Tick
<1>4. ASSUME NEW w \in Workers, RunOnce(w) \/ PassFails(w) \/ ForeignKeyError(w)
      PROVE  QuietInv'
    <2>1. /\ UNCHANGED <<now, tables>>
          /\ \A v \in Workers \ {w} : step'[v] = step[v] /\ quiet'[v] = quiet[v]
          /\ step'[w] \in {0, 1}
        BY <1>4 DEF RunOnce, PassFails, ForeignKeyError, EndsPass, TypeOK
    <2> QED BY <2>1 DEF tables, QuietInv, EntriesOfDueAgents, EntriesOfDueUsers,
            AgentsOfDueUsers, DueAgents, DueUsers, Due, Present
<1>5. ASSUME NEW w \in Workers, StatementOf(w)
      PROVE  QuietInv'
    <2>1. /\ EntriesOfDueAgents = {} => EntriesOfDueAgents' = {}
          /\ EntriesOfDueUsers = {} => EntriesOfDueUsers' = {}
          /\ AgentsOfDueUsers = {} => AgentsOfDueUsers' = {}
          /\ DueAgents = {} => DueAgents' = {}
        BY <1>5, StatementsRemove, EmptyStaysEmpty
    <2>2. /\ quiet' = quiet
          /\ \A v \in Workers \ {w} : step'[v] = step[v]
        BY <1>5 DEF StatementOf, Executes, TypeOK, HardDeleteEntriesForExpiredAgents,
            HardDeleteEntriesForExpiredUsers, PurgeExpiredEntries,
            HardDeleteAgentsForExpiredUsers, PurgeExpiredAgents, PurgeExpiredUsers
    <2>3. \/ step[w] = 1 /\ step'[w] = 2 /\ EntriesOfDueAgents' = {}
          \/ step[w] = 2 /\ step'[w] = 3 /\ EntriesOfDueUsers' = {}
          \/ step[w] = 3 /\ step'[w] = 4
          \/ step[w] = 4 /\ step'[w] = 5 /\ AgentsOfDueUsers' = {}
          \/ step[w] = 5 /\ step'[w] = 6 /\ DueAgents' = {}
          \/ step[w] = 6 /\ step'[w] = 0
        <3>1. CASE HardDeleteEntriesForExpiredAgents(w)
            BY <3>1 DEF HardDeleteEntriesForExpiredAgents, Executes, TypeOK, TablesOK, Delete,
                Fresh, Present, EntriesOfDueAgents, DueAgents, Due
        <3>2. CASE HardDeleteEntriesForExpiredUsers(w)
            BY <3>2 DEF HardDeleteEntriesForExpiredUsers, Executes, TypeOK, TablesOK, Delete,
                Fresh, Present, EntriesOfDueUsers, DueUsers, Due
        <3>3. CASE PurgeExpiredEntries(w)
            BY <3>3 DEF PurgeExpiredEntries, Executes, TypeOK
        <3>4. CASE HardDeleteAgentsForExpiredUsers(w)
            BY <3>4 DEF HardDeleteAgentsForExpiredUsers, Executes, TypeOK, TablesOK, Delete,
                Fresh, Present, AgentsOfDueUsers, DueUsers, Due
        <3>5. CASE PurgeExpiredAgents(w)
            BY <3>5 DEF PurgeExpiredAgents, Executes, TypeOK, TablesOK, Delete,
                Fresh, Present, DueAgents, Due
        <3>6. CASE PurgeExpiredUsers(w)
            BY <3>6 DEF PurgeExpiredUsers, Executes, TypeOK
        <3> QED BY <1>5, <3>1, <3>2, <3>3, <3>4, <3>5, <3>6 DEF StatementOf
    <2> QED BY <2>1, <2>2, <2>3 DEF QuietInv
<1>6. ASSUME NEW p \in Procs, Arrive(p) \/ Handle(p)
      PROVE  QuietInv'
    BY <1>1, <1>2, <1>6, RequestsDisturb
<1> QED BY <1>2, <1>3, <1>4, <1>5, <1>6 DEF Next, vars, tables, Statement, StatementOf

\* The six statements of RunOnce are in the right order: a pass that no request
\* and no tick disturbs never meets a foreign key, however many machines purge
\* at the same time.
THEOREM PassesUnblocked == Spec => []QuietPassUnblocked
<1>1. Init => QuietInv
    BY DEF Init, QuietInv
<1>2. Spec => []QuietInv
    BY <1>1, NextQuiet, TypeCorrect, PTL DEF Spec
<1> QED BY <1>2, QuietImplies, TypeCorrect, PTL

-----------------------------------------------------------------------------
(* What a request knows between its statements *)

\* If the row is in the bin, it was binned since the request arrived.
Recent(p, r) == InBin(r) => SinceArrival(p, r)

\* Row i, which the purge p has found in the bin, is not live unless a restore has
\* overtaken p; and no insert will draw its key.
Checked(p, r, i) == r.st # "none" /\ (Live(r) => i \in req[p].overtaken)

AfterCheck(p, op) == req[p].op = op /\ req[p].pc # "authed"

\* The account was live when the request arrived, and so was the row it is about to bin.
BinsOK(p) ==
    /\ req[p].user \in Users => req[p].op # "idle" /\ Recent(p, users[req[p].user])
    /\ At(p, "CreateAgent", "inserted") \/ At(p, "DeleteAgent", "checked") =>
          Recent(p, agents[req[p].id])
    /\ At(p, "DeleteEntry", "checked") => Recent(p, entries[req[p].id])

\* A request works on what belongs to its account, and purges what it has checked.
PurgesOK(p) ==
    /\ req[p].op = "CreateAgent" \/ At(p, "RestoreAgent", "checked") => Owns(p, req[p].id)
    /\ AfterCheck(p, "PurgeEntry") =>
          Owns(p, AgentOf[req[p].id]) /\ Checked(p, entries[req[p].id], req[p].id)
    /\ AfterCheck(p, "PurgeAgent") =>
          Owns(p, req[p].id) /\ Checked(p, agents[req[p].id], req[p].id)
    /\ AfterCheck(p, "EmptyAll") =>
          \A a \in req[p].todo : Owns(p, a) /\ Checked(p, agents[a], a)

\* What its transaction has deleted is the account's, and an entry among it is live
\* only under an agent that was checked; what it leaves is live or was binned since.
DeletesOK(p) ==
    /\ txDeleted[p] # {} => AfterCheck(p, "PurgeAgent") \/ AfterCheck(p, "EmptyAll")
    /\ \A e \in txDeleted[p] :
          /\ Owns(p, AgentOf[e]) /\ entries[e].st # "none"
          /\ Live(entries[e]) => Checked(p, agents[AgentOf[e]], AgentOf[e])
    /\ At(p, "EmptyAll", "emptied") =>
          \A e \in Entries \ txDeleted[p] :
              Owns(p, AgentOf[e]) => Recent(p, entries[e])

RequestInv == \A p \in Procs : BinsOK(p) /\ PurgesOK(p) /\ DeletesOK(p)

\* At one clock, a row that is binned is binned now, and a row that was there once is
\* never drawn again.
LEMMA RowMoves ==
    ASSUME TypeOK, NEW r \in Row, NEW s, RowStep(r, s)
    PROVE  /\ InBin(s) => s = r \/ s.removed_at = now
           /\ r.st # "none" => s.st # "none"
<1>1. CASE s = r
    BY <1>1
<1>2. CASE r = NoRow /\ s = NewRow
    BY <1>2 DEF NoRow, NewRow, Fresh, InBin
<1>3. CASE Present(r) /\ s \in {SoftDeleted(r), Restored(r)}
    BY <1>3 DEF SoftDeleted, Restored, Marked, InBin, Present
<1>4. CASE Live(r) /\ s = CascadeDeleted(r)
    BY <1>4 DEF CascadeDeleted, Marked, Coalesce, Live, Present
<1>5. CASE s \in {Fresh("purged"), Fresh("cascaded")}
    BY <1>5 DEF Fresh, InBin, Present
<1> QED BY <1>1, <1>2, <1>3, <1>4, <1>5 DEF RowStep

\* Hence what is recent stays recent, as long as the clock stands.
LEMMA RecentStays ==
    ASSUME TypeOK, NEW p \in Procs, now' = now, req'[p].aged = req[p].aged,
           NEW r \in Row, NEW s, RowStep(r, s), Recent(p, r)
    PROVE  InBin(s) => now <= s.removed_at + (IF req[p].aged THEN 1 ELSE 0)
BY RowMoves DEF Recent, SinceArrival, TypeOK

\* A row that is not new becomes live by a restore.
Revived(r, s) == r.st # "none" /\ Live(s) /\ ~Live(r)

\* A step of somebody else, as request p sees it: its own record stays, no row is
\* revived that a purge has found unless it is told, and none that it has deleted.
Elsewhere(p) ==
    /\ now' = now /\ AllRowSteps
    /\ \E O \in SUBSET (Agents \cup Entries) :
          req[p].overtaken \subseteq O /\ req'[p] = [req[p] EXCEPT !.overtaken = O]
    /\ txDeleted'[p] = txDeleted[p]
    /\ Purging(p) =>
          /\ \A a \in Agents : Revived(agents[a], agents'[a]) => a \in req'[p].overtaken
          /\ \A e \in Entries : Revived(entries[e], entries'[e]) =>
                e \in req'[p].overtaken /\ e \notin txDeleted[p]

\* Such a step leaves what a request knows.
LEMMA ElsewhereKeeps ==
    ASSUME TypeOK, NEW p \in Procs, Elsewhere(p), BinsOK(p), PurgesOK(p), DeletesOK(p)
    PROVE  BinsOK(p)' /\ PurgesOK(p)' /\ DeletesOK(p)'
<1>1. /\ req'[p].op = req[p].op /\ req'[p].pc = req[p].pc /\ req'[p].user = req[p].user
      /\ req'[p].id = req[p].id /\ req'[p].todo = req[p].todo /\ req'[p].aged = req[p].aged
      /\ req[p].overtaken \subseteq req'[p].overtaken
    BY DEF Elsewhere, TypeOK, RequestsOK
<1>2. /\ users \in [Users -> Row] /\ agents \in [Agents -> Row] /\ entries \in [Entries -> Row]
      /\ \A u \in Users : RowStep(users[u], users'[u])
      /\ \A a \in Agents : RowStep(agents[a], agents'[a])
      /\ \A e \in Entries : RowStep(entries[e], entries'[e])
      /\ now' = now /\ txDeleted'[p] = txDeleted[p] /\ txDeleted[p] \subseteq Entries
    BY DEF Elsewhere, AllRowSteps, RowSteps, TypeOK, TablesOK
<1>3. /\ \A u \in Users : Recent(p, users[u]) => Recent(p, users[u])'
      /\ \A a \in Agents : Recent(p, agents[a]) => Recent(p, agents[a])'
      /\ \A e \in Entries : Recent(p, entries[e]) => Recent(p, entries[e])'
    BY <1>1, <1>2, RecentStays DEF Recent, SinceArrival
<1>4. /\ \A a \in Agents : agents[a].st # "none" => agents'[a].st # "none"
      /\ \A e \in Entries : entries[e].st # "none" => entries'[e].st # "none"
    BY <1>2, RowMoves
<1>5. ASSUME Purging(p)
      PROVE  /\ \A a \in Agents : Checked(p, agents[a], a) => Checked(p, agents[a], a)'
             /\ \A e \in Entries : Checked(p, entries[e], e) => Checked(p, entries[e], e)'
    BY <1>1, <1>4, <1>5 DEF Elsewhere, Revived, Checked
<1>6. /\ req[p].op \in AgentOps => req[p].id \in Agents
      /\ req[p].op \in EntryOps \cup SignedOps => req[p].id \in Entries
      /\ req[p].todo \subseteq Agents
    BY DEF TypeOK, RequestsOK
<1>7. \A e \in Entries : AgentOf[e] \in Agents
    BY RetentionAssumption DEF RetentionAssumption
<1>8. BinsOK(p)'
    BY <1>1, <1>3, <1>6 DEF BinsOK, At, AgentOps, EntryOps
<1>9. PurgesOK(p)'
    BY <1>1, <1>5, <1>6 DEF PurgesOK, At, AfterCheck, Purging, Owns, AgentOps, EntryOps
<1>10. DeletesOK(p)'
    <2>1. ASSUME NEW e \in txDeleted[p]
          PROVE  /\ Owns(p, AgentOf[e])' /\ entries'[e].st # "none"
                 /\ Live(entries'[e]) => Checked(p, agents[AgentOf[e]], AgentOf[e])'
        <3>1. /\ Purging(p) /\ e \in Entries /\ Owns(p, AgentOf[e]) /\ entries[e].st # "none"
              /\ Live(entries[e]) => Checked(p, agents[AgentOf[e]], AgentOf[e])
            BY <1>2, <2>1 DEF DeletesOK, AfterCheck, Purging
        <3>2. Live(entries'[e]) => Live(entries[e])
            BY <2>1, <3>1 DEF Elsewhere, Revived
        <3> QED BY <1>1, <1>4, <1>5, <1>7, <3>1, <3>2 DEF Owns
    <2> QED BY <1>1, <1>2, <1>3, <2>1 DEF DeletesOK, AfterCheck, At, Owns
<1> QED BY <1>8, <1>9, <1>10

\* Of the statements of the handlers only the two restores revive a row.
LEMMA OnlyRestoresRevive ==
    ASSUME TypeOK, NEW p \in Procs, Handle(p)
    PROVE  /\ \A a \in Agents : Revived(agents[a], agents'[a]) =>
                 RestoreAgent(p) /\ a = req[p].id
           /\ \A e \in Entries : Revived(entries[e], entries'[e]) =>
                 RestoreEntry(p) /\ e = req[p].id
<1> USE DEF Revived, TypeOK, TablesOK
<1>1. ASSUME NEW S, NEW t \in [S -> Row]
      PROVE  /\ \A i : \A r : ~Live(r) =>
                   \A j \in S : ~Revived(t[j], Update(t, i, r)[j])
             /\ \A D : \A s \in {"purged", "cascaded"} :
                   \A j \in S : ~Revived(t[j], Delete(t, D, s)[j])
             /\ \A i \in S : t[i] = NoRow =>
                   \A j \in S : ~Revived(t[j], [t EXCEPT ![i] = NewRow][j])
             /\ \A i \in S : \A r : \A j \in S : Revived(t[j], Update(t, i, r)[j]) => j = i
    <2>1. \A i : \A r : ~Live(r) => \A j \in S : ~Revived(t[j], Update(t, i, r)[j])
        BY DEF Update
    <2>2. ASSUME NEW D, NEW s \in {"purged", "cascaded"}, NEW j \in S
          PROVE  ~Revived(t[j], Delete(t, D, s)[j])
        BY DEF Delete, Fresh, Live, Present
    <2>3. ASSUME NEW i \in S, t[i] = NoRow, NEW j \in S
          PROVE  ~Revived(t[j], [t EXCEPT ![i] = NewRow][j])
        BY <2>3 DEF NoRow, Fresh
    <2>4. \A i \in S : \A r : \A j \in S : Revived(t[j], Update(t, i, r)[j]) => j = i
        BY DEF Update
    <2> QED BY <2>1, <2>2, <2>3, <2>4
<1>2. /\ \A r \in Row : ~Live(SoftDeleted(r))
      /\ ~Live(Fresh("purged"))
    BY DEF SoftDeleted, Marked, Fresh, Live, Present, NULL
<1>3. /\ \A a \in Agents : Revived(agents[a], agents[a]) => FALSE
      /\ \A e \in Entries : Revived(entries[e], entries[e]) => FALSE
    OBVIOUS
<1>4. /\ req[p].op \in AgentOps => req[p].id \in Agents
      /\ req[p].op \in EntryOps \cup SignedOps => req[p].id \in Entries
    BY DEF RequestsOK
<1>5. CASE InsertAgent(p)
    BY <1>1, <1>3, <1>4, <1>5 DEF InsertAgent, At, AgentOps
<1>6. CASE UndoCreate(p) \/ SoftDeleteAgent(p)
    BY <1>1, <1>2, <1>3, <1>4, <1>6 DEF UndoCreate, SoftDeleteAgent, At, AgentOps
<1>7. CASE InsertEntry(p)
    BY <1>1, <1>3, <1>4, <1>7 DEF InsertEntry, At, SignedOps
<1>8. CASE SoftDeleteEntry(p)
    BY <1>1, <1>2, <1>3, <1>4, <1>8 DEF SoftDeleteEntry, At, EntryOps
<1>9. CASE HardDeleteEntry(p)
    BY <1>1, <1>2, <1>3, <1>4, <1>9 DEF HardDeleteEntry
<1>10. CASE RestoreEntry(p)
    BY <1>1, <1>3, <1>4, <1>10 DEF RestoreEntry, At, EntryOps
<1>11. CASE RestoreAgent(p)
    BY <1>1, <1>3, <1>4, <1>11 DEF RestoreAgent, At, AgentOps
<1>12. CASE PurgeAgentCommit(p) \/ EmptyAllCommit(p)
    BY <1>1, <1>2, <1>12 DEF PurgeAgentCommit, EmptyAllCommit
<1>13. CASE SoftDeleteUser(p)
    <2>1. \A a \in Agents : Live(agents'[a]) => Live(agents[a])
        BY <1>13 DEF SoftDeleteUser, SoftDeleteAgentsByUser, CascadeDeleted, Marked, Live, Present
    <2> QED BY <1>3, <1>13, <2>1 DEF SoftDeleteUser
<1>14. CASE UNCHANGED <<agents, entries>>
    BY <1>14
<1> QED BY <1>5, <1>6, <1>7, <1>8, <1>9, <1>10, <1>11, <1>12, <1>13, <1>14 DEF Handle,
        LoadOwnedAgent, GetAgentForPost, GetAgentForDelete, GetEntryForDelete, GetEntryInBin,
        GetBinnedAgentForOwner, PurgeAgentEntries, ListBinnedAgents, EmptyAllCascade,
        EmptyAllEntries, Return, Reads, tables

\* A statement of request p, as the others see it
LEMMA HandleElsewhere ==
    ASSUME TypeOK, NEW p \in Procs, Handle(p), NEW q \in Procs \ {p}
    PROVE  Elsewhere(q)
<1>1. now' = now /\ AllRowSteps
    BY HandleRows
<1>2. txDeleted'[q] = txDeleted[q]
    BY DEF Handle, TypeOK, InsertAgent, UndoCreate,
        LoadOwnedAgent, SoftDeleteAgent, GetAgentForPost, InsertEntry, GetAgentForDelete,
        GetEntryForDelete, SoftDeleteEntry, GetEntryInBin, RestoreEntry, HardDeleteEntry,
        GetBinnedAgentForOwner, RestoreAgent, PurgeAgentEntries, PurgeAgentCommit,
        ListBinnedAgents, EmptyAllCascade, EmptyAllEntries, EmptyAllCommit,
        SoftDeleteUser, Return, Reads, Writes
<1>3. CASE RestoreEntry(p) \/ RestoreAgent(p)
    <2>1. PICK i \in Agents \cup Entries : i = req[p].id /\ DoneRestoring(p, i)
        BY <1>3 DEF RestoreEntry, RestoreAgent, At, TypeOK, RequestsOK, AgentOps, EntryOps
    <2> DEFINE O == IF Purging(q) THEN req[q].overtaken \cup {i} ELSE req[q].overtaken
    <2>2. /\ O \in SUBSET (Agents \cup Entries) /\ req[q].overtaken \subseteq O
          /\ req'[q] = [req[q] EXCEPT !.overtaken = O] /\ req'[q].overtaken = O
        BY <2>1 DEF DoneRestoring, TypeOK, RequestsOK
    <2>3. RestoreEntry(p) => req[p].id \notin txDeleted[q]
        BY DEF RestoreEntry, LockedByOthers
    <2> QED BY <1>1, <1>2, <2>1, <2>2, <2>3, OnlyRestoresRevive DEF Elsewhere
<1>4. CASE ~RestoreEntry(p) /\ ~RestoreAgent(p)
    <2>1. req'[q] = req[q]
        BY <1>4 DEF Handle, TypeOK, RequestsOK, InsertAgent, UndoCreate,
            LoadOwnedAgent, SoftDeleteAgent, GetAgentForPost, InsertEntry, GetAgentForDelete,
            GetEntryForDelete, SoftDeleteEntry, GetEntryInBin, HardDeleteEntry,
            GetBinnedAgentForOwner, PurgeAgentEntries, PurgeAgentCommit,
            ListBinnedAgents, EmptyAllCascade, EmptyAllEntries, EmptyAllCommit,
            SoftDeleteUser, Return, Goto, Done
    <2>2. req'[q] = [req[q] EXCEPT !.overtaken = req[q].overtaken]
          /\ req[q].overtaken \in SUBSET (Agents \cup Entries)
        BY <2>1 DEF TypeOK, RequestsOK
    <2> QED BY <1>1, <1>2, <1>4, <2>2, OnlyRestoresRevive DEF Elsewhere
<1> QED BY <1>3, <1>4

\* A statement of a worker, as the requests see it
LEMMA WorkerElsewhere ==
    ASSUME TypeOK, NEW w \in Workers, RunOnce(w) \/ Statement(w) \/ PassFails(w),
           NEW q \in Procs
    PROVE  Elsewhere(q)
<1>1. now' = now /\ AllRowSteps
    BY WorkerRows
<1>2. UNCHANGED <<req, txDeleted>>
    BY DEF RunOnce, Statement, PassFails, ForeignKeyError, EndsPass, Executes,
        HardDeleteEntriesForExpiredAgents, HardDeleteEntriesForExpiredUsers,
        PurgeExpiredEntries, HardDeleteAgentsForExpiredUsers, PurgeExpiredAgents,
        PurgeExpiredUsers
<1>3. /\ \A a \in Agents : agents'[a] = agents[a] \/ ~Present(agents'[a])
      /\ \A e \in Entries : entries'[e] = entries[e] \/ ~Present(entries'[e])
    BY StatementsRemove DEF RunOnce, Statement, StatementOf, PassFails, ForeignKeyError,
        EndsPass, tables
<1>4. /\ \A a \in Agents : ~Revived(agents[a], agents'[a])
      /\ \A e \in Entries : ~Revived(entries[e], entries'[e])
    BY <1>3 DEF Revived, Live
<1>5. req'[q] = [req[q] EXCEPT !.overtaken = req[q].overtaken]
      /\ req[q].overtaken \in SUBSET (Agents \cup Entries)
    BY <1>2 DEF TypeOK, RequestsOK
<1> QED BY <1>1, <1>2, <1>4, <1>5 DEF Elsewhere

\* Going on to the next statement changes the pc alone.
LEMMA GotoFields ==
    ASSUME TypeOK, NEW p \in Procs, NEW pc, Goto(p, pc)
    PROVE  /\ req'[p].op = req[p].op /\ req'[p].pc = pc
           /\ req'[p].user = req[p].user /\ req'[p].id = req[p].id
           /\ req'[p].todo = req[p].todo /\ req'[p].aged = req[p].aged
           /\ req'[p].overtaken = req[p].overtaken
BY DEF Goto, TypeOK, RequestsOK

\* A request that has ended knows nothing.
LEMMA DoneKnows ==
    ASSUME TypeOK, NEW p \in Procs, req'[p] = Idle, txDeleted'[p] = {}
    PROVE  BinsOK(p)' /\ PurgesOK(p)' /\ DeletesOK(p)'
<1>1. NoId \notin Users
    BY RetentionAssumption DEF RetentionAssumption
<1> QED BY <1>1, IdleType DEF BinsOK, PurgesOK, DeletesOK, At, AfterCheck

\* A read learns what it has read.
LEMMA ReadKnows ==
    ASSUME TypeOK, NEW p \in Procs, BinsOK(p), PurgesOK(p), DeletesOK(p),
           \/ LoadOwnedAgent(p) \/ GetAgentForPost(p)
           \/ GetAgentForDelete(p) \/ GetEntryForDelete(p)
           \/ GetEntryInBin(p, "RestoreEntry") \/ GetEntryInBin(p, "PurgeEntry")
           \/ GetBinnedAgentForOwner(p, "RestoreAgent") \/ GetBinnedAgentForOwner(p, "PurgeAgent")
           \/ ListBinnedAgents(p)
    PROVE  BinsOK(p)' /\ PurgesOK(p)' /\ DeletesOK(p)'
<1>1. UNCHANGED <<now, users, agents, entries, txDeleted>>
    BY DEF LoadOwnedAgent, GetAgentForPost, GetAgentForDelete, GetEntryForDelete, GetEntryInBin,
        GetBinnedAgentForOwner, ListBinnedAgents, Reads, tables
<1>2. ~(AfterCheck(p, "PurgeAgent") \/ AfterCheck(p, "EmptyAll"))
    BY DEF LoadOwnedAgent, GetAgentForPost, GetAgentForDelete, GetEntryForDelete, GetEntryInBin,
        GetBinnedAgentForOwner, ListBinnedAgents, At, AfterCheck
<1>3. txDeleted'[p] = {}
    BY <1>1, <1>2 DEF DeletesOK
<1>4. /\ req'[p].user = req[p].user /\ req'[p].op = req[p].op /\ req'[p].id = req[p].id
      /\ req'[p].aged = req[p].aged /\ req'[p].overtaken = req[p].overtaken
      /\ req'[p].pc \in {"found", "checked", "listed"}
      /\ req'[p].pc = "found" => req[p].op = "DeleteEntry"
    BY GotoFields DEF LoadOwnedAgent, GetAgentForPost, GetAgentForDelete, GetEntryForDelete,
        GetEntryInBin, GetBinnedAgentForOwner, ListBinnedAgents, At, TypeOK, RequestsOK
<1>5. DeletesOK(p)'
    BY <1>3, <1>4 DEF DeletesOK, At
<1>6. BinsOK(p)'
    <2>1. req[p].user \in Users => Recent(p, users[req[p].user])'
        BY <1>1, <1>4 DEF BinsOK, Recent, SinceArrival
    <2>2. At(p, "DeleteAgent", "checked")' => Recent(p, agents[req[p].id])'
        <3>1. SUFFICES ASSUME req[p].op = "DeleteAgent" PROVE ~InBin(agents[req[p].id])'
            BY <1>4 DEF At, Recent
        <3>2. LoadOwnedAgent(p)
            BY <3>1 DEF GetAgentForPost, GetAgentForDelete, GetEntryForDelete, GetEntryInBin,
                GetBinnedAgentForOwner, ListBinnedAgents, At
        <3> QED BY <1>1, <1>4, <3>2 DEF LoadOwnedAgent, Live, InBin
    <2>3. At(p, "DeleteEntry", "checked")' => Recent(p, entries[req[p].id])'
        <3>1. SUFFICES ASSUME req[p].op = "DeleteEntry", req'[p].pc = "checked"
                       PROVE  ~InBin(entries[req[p].id])'
            BY <1>4 DEF At, Recent
        <3>2. GetEntryForDelete(p)
            BY <3>1, GotoFields DEF LoadOwnedAgent, GetAgentForPost, GetAgentForDelete,
                GetEntryInBin, GetBinnedAgentForOwner, ListBinnedAgents, At
        <3> QED BY <1>1, <1>4, <3>2 DEF GetEntryForDelete, Live, InBin
    <2> QED BY <1>4, <2>1, <2>2, <2>3 DEF BinsOK, At
<1>7. PurgesOK(p)'
    <2>1. ASSUME NEW op \in {"RestoreEntry", "PurgeEntry"}, GetEntryInBin(p, op)
          PROVE  PurgesOK(p)'
        BY <1>1, <1>4, <2>1 DEF GetEntryInBin, PurgesOK, At, AfterCheck, Owns, Checked,
            InBin, Live, Present
    <2>2. ASSUME NEW op \in {"RestoreAgent", "PurgeAgent"}, GetBinnedAgentForOwner(p, op)
          PROVE  PurgesOK(p)'
        BY <1>1, <1>4, <2>2 DEF GetBinnedAgentForOwner, PurgesOK, At, AfterCheck, Owns, Checked,
            InBin, Live, Present
    <2>3. CASE ListBinnedAgents(p)
        <3>1. PICK L \in SUBSET BinnedAgentsOf(req[p].user) : req'[p].todo = L
            BY <2>3 DEF ListBinnedAgents, TypeOK, RequestsOK
        <3>2. req[p].op = "EmptyAll"
            BY <2>3 DEF ListBinnedAgents, At
        <3> QED BY <1>1, <1>4, <3>1, <3>2 DEF PurgesOK, At, AfterCheck, Owns, Checked,
                BinnedAgentsOf, AgentsOf, InBin, Live, Present
    <2>4. CASE LoadOwnedAgent(p) \/ GetAgentForPost(p) \/ GetAgentForDelete(p)
               \/ GetEntryForDelete(p)
        BY <1>4, <2>4 DEF LoadOwnedAgent, GetAgentForPost, GetAgentForDelete,
            GetEntryForDelete, PurgesOK, At, AfterCheck
    <2> QED BY <2>1, <2>2, <2>3, <2>4
<1> QED BY <1>5, <1>6, <1>7

\* A transaction deletes the entries of agents it has checked, and then what is in the
\* bin.
LEMMA DeleteKnows ==
    ASSUME TypeOK, NEW p \in Procs, BinsOK(p), PurgesOK(p), DeletesOK(p),
           PurgeAgentEntries(p) \/ EmptyAllCascade(p) \/ EmptyAllEntries(p)
    PROVE  BinsOK(p)' /\ PurgesOK(p)' /\ DeletesOK(p)'
<1>1. UNCHANGED <<now, users, agents, entries>>
    BY DEF PurgeAgentEntries, EmptyAllCascade, EmptyAllEntries, tables
<1>2. /\ req'[p].user = req[p].user /\ req'[p].op = req[p].op /\ req'[p].id = req[p].id
      /\ req'[p].aged = req[p].aged /\ req'[p].overtaken = req[p].overtaken
      /\ req'[p].todo \subseteq req[p].todo
      /\ req'[p].op \in {"PurgeAgent", "EmptyAll"} /\ req'[p].pc # "authed"
      /\ req[p].pc # "authed"
    BY GotoFields DEF PurgeAgentEntries, EmptyAllCascade, EmptyAllEntries, At, TypeOK, RequestsOK
<1>3. BinsOK(p)'
    BY <1>1, <1>2 DEF BinsOK, Recent, SinceArrival, At
<1>4. PurgesOK(p)'
    BY <1>1, <1>2 DEF PurgesOK, At, AfterCheck, Owns, Checked
<1>5. \A e \in txDeleted'[p] \ txDeleted[p] :
         /\ Owns(p, AgentOf[e]) /\ entries[e].st # "none"
         /\ Live(entries[e]) => Checked(p, agents[AgentOf[e]], AgentOf[e])
    <2>1. CASE PurgeAgentEntries(p)
        BY <2>1 DEF PurgeAgentEntries, EntriesOf, PurgesOK, At, AfterCheck, Present,
            TypeOK
    <2>2. CASE EmptyAllCascade(p)
        <3>1. PICK a \in req[p].todo :
                 txDeleted' = [txDeleted EXCEPT
                    ![p] = @ \cup {e \in EntriesOf(a) : Present(entries[e])}]
            BY <2>2 DEF EmptyAllCascade
        <3>2. Owns(p, a) /\ Checked(p, agents[a], a)
            BY <2>2 DEF EmptyAllCascade, PurgesOK, At, AfterCheck
        <3>3. \A e \in txDeleted'[p] \ txDeleted[p] : AgentOf[e] = a /\ Present(entries[e])
            BY <3>1 DEF EntriesOf, TypeOK
        <3> QED BY <3>2, <3>3 DEF Present
    <2>3. CASE EmptyAllEntries(p)
        BY <2>3 DEF EmptyAllEntries, BinnedEntriesOf, Owns, InBin, Present, Live, TypeOK
    <2> QED BY <2>1, <2>2, <2>3
<1>6. At(p, "EmptyAll", "emptied")' =>
         \A e \in Entries \ txDeleted'[p] : Owns(p, AgentOf[e]) => ~InBin(entries[e])
    <2>1. SUFFICES ASSUME At(p, "EmptyAll", "emptied")' PROVE EmptyAllEntries(p)
        BY DEF EmptyAllEntries, BinnedEntriesOf, Owns, TypeOK
    <2>2. EmptyAllCascade(p) => req'[p].pc = "listed"
        BY DEF EmptyAllCascade, At, TypeOK, RequestsOK
    <2>3. PurgeAgentEntries(p) => req'[p].op = "PurgeAgent"
        BY <1>2 DEF PurgeAgentEntries, At
    <2> QED BY <2>1, <2>2, <2>3 DEF At
<1>7. DeletesOK(p)'
    BY <1>1, <1>2, <1>5, <1>6 DEF DeletesOK, AfterCheck, Owns, Checked, Recent
<1> QED BY <1>3, <1>4, <1>7

\* Every statement of a request keeps what it knows itself.
LEMMA HandleKnows ==
    ASSUME TypeOK, NEW p \in Procs, BinsOK(p), PurgesOK(p), DeletesOK(p), Handle(p)
    PROVE  BinsOK(p)' /\ PurgesOK(p)' /\ DeletesOK(p)'
<1>1. CASE UndoCreate(p) \/ SoftDeleteAgent(p) \/ InsertEntry(p) \/ SoftDeleteEntry(p)
           \/ RestoreEntry(p) \/ HardDeleteEntry(p) \/ RestoreAgent(p) \/ SoftDeleteUser(p)
    <2>1. req[p].op \notin {"PurgeAgent", "EmptyAll"} /\ UNCHANGED txDeleted
        BY <1>1 DEF UndoCreate, SoftDeleteAgent, InsertEntry, SoftDeleteEntry, RestoreEntry,
            HardDeleteEntry, RestoreAgent, SoftDeleteUser, Writes, At
    <2>2. req'[p] = Idle
        BY <1>1 DEF UndoCreate, SoftDeleteAgent, InsertEntry, SoftDeleteEntry, RestoreEntry,
            HardDeleteEntry, RestoreAgent, SoftDeleteUser, Done, DoneRestoring, TypeOK, RequestsOK
    <2> QED BY <2>1, <2>2, DoneKnows DEF DeletesOK, AfterCheck
<1>2. CASE PurgeAgentCommit(p) \/ EmptyAllCommit(p) \/ Return(p)
    BY <1>2, DoneKnows DEF PurgeAgentCommit, EmptyAllCommit, Return, Done, TypeOK, RequestsOK
<1>3. CASE InsertAgent(p)
    <2>1. /\ req[p].op = "CreateAgent" /\ req[p].id \in Agents
          /\ UNCHANGED <<now, users, entries, txDeleted>>
        BY <1>3 DEF InsertAgent, Writes, At, TypeOK, RequestsOK, AgentOps
    <2>2. /\ req'[p].user = req[p].user /\ req'[p].op = req[p].op /\ req'[p].id = req[p].id
          /\ req'[p].aged = req[p].aged
        BY <1>3, GotoFields DEF InsertAgent
    <2>3. ~InBin(agents'[req[p].id])
        BY <1>3, <2>1 DEF InsertAgent, InBin, NewRow, Fresh, TypeOK, TablesOK
    <2>4. txDeleted'[p] = {}
        BY <2>1 DEF DeletesOK, AfterCheck
    <2>5. BinsOK(p)'
        BY <2>1, <2>2, <2>3 DEF BinsOK, Recent, SinceArrival, At
    <2> QED BY <2>1, <2>2, <2>4, <2>5 DEF PurgesOK, DeletesOK, At, AfterCheck, Owns
<1> QED BY <1>1, <1>2, <1>3, ReadKnows, DeleteKnows DEF Handle

\* A request that arrives knows that its account is live.
LEMMA ArriveKnows ==
    ASSUME TypeOK, RequestInv, NEW p \in Procs, Arrive(p)
    PROVE  RequestInv'
<1>1. UNCHANGED <<now, users, agents, entries, txDeleted>> /\ req[p] = Idle
    BY DEF Arrive, Authenticate, VerifySigned, Reads, tables
<1>2. PICK op \in Ops, u \in Users \cup {NoId}, i \in Agents \cup Entries \cup {NoId} :
         /\ req' = [req EXCEPT ![p] = Request(op, u, i)]
         /\ u \in Users => Live(users[u])
         /\ op = "CreateAgent" => OwnerOf[i] = u
    <2>1. NoId \notin Users
        BY RetentionAssumption DEF RetentionAssumption
    <2> QED BY <2>1 DEF Arrive, Authenticate, VerifySigned, Ops, UserOps, AgentOps, EntryOps, SignedOps
<1>3. /\ req'[p].op = op /\ req'[p].pc = "authed" /\ req'[p].user = u /\ req'[p].id = i
      /\ \A q \in Procs \ {p} : req'[q] = req[q]
    BY <1>2 DEF TypeOK, RequestsOK, Request, Idle
<1>4. txDeleted'[p] = {}
    BY <1>1, IdleType DEF RequestInv, DeletesOK, AfterCheck
<1>5. BinsOK(p)' /\ PurgesOK(p)' /\ DeletesOK(p)'
    BY <1>1, <1>2, <1>3, <1>4 DEF BinsOK, PurgesOK, DeletesOK, At, AfterCheck, Owns, Recent,
        Live, InBin, Ops, UserOps, AgentOps, EntryOps, SignedOps
<1>6. ASSUME NEW q \in Procs \ {p}
      PROVE  BinsOK(q)' /\ PurgesOK(q)' /\ DeletesOK(q)'
    BY <1>1, <1>3 DEF RequestInv, BinsOK, PurgesOK, DeletesOK, At, AfterCheck, Owns, Recent,
        SinceArrival, Checked
<1> QED BY <1>5, <1>6 DEF RequestInv

\* A tick ages every request, and none sees a second one: what was binned since a
\* request arrived was binned a tick ago at most.
LEMMA TickKnows ==
    ASSUME TypeOK, RequestInv, Tick
    PROVE  RequestInv'
<1>1. UNCHANGED <<users, agents, entries, txDeleted>> /\ now' = now + 1
    BY DEF Tick, tables
<1>2. ASSUME NEW p \in Procs
      PROVE  /\ req[p].aged = FALSE /\ req'[p].aged = (req[p].op # "idle")
             /\ req'[p].op = req[p].op /\ req'[p].pc = req[p].pc /\ req'[p].user = req[p].user
             /\ req'[p].id = req[p].id /\ req'[p].todo = req[p].todo
             /\ req'[p].overtaken = req[p].overtaken
    BY DEF Tick, TypeOK, RequestsOK
<1>3. ASSUME NEW p \in Procs, req[p].op # "idle", NEW r \in Row, Recent(p, r), InBin(r)
      PROVE  now' <= r.removed_at + (IF req'[p].aged THEN 1 ELSE 0)
    <2>1. now <= r.removed_at + 0
        BY <1>2, <1>3 DEF Recent, SinceArrival
    <2>2. r.removed_at \in Int /\ now \in Int
        BY DEF Row, Stamp, NULL, TypeOK
    <2>3. req'[p].aged
        BY <1>2, <1>3, Zenon
    <2> QED BY <1>1, <2>1, <2>2, <2>3
<1>4. ASSUME NEW p \in Procs
      PROVE  BinsOK(p)' /\ PurgesOK(p)' /\ DeletesOK(p)'
    <2>1. /\ req[p].op \in AgentOps => req[p].id \in Agents
          /\ req[p].op \in EntryOps => req[p].id \in Entries
          /\ BinsOK(p) /\ PurgesOK(p) /\ DeletesOK(p)
        BY DEF TypeOK, RequestsOK, RequestInv
    <2>2. req[p].op # "idle" =>
             /\ \A u \in Users : Recent(p, users[u]) => Recent(p, users[u])'
             /\ \A a \in Agents : Recent(p, agents[a]) => Recent(p, agents[a])'
             /\ \A e \in Entries : Recent(p, entries[e]) => Recent(p, entries[e])'
        BY <1>1, <1>3 DEF TypeOK, TablesOK, Recent, SinceArrival
    <2>3. BinsOK(p)'
        BY <1>1, <1>2, <2>1, <2>2 DEF BinsOK, At, AgentOps, EntryOps
    <2>4. PurgesOK(p)'
        BY <1>1, <1>2, <2>1 DEF PurgesOK, At, AfterCheck, Owns, Checked
    <2>5. DeletesOK(p)'
        BY <1>1, <1>2, <2>1, <2>2 DEF DeletesOK, At, AfterCheck, Owns, Checked
    <2> QED BY <2>3, <2>4, <2>5
<1> QED BY <1>4 DEF RequestInv

\* What the requests know, whoever moves
LEMMA NextKnows == TypeOK /\ RequestInv /\ [Next]_vars => RequestInv'
<1> SUFFICES ASSUME TypeOK, RequestInv, [Next]_vars PROVE RequestInv'
    OBVIOUS
<1>1. CASE UNCHANGED vars
    BY <1>1 DEF vars, tables, RequestInv, BinsOK, PurgesOK, DeletesOK, At, AfterCheck, Owns,
        Recent, SinceArrival, Checked
<1>2. ASSUME NEW p \in Procs, Handle(p)
      PROVE  RequestInv'
    <2>1. ASSUME NEW q \in Procs \ {p}
          PROVE  BinsOK(q)' /\ PurgesOK(q)' /\ DeletesOK(q)'
        BY <1>2, HandleElsewhere, ElsewhereKeeps DEF RequestInv
    <2>2. BinsOK(p)' /\ PurgesOK(p)' /\ DeletesOK(p)'
        BY <1>2, HandleKnows DEF RequestInv
    <2> QED BY <2>1, <2>2 DEF RequestInv
<1>3. ASSUME NEW w \in Workers, RunOnce(w) \/ Statement(w) \/ PassFails(w)
      PROVE  RequestInv'
    BY <1>3, WorkerElsewhere, ElsewhereKeeps DEF RequestInv
<1> QED BY <1>1, <1>2, <1>3, ArriveKnows, TickKnows DEF Next

\* Hence in every state
LEMMA RequestsKnow == Spec => [](TypeOK /\ DeadlineInv /\ RequestInv)
<1>1. Init => RequestInv
    <2> SUFFICES ASSUME Init PROVE RequestInv
        OBVIOUS
    <2>1. \A p \in Procs : req[p] = Idle /\ txDeleted[p] = {}
        BY DEF Init
    <2>2. NoId \notin Users
        BY RetentionAssumption DEF RetentionAssumption
    <2> QED BY <2>1, <2>2, IdleType DEF RequestInv, BinsOK, PurgesOK, DeletesOK, At, AfterCheck
<1> QED BY <1>1, NextKnows, TypeCorrect, DeadlinesAgree, PTL DEF Spec

-----------------------------------------------------------------------------
(* Deleted accounts, visible entries and deadlines *)

\* An account in the bin got there by its deletion, which takes its agents along.
LEMMA AccountBinned ==
    ASSUME TypeOK, [Next]_vars, NEW u \in Users, InBin(users'[u]), users'[u] # users[u],
           NEW a \in Agents, OwnerOf[a] = u
    PROVE  ~Live(agents'[a])
<1>1. ASSUME NEW p \in Procs, SoftDeleteUser(p)
      PROVE  ~Live(agents'[a])
    <2>1. u = req[p].user
        BY <1>1 DEF SoftDeleteUser, Update, TypeOK, TablesOK
    <2> QED BY <1>1, <2>1 DEF SoftDeleteUser, SoftDeleteAgentsByUser, CascadeDeleted, Marked,
            Coalesce, Live, Present, TypeOK, TablesOK, Row, Stamp, NULL
<1>2. ASSUME NEW p \in Procs, Arrive(p) \/ Handle(p), ~SoftDeleteUser(p)
      PROVE  users' = users
    BY <1>2 DEF Arrive, Authenticate, VerifySigned, Handle, InsertAgent, UndoCreate,
        LoadOwnedAgent, SoftDeleteAgent, GetAgentForPost, InsertEntry, GetAgentForDelete,
        GetEntryForDelete, SoftDeleteEntry, GetEntryInBin, RestoreEntry, HardDeleteEntry,
        GetBinnedAgentForOwner, RestoreAgent, PurgeAgentEntries, PurgeAgentCommit,
        ListBinnedAgents, EmptyAllCascade, EmptyAllEntries, EmptyAllCommit, Return, Reads, tables
<1>3. ASSUME NEW w \in Workers, RunOnce(w) \/ Statement(w) \/ PassFails(w)
      PROVE  users'[u] = users[u] \/ ~Present(users'[u])
    BY <1>3, StatementsRemove DEF RunOnce, Statement, StatementOf, PassFails,
        ForeignKeyError, EndsPass, tables
<1>4. Tick \/ UNCHANGED vars => users' = users
    BY DEF Tick, vars, tables
<1> QED BY <1>1, <1>2, <1>3, <1>4 DEF Next, InBin

\* An agent becomes live by an insert or a restore that its account has asked for.
LEMMA AgentRises ==
    ASSUME TypeOK, RequestInv, [Next]_vars, NEW a \in Agents, Live(agents'[a]), ~Live(agents[a])
    PROVE  /\ UNCHANGED <<now, users>>
           /\ \E p \in Procs : Owns(p, a) /\ Recent(p, users[OwnerOf[a]])
<1>1. OwnerOf[a] \in Users
    BY RetentionAssumption DEF RetentionAssumption
<1>2. ASSUME NEW p \in Procs, InsertAgent(p) \/ RestoreAgent(p)
      PROVE  /\ UNCHANGED <<now, users>>
             /\ Owns(p, a) /\ Recent(p, users[OwnerOf[a]])
    <2>1. req[p].op \in AgentOps /\ Owns(p, req[p].id) /\ UNCHANGED <<now, users>>
        BY <1>2 DEF InsertAgent, RestoreAgent, RequestInv, PurgesOK, At, AgentOps, Writes
    <2>2. a = req[p].id
        BY <1>2 DEF InsertAgent, RestoreAgent, Update, TypeOK, TablesOK
    <2> QED BY <1>1, <2>1, <2>2 DEF RequestInv, BinsOK, Owns
<1>3. ASSUME NEW p \in Procs, Handle(p), ~InsertAgent(p), ~RestoreAgent(p)
      PROVE  FALSE
    <2>1. agents[a].st = "none"
        BY <1>3, OnlyRestoresRevive DEF Revived
    <2>2. /\ agents[a] # agents'[a] /\ ~Present(agents[a]) /\ Present(agents'[a])
          /\ agents = [i \in Agents |-> agents[i]]
        BY <2>1 DEF Live, Present, TypeOK, TablesOK
    <2>3. CASE UndoCreate(p) \/ SoftDeleteAgent(p)
        BY <2>2, <2>3 DEF UndoCreate, SoftDeleteAgent, Update
    <2>4. CASE PurgeAgentCommit(p) \/ EmptyAllCommit(p)
        BY <2>2, <2>4 DEF PurgeAgentCommit, EmptyAllCommit, Update, Delete, Fresh, Present
    <2>5. CASE SoftDeleteUser(p)
        BY <2>2, <2>5 DEF SoftDeleteUser, SoftDeleteAgentsByUser, Live
    <2>6. CASE UNCHANGED agents
        BY <2>2, <2>6
    <2>7. \/ UndoCreate(p) \/ SoftDeleteAgent(p) \/ PurgeAgentCommit(p) \/ EmptyAllCommit(p)
          \/ SoftDeleteUser(p) \/ UNCHANGED agents
        BY <1>3 DEF Handle, LoadOwnedAgent, GetAgentForPost, InsertEntry, GetAgentForDelete,
            GetEntryForDelete, SoftDeleteEntry, GetEntryInBin, RestoreEntry, HardDeleteEntry,
            GetBinnedAgentForOwner, PurgeAgentEntries, ListBinnedAgents, EmptyAllCascade,
            EmptyAllEntries, Return, Reads, tables
    <2> QED BY <2>3, <2>4, <2>5, <2>6, <2>7
<1>4. ASSUME NEW w \in Workers, RunOnce(w) \/ Statement(w) \/ PassFails(w)
      PROVE  FALSE
    BY <1>4, StatementsRemove DEF RunOnce, Statement, StatementOf, PassFails,
        ForeignKeyError, EndsPass, tables, Live
<1>5. ASSUME NEW p \in Procs, Arrive(p)
      PROVE  FALSE
    BY <1>5 DEF Arrive, Authenticate, VerifySigned, Reads, tables
<1>6. ~Tick /\ ~UNCHANGED vars
    BY DEF Tick, vars, tables
<1> QED BY <1>2, <1>3, <1>4, <1>5, <1>6 DEF Next

\* The deletion of an account leaves none of its agents live, and a request that the
\* deletion found under way can bring one back within a tick: nothing can later, however
\* many requests and workers run at once.
THEOREM AccountsStayDown == Spec => DeletedAccountStaysDown
<1> DEFINE Down ==
        \A a \in Agents :
          LET u == OwnerOf[a] IN
          InBin(users'[u]) /\ Live(agents'[a]) =>
              /\ InBin(users[u])
              /\ Live(agents[a]) \/ now <= users[u].removed_at + 1
<1>1. ASSUME TypeOK, RequestInv, [Next]_vars, NEW a \in Agents,
             InBin(users'[OwnerOf[a]]), Live(agents'[a])
      PROVE  /\ InBin(users[OwnerOf[a]])
             /\ Live(agents[a]) \/ now <= users[OwnerOf[a]].removed_at + 1
    <2>1. OwnerOf[a] \in Users /\ users[OwnerOf[a]] \in Row
        BY <1>1, RetentionAssumption DEF RetentionAssumption, TypeOK, TablesOK
    <2>2. InBin(users[OwnerOf[a]])
        BY <1>1, <2>1, AccountBinned
    <2>3. CASE ~Live(agents[a])
        <3>1. PICK p \in Procs : Recent(p, users[OwnerOf[a]])
            BY <1>1, <2>3, AgentRises
        <3> QED BY <1>1, <2>1, <2>2, <3>1 DEF Recent, SinceArrival, Row, Stamp, NULL, TypeOK
    <2> QED BY <2>2, <2>3
<1>2. TypeOK /\ RequestInv /\ [Next]_vars => [Down]_vars
    BY <1>1
<1> QED BY <1>2, RequestsKnow, PTL DEF Spec, DeletedAccountStaysDown

\* A row that is due is not live.
LEMMA DueNotLive ==
    ASSUME NEW r, DeadlineOf(r), Due(r)
    PROVE  ~Live(r)
BY DEF DeadlineOf, Due, Live, InBin

\* A worker takes an entry that the pages show only with its account.
LEMMA WorkerTakes ==
    ASSUME TypeOK, DeadlineInv, NEW w \in Workers, StatementOf(w),
           NEW e \in Entries, Visible(e), Vanishes(entries[e], entries'[e])
    PROVE  WorkerMoves /\ WindowOver(users[OwnerOf[AgentOf[e]]])
<1>1. AgentOf[e] \in Agents /\ OwnerOf[AgentOf[e]] \in Users
    BY RetentionAssumption DEF RetentionAssumption
<1>2. ~Due(entries[e]) /\ ~Due(agents[AgentOf[e]])
    BY <1>1, DueNotLive DEF DeadlineInv, Visible
<1>3. Due(users[OwnerOf[AgentOf[e]]])
    BY <1>1, <1>2, DeleteTakes DEF StatementOf, HardDeleteEntriesForExpiredAgents,
        EntriesOfDueAgents, DueAgents, HardDeleteEntriesForExpiredUsers, EntriesOfDueUsers,
        DueUsers, PurgeExpiredEntries, HardDeleteAgentsForExpiredUsers, PurgeExpiredAgents,
        PurgeExpiredUsers, TypeOK, TablesOK, RowState, Vanishes
<1>4. WindowOver(users[OwnerOf[AgentOf[e]]])
    BY <1>1, <1>3, DueIsOver DEF DeadlineInv, TypeOK, TablesOK
<1>5. step'[w] # step[w]
    BY DEF StatementOf, Executes, HardDeleteEntriesForExpiredAgents,
        HardDeleteEntriesForExpiredUsers, PurgeExpiredEntries,
        HardDeleteAgentsForExpiredUsers, PurgeExpiredAgents, PurgeExpiredUsers, TypeOK
<1> QED BY <1>4, <1>5 DEF WorkerMoves

\* A request takes one only when it purges, and when a restore has overtaken it.
LEMMA RequestTakes ==
    ASSUME TypeOK, RequestInv, NEW p \in Procs, Handle(p),
           NEW e \in Entries, Visible(e), Vanishes(entries[e], entries'[e])
    PROVE  /\ req[p] # Idle /\ req'[p] = Idle
           /\ Owns(p, AgentOf[e])
           /\ {e, AgentOf[e]} \cap req[p].overtaken # {}
<1>1. Live(entries[e]) /\ Live(agents[AgentOf[e]])
    BY DEF Visible
<1>2. CASE HardDeleteEntry(p)
    <2>1. e = req[p].id /\ AfterCheck(p, "PurgeEntry")
        BY <1>2 DEF HardDeleteEntry, Update, Vanishes, At, AfterCheck, TypeOK, TablesOK
    <2>2. Owns(p, AgentOf[e]) /\ e \in req[p].overtaken
        BY <1>1, <2>1 DEF RequestInv, PurgesOK, Checked
    <2> QED BY <1>2, <2>1, <2>2, IdleType DEF HardDeleteEntry, Done, AfterCheck, TypeOK, RequestsOK
<1>3. CASE PurgeAgentCommit(p) \/ EmptyAllCommit(p)
    <2>1. e \in txDeleted[p] /\ req[p].op # "idle" /\ Done(p)
        BY <1>3, DeleteTakes DEF PurgeAgentCommit, EmptyAllCommit, At, TypeOK, TablesOK, RowState
    <2>2. Owns(p, AgentOf[e]) /\ AgentOf[e] \in req[p].overtaken
        BY <1>1, <2>1 DEF RequestInv, DeletesOK, Checked
    <2> QED BY <2>1, <2>2, IdleType DEF Done, TypeOK, RequestsOK
<1>4. CASE InsertEntry(p) \/ SoftDeleteEntry(p) \/ RestoreEntry(p)
    BY <1>4 DEF InsertEntry, SoftDeleteEntry, RestoreEntry, SoftDeleted, Restored, Marked,
        NewRow, Fresh, Update, Vanishes, Present, TypeOK, TablesOK
<1>5. entries' # entries
    BY DEF Vanishes
<1>6. CASE ~HardDeleteEntry(p) /\ ~PurgeAgentCommit(p) /\ ~EmptyAllCommit(p)
           /\ ~InsertEntry(p) /\ ~SoftDeleteEntry(p) /\ ~RestoreEntry(p)
    BY <1>5, <1>6 DEF Handle, InsertAgent, UndoCreate, LoadOwnedAgent, SoftDeleteAgent,
        GetAgentForPost, GetAgentForDelete, GetEntryForDelete, GetEntryInBin,
        GetBinnedAgentForOwner, RestoreAgent, PurgeAgentEntries, ListBinnedAgents,
        EmptyAllCascade, EmptyAllEntries, SoftDeleteUser, Return, Reads, tables
<1> QED BY <1>2, <1>3, <1>4, <1>6

\* An entry that the pages show is hard-deleted only with an account whose grace period
\* is over, or by a purge of its owner that found it, or its agent, in the bin and that
\* a restore overtook: for any number of requests and workers at once.
THEOREM VisibleKept == Spec => VisibleGoesThroughBin
<1> DEFINE Kept == \A e \in Entries : Visible(e) /\ Vanishes(entries[e], entries'[e]) =>
          \/ WorkerMoves /\ WindowOver(users[OwnerOf[AgentOf[e]]])
          \/ \E p \in Procs : /\ req[p] # Idle /\ req'[p] = Idle
                              /\ Owns(p, AgentOf[e])
                              /\ {e, AgentOf[e]} \cap req[p].overtaken # {}
<1>1. ASSUME TypeOK, DeadlineInv, RequestInv, [Next]_vars,
             NEW e \in Entries, Visible(e), Vanishes(entries[e], entries'[e])
      PROVE  \/ WorkerMoves /\ WindowOver(users[OwnerOf[AgentOf[e]]])
             \/ \E p \in Procs : /\ req[p] # Idle /\ req'[p] = Idle
                                 /\ Owns(p, AgentOf[e])
                                 /\ {e, AgentOf[e]} \cap req[p].overtaken # {}
    <2>1. entries' # entries
        BY <1>1 DEF Vanishes
    <2>2. ASSUME NEW p \in Procs, Arrive(p)
          PROVE  FALSE
        BY <2>1, <2>2 DEF Arrive, Authenticate, VerifySigned, Reads, tables
    <2>3. ASSUME NEW w \in Workers, RunOnce(w) \/ Statement(w) \/ PassFails(w)
          PROVE  StatementOf(w)
        BY <2>1, <2>3 DEF RunOnce, Statement, StatementOf, PassFails, ForeignKeyError,
            EndsPass, tables
    <2>4. ~Tick /\ ~UNCHANGED vars
        BY <2>1 DEF Tick, tables, vars
    <2> QED BY <1>1, <2>2, <2>3, <2>4, WorkerTakes, RequestTakes DEF Next
<1>2. TypeOK /\ DeadlineInv /\ RequestInv /\ [Next]_vars => [Kept]_vars
    BY <1>1
<1> QED BY <1>2, RequestsKnow, PTL DEF Spec, VisibleGoesThroughBin

\* A row that is binned again gets a deadline a tick later at most.
LEMMA BinnedAgain ==
    ASSUME TypeOK, NEW p \in Procs, NEW r \in Row, DeadlineOf(r), InBin(r), Recent(p, r)
    PROVE  SoftDeleted(r).hard_delete_at <= r.hard_delete_at + 1
<1>1. /\ r.hard_delete_at = r.removed_at + Grace /\ now <= r.removed_at + 1
      /\ r.removed_at \in Int /\ now \in Int /\ Grace \in Int
    BY RetentionAssumption DEF RetentionAssumption, DeadlineOf, Recent, SinceArrival, Row,
        Stamp, NULL, TypeOK
<1>2. SoftDeleted(r).hard_delete_at = now + Grace
    BY DEF SoftDeleted, Marked
<1> QED BY <1>1, <1>2

\* The deadline of a row in the bin moves by a tick at most, for any number of requests
\* at once: the grace period does not start again.
THEOREM DeadlinesKept == Spec => BinDeadlineKept
<1> DEFINE Later(r, s) == InBin(r) /\ InBin(s) => s.hard_delete_at <= r.hard_delete_at + 1
           Kept == /\ \A a \in Agents : InBin(agents[a]) /\ InBin(agents'[a]) =>
                         agents'[a].hard_delete_at <= agents[a].hard_delete_at + 1
                   /\ \A e \in Entries : InBin(entries[e]) /\ InBin(entries'[e]) =>
                         entries'[e].hard_delete_at <= entries[e].hard_delete_at + 1
<1>1. ASSUME TypeOK, DeadlineInv, RequestInv, [Next]_vars
      PROVE  Kept
    <2>1. /\ \A a \in Agents : Later(agents[a], agents[a])
          /\ \A e \in Entries : Later(entries[e], entries[e])
        BY <1>1 DEF TypeOK, TablesOK, Row, Stamp, NULL
    <2>2. ASSUME NEW w \in Workers, StatementOf(w)
          PROVE  Kept
        BY <1>1, <2>1, <2>2, StatementsRemove DEF InBin
    <2>3. ASSUME NEW p \in Procs, UndoCreate(p) \/ SoftDeleteAgent(p)
          PROVE  Kept
        <3>1. /\ req[p].id \in Agents /\ Recent(p, agents[req[p].id]) /\ UNCHANGED entries
              /\ agents' = Update(agents, req[p].id, SoftDeleted(agents[req[p].id]))
            BY <1>1, <2>3 DEF UndoCreate, SoftDeleteAgent, RequestInv, BinsOK, At, TypeOK,
                RequestsOK, AgentOps
        <3>2. Later(agents[req[p].id], SoftDeleted(agents[req[p].id]))
            BY <1>1, <3>1, BinnedAgain DEF DeadlineInv, TypeOK, TablesOK
        <3> QED BY <1>1, <2>1, <3>1, <3>2 DEF Update, TypeOK, TablesOK
    <2>4. ASSUME NEW p \in Procs, SoftDeleteEntry(p)
          PROVE  Kept
        <3>1. /\ req[p].id \in Entries /\ Recent(p, entries[req[p].id]) /\ UNCHANGED agents
              /\ entries' = Update(entries, req[p].id, SoftDeleted(entries[req[p].id]))
            BY <1>1, <2>4 DEF SoftDeleteEntry, RequestInv, BinsOK, At, TypeOK, RequestsOK, EntryOps
        <3>2. Later(entries[req[p].id], SoftDeleted(entries[req[p].id]))
            BY <1>1, <3>1, BinnedAgain DEF DeadlineInv, TypeOK, TablesOK
        <3> QED BY <1>1, <2>1, <3>1, <3>2 DEF Update, TypeOK, TablesOK
    <2>5. ASSUME NEW p \in Procs, Handle(p), ~UndoCreate(p), ~SoftDeleteAgent(p), ~SoftDeleteEntry(p)
          PROVE  Kept
        <3>1. /\ \A a \in Agents : InBin(agents[a]) /\ InBin(agents'[a]) => agents'[a] = agents[a]
              /\ \A e \in Entries : InBin(entries[e]) /\ InBin(entries'[e]) => entries'[e] = entries[e]
            <4>1. CASE InsertAgent(p) \/ InsertEntry(p)
                BY <1>1, <4>1 DEF InsertAgent, InsertEntry, NewRow, NoRow, Fresh, InBin, TypeOK, TablesOK
            <4>2. CASE RestoreAgent(p) \/ RestoreEntry(p) \/ HardDeleteEntry(p)
                BY <1>1, <4>2 DEF RestoreAgent, RestoreEntry, HardDeleteEntry, Update, Restored,
                    Marked, Fresh, InBin, TypeOK, TablesOK
            <4>3. CASE PurgeAgentCommit(p) \/ EmptyAllCommit(p)
                BY <1>1, <4>3 DEF PurgeAgentCommit, EmptyAllCommit, Update, Delete, Fresh, InBin,
                    TypeOK, TablesOK
            <4>4. CASE SoftDeleteUser(p)
                BY <4>4 DEF SoftDeleteUser, SoftDeleteAgentsByUser, InBin, Live
            <4>5. CASE UNCHANGED <<agents, entries>>
                BY <4>5
            <4> QED BY <2>5, <4>1, <4>2, <4>3, <4>4, <4>5 DEF Handle, LoadOwnedAgent,
                    GetAgentForPost, GetAgentForDelete, GetEntryForDelete, GetEntryInBin,
                    GetBinnedAgentForOwner, PurgeAgentEntries, ListBinnedAgents,
                    EmptyAllCascade, EmptyAllEntries, Return, Reads, tables
        <3> QED BY <2>1, <3>1
    <2>6. CASE UNCHANGED <<agents, entries>>
        BY <2>1, <2>6
    <2>7. ASSUME NEW p \in Procs, Arrive(p)
          PROVE  UNCHANGED <<agents, entries>>
        BY <2>7 DEF Arrive, Authenticate, VerifySigned, Reads, tables
    <2>8. ASSUME NEW w \in Workers, RunOnce(w) \/ Statement(w) \/ PassFails(w)
          PROVE  UNCHANGED <<agents, entries>> \/ StatementOf(w)
        BY <2>8 DEF RunOnce, Statement, StatementOf, PassFails, ForeignKeyError, EndsPass, tables
    <2>9. Tick \/ UNCHANGED vars => UNCHANGED <<agents, entries>>
        BY DEF Tick, tables, vars
    <2> QED BY <1>1, <2>2, <2>3, <2>4, <2>5, <2>6, <2>7, <2>8, <2>9 DEF Next
<1>2. TypeOK /\ DeadlineInv /\ RequestInv /\ [Next]_vars => [Kept]_vars
    BY <1>1
<1> QED BY <1>2, RequestsKnow, PTL DEF Spec, BinDeadlineKept

\* When the bin has been emptied, however many agents and entries there are and whoever
\* else is at work, nothing of the caller is left in it but entries binned since the
\* request came, and no agent that was not in it has gone.
THEOREM BinEmptied == Spec => EmptyAllEmptiesBin
<1> DEFINE Emptied == \A p \in Procs : EmptyAllCommit(p) =>
          /\ \A a \in AgentsOf(req[p].user) :
                ~InBin(agents'[a]) /\ (Live(agents[a]) => Live(agents'[a]))
          /\ \A e \in Entries : OwnerOf[AgentOf[e]] = req[p].user /\ InBin(entries'[e]) =>
                SinceArrival(p, entries[e])
<1>1. ASSUME TypeOK, RequestInv, NEW p \in Procs, EmptyAllCommit(p)
      PROVE  /\ \A a \in AgentsOf(req[p].user) :
                   ~InBin(agents'[a]) /\ (Live(agents[a]) => Live(agents'[a]))
             /\ \A e \in Entries : OwnerOf[AgentOf[e]] = req[p].user /\ InBin(entries'[e]) =>
                   SinceArrival(p, entries[e])
    <2>1. /\ agents' = Delete(agents, BinnedAgentsOf(req[p].user), "purged")
          /\ entries' = Delete(entries, txDeleted[p], "cascaded")
          /\ \A e \in Entries \ txDeleted[p] : Owns(p, AgentOf[e]) => Recent(p, entries[e])
        BY <1>1 DEF EmptyAllCommit, RequestInv, DeletesOK
    <2>2. ASSUME NEW a \in AgentsOf(req[p].user)
          PROVE  ~InBin(agents'[a]) /\ (Live(agents[a]) => Live(agents'[a]))
        BY <1>1, <2>1, <2>2 DEF AgentsOf, BinnedAgentsOf, Delete, Fresh, InBin, Live, Present,
            TypeOK, TablesOK
    <2>3. ASSUME NEW e \in Entries, OwnerOf[AgentOf[e]] = req[p].user, InBin(entries'[e])
          PROVE  SinceArrival(p, entries[e])
        <3>1. e \notin txDeleted[p] /\ entries'[e] = entries[e]
            BY <1>1, <2>1, <2>3 DEF Delete, Fresh, InBin, TypeOK, TablesOK
        <3> QED BY <2>1, <2>3, <3>1 DEF Owns, Recent
    <2> QED BY <2>2, <2>3
<1>2. TypeOK /\ RequestInv /\ [Next]_vars => [Emptied]_vars
    BY <1>1
<1> QED BY <1>2, RequestsKnow, PTL DEF Spec, EmptyAllEmptiesBin
=============================================================================
