---------------------------- MODULE ServerProofs ----------------------------
(***************************************************************************)
(* Theorems about Server, for any number of machines, slots, connections   *)
(* and migrations: the schema is migrated once, whoever starts at the same *)
(* time and whoever is killed, and nothing is served without it.           *)
(***************************************************************************)
EXTENDS Server, TLAPS

-----------------------------------------------------------------------------
(* The inductive invariant *)

States == Stopped \cup {"locking", "locked", "marked", "applied", "migrated",
                        "pooled", "connected", "serving", "returned", "closing"}
Past == {"migrated", "pooled", "connected", "serving", "returned", "closing"}

SchemaType ==
    /\ version \in 0..Migrations /\ dirty \in BOOLEAN
    /\ applied \in Seq(1..Migrations)
    /\ lock \in Machines \cup {NULL}
    /\ seen \in [Machines -> 0..Migrations]
    /\ pc \in [Machines -> States]

\* Without its mark, the version is that of the schema
Unmarked == ~dirty => version = Len(applied)

\* A machine that migrates holds the lock, and knows how far it has come; one that is
\* past the migrations has found all of them applied.
MachineOK(m) ==
    /\ pc[m] = "locked" => lock = m /\ ~dirty /\ seen[m] = Len(applied)
    /\ pc[m] = "marked" => /\ lock = m /\ dirty
                           /\ version = seen[m] /\ seen[m] = Len(applied) + 1
    /\ pc[m] = "applied" => /\ lock = m /\ dirty
                            /\ version = seen[m] /\ seen[m] = Len(applied)
    /\ pc[m] \in Past => Len(applied) = Migrations /\ ~dirty
    /\ lock = m => pc[m] \in {"locked", "marked", "applied"}

SInv ==
    /\ SchemaType /\ MigratedOnce /\ Unmarked
    /\ \A m \in Machines : MachineOK(m)

schema == <<version, dirty, applied, lock, seen>>

-----------------------------------------------------------------------------
(* The steps of a start, one by one *)

\* The steps that leave the schema and the lock alone
Rests(m) ==
    /\ UNCHANGED schema
    /\ \E s \in States :
          /\ pc' = [pc EXCEPT ![m] = s]
          /\ s \notin {"locked", "marked", "applied"}
          /\ pc[m] \notin {"locked", "marked", "applied"}
          /\ s \in Past => pc[m] \in Past

\* A step of the start or the stop outside the migrations keeps the invariant: nobody
\* gets past them without having done them.
LEMMA RestsKeep ==
    ASSUME SInv, NEW m \in Machines, Rests(m)
    PROVE  SInv'
<1>1. PICK s \in States : /\ pc' = [pc EXCEPT ![m] = s]
                          /\ s \notin {"locked", "marked", "applied"}
                          /\ pc[m] \notin {"locked", "marked", "applied"}
                          /\ s \in Past => pc[m] \in Past
    BY DEF Rests
<1>2. pc' \in [Machines -> States] /\ pc'[m] = s /\ \A n \in Machines \ {m} : pc'[n] = pc[n]
    BY <1>1 DEF SInv, SchemaType
<1>3. SchemaType' /\ MigratedOnce' /\ Unmarked'
    BY <1>2 DEF Rests, schema, SInv, SchemaType, MigratedOnce, Unmarked
<1>4. ASSUME NEW n \in Machines PROVE MachineOK(n)'
    <2>1. CASE n = m
        BY <1>1, <1>2, <2>1 DEF Rests, schema, SInv, MachineOK
    <2>2. CASE n # m
        BY <1>2, <2>2 DEF Rests, schema, SInv, MachineOK
    <2> QED BY <2>1, <2>2
<1> QED BY <1>3, <1>4 DEF SInv

\* What the others know when one machine has the lock and marks, migrates or clears
LEMMA LockedOut ==
    ASSUME SInv, NEW m \in Machines, pc[m] \in {"locked", "marked", "applied"},
           NEW n \in Machines \ {m}
    PROVE  lock = m /\ pc[n] \notin {"locked", "marked", "applied"}
BY DEF SInv, MachineOK

\* The lock is taken while nobody holds it, and the version is that of the schema.
LEMMA LockKeeps ==
    ASSUME SInv, NEW m \in Machines, LockMigrations(m)
    PROVE  SInv'
<1>1. /\ lock = NULL /\ lock' = m /\ ~dirty /\ UNCHANGED <<version, dirty, applied>>
      /\ NULL \notin Machines
    BY ServerAssumption DEF LockMigrations, MayLock, ServerAssumption
<1>2. /\ pc' \in [Machines -> States] /\ pc'[m] = "locked"
      /\ seen' \in [Machines -> 0..Migrations] /\ seen'[m] = version
      /\ \A n \in Machines \ {m} : pc'[n] = pc[n] /\ seen'[n] = seen[n]
    BY DEF LockMigrations, Goto, SInv, SchemaType, States
<1>3. SchemaType' /\ MigratedOnce' /\ Unmarked'
    BY <1>1, <1>2 DEF SInv, SchemaType, MigratedOnce, Unmarked
<1>4. ASSUME NEW n \in Machines PROVE MachineOK(n)'
    <2>1. CASE n = m
        BY <1>1, <1>2, <2>1 DEF SInv, Unmarked, MachineOK, Past
    <2>2. CASE n # m
        BY <1>1, <1>2, <2>2 DEF SInv, MachineOK
    <2> QED BY <2>1, <2>2
<1> QED BY <1>3, <1>4 DEF SInv

\* The mark names the next migration; nobody is past the migrations then.
LEMMA MarkKeeps ==
    ASSUME SInv, NEW m \in Machines, SetDirty(m)
    PROVE  SInv'
<1>1. /\ pc[m] = "locked" /\ seen[m] < Migrations /\ seen[m] = Len(applied) /\ lock = m
      /\ Migrations \in Nat /\ seen[m] \in 0..Migrations
    BY ServerAssumption DEF SetDirty, Goto, SInv, SchemaType, MachineOK, ServerAssumption
<1>2. /\ pc' \in [Machines -> States] /\ pc'[m] = "marked"
      /\ seen' = [seen EXCEPT ![m] = seen[m] + 1]
      /\ \A n \in Machines \ {m} : pc'[n] = pc[n]
    BY DEF SetDirty, Goto, SInv, SchemaType, States
<1>3. /\ seen' \in [Machines -> 0..Migrations] /\ seen'[m] = seen[m] + 1
      /\ version' = seen[m] + 1 /\ dirty' = TRUE /\ UNCHANGED <<applied, lock>>
    BY <1>1, <1>2 DEF SetDirty, SInv, SchemaType
<1>4. SchemaType' /\ MigratedOnce' /\ Unmarked'
    BY <1>1, <1>2, <1>3 DEF SInv, SchemaType, MigratedOnce, Unmarked
<1>5. ASSUME NEW n \in Machines PROVE MachineOK(n)'
    <2>1. CASE n = m
        BY <1>1, <1>2, <1>3, <2>1 DEF MachineOK, Past
    <2>2. CASE n # m
        <3>1. pc[n] \notin Past /\ pc[n] \notin {"locked", "marked", "applied"}
            BY <1>1, <2>2, LockedOut DEF SInv, MachineOK
        <3> QED BY <1>1, <1>2, <1>3, <2>2, <3>1 DEF MachineOK
    <2> QED BY <2>1, <2>2
<1> QED BY <1>4, <1>5 DEF SInv

\* The migration that the mark names is the one that is missing.
LEMMA MigrationKeeps ==
    ASSUME SInv, NEW m \in Machines, RunMigration(m)
    PROVE  SInv'
<1>1. /\ pc[m] = "marked" /\ seen[m] = Len(applied) + 1 /\ version = seen[m] /\ dirty /\ lock = m
      /\ seen[m] \in 1..Migrations /\ Migrations \in Nat
    BY ServerAssumption DEF RunMigration, Goto, SInv, SchemaType, MachineOK, ServerAssumption
<1>2. /\ pc' \in [Machines -> States] /\ pc'[m] = "applied"
      /\ \A n \in Machines \ {m} : pc'[n] = pc[n]
    BY DEF RunMigration, Goto, SInv, SchemaType, States
<1>3. applied' = Append(applied, seen[m]) /\ UNCHANGED <<version, dirty, lock, seen>>
    BY DEF RunMigration
<1>4. /\ applied' \in Seq(1..Migrations) /\ Len(applied') = seen[m]
      /\ \A i \in DOMAIN applied' : applied'[i] = IF i = Len(applied) + 1 THEN seen[m] ELSE applied[i]
    BY <1>1, <1>3 DEF SInv, SchemaType
<1>5. MigratedOnce'
    <2>1. DOMAIN applied' = 1..(Len(applied) + 1) /\ DOMAIN applied = 1..Len(applied)
              /\ Len(applied) \in Nat
        BY <1>1, <1>4 DEF SInv, SchemaType
    <2> QED BY <1>1, <1>4, <2>1 DEF SInv, MigratedOnce
<1>6. SchemaType' /\ Unmarked'
    BY <1>1, <1>2, <1>3, <1>4 DEF SInv, SchemaType, Unmarked
<1>7. ASSUME NEW n \in Machines PROVE MachineOK(n)'
    <2>1. CASE n = m
        BY <1>1, <1>2, <1>3, <1>4, <2>1 DEF MachineOK, Past
    <2>2. CASE n # m
        <3>1. pc[n] \notin Past /\ pc[n] \notin {"locked", "marked", "applied"}
            BY <1>1, <2>2, LockedOut DEF SInv, MachineOK
        <3> QED BY <1>1, <1>2, <1>3, <2>2, <3>1 DEF MachineOK
    <2> QED BY <2>1, <2>2
<1> QED BY <1>5, <1>6, <1>7 DEF SInv

\* The mark is cleared when its migration is applied.
LEMMA ClearKeeps ==
    ASSUME SInv, NEW m \in Machines, SetClean(m)
    PROVE  SInv'
<1>1. pc[m] = "applied" /\ seen[m] = Len(applied) /\ version = seen[m] /\ lock = m /\ dirty
    BY DEF SetClean, Goto, SInv, MachineOK
<1>2. /\ pc' \in [Machines -> States] /\ pc'[m] = "locked"
      /\ \A n \in Machines \ {m} : pc'[n] = pc[n]
    BY DEF SetClean, Goto, SInv, SchemaType, States
<1>3. dirty' = FALSE /\ UNCHANGED <<version, applied, lock, seen>>
    BY DEF SetClean
<1>4. SchemaType' /\ MigratedOnce' /\ Unmarked'
    BY <1>1, <1>2, <1>3 DEF SInv, SchemaType, MigratedOnce, Unmarked
<1>5. ASSUME NEW n \in Machines PROVE MachineOK(n)'
    <2>1. CASE n = m
        BY <1>1, <1>2, <1>3, <2>1 DEF MachineOK, Past
    <2>2. CASE n # m
        <3>1. pc[n] \notin {"locked", "marked", "applied"}
            BY <1>1, <2>2, LockedOut
        <3> QED BY <1>1, <1>2, <1>3, <2>2, <3>1 DEF SInv, MachineOK
    <2> QED BY <2>1, <2>2
<1> QED BY <1>4, <1>5 DEF SInv

\* Whoever has the lock gives it up with all migrations applied, with an error, or by
\* being killed; whoever has not leaves it alone.
LEMMA UnlockKeeps ==
    ASSUME SInv, NEW m \in Machines, Unlocked(m), UNCHANGED <<version, dirty, applied, seen>>,
           NEW s \in {"migrated", "failed", "crashed"}, pc' = [pc EXCEPT ![m] = s],
           s = "migrated" => pc[m] = "locked" /\ seen[m] = Migrations
    PROVE  SInv'
<1>1. /\ pc' \in [Machines -> States] /\ pc'[m] = s
      /\ \A n \in Machines \ {m} : pc'[n] = pc[n]
    BY DEF SInv, SchemaType, States, Stopped
<1>2. /\ lock' \in Machines \cup {NULL} /\ lock' # m /\ \A n \in Machines \ {m} : lock' = n <=> lock = n
    BY ServerAssumption DEF Unlocked, SInv, SchemaType, ServerAssumption
<1>3. SchemaType' /\ MigratedOnce' /\ Unmarked'
    BY <1>1, <1>2 DEF SInv, SchemaType, MigratedOnce, Unmarked
<1>4. ASSUME NEW n \in Machines PROVE MachineOK(n)'
    <2>1. CASE n = m
        BY <1>1, <1>2, <2>1 DEF SInv, MachineOK, Past
    <2>2. CASE n # m
        BY <1>1, <1>2, <2>2 DEF SInv, MachineOK
    <2> QED BY <2>1, <2>2
<1> QED BY <1>3, <1>4 DEF SInv

-----------------------------------------------------------------------------
(* The invariant *)

\* At first there is no schema, and no machine runs.
LEMMA InitSInv == Init => SInv
<1> SUFFICES ASSUME Init PROVE SInv
    OBVIOUS
<1>1. SchemaType
    <2>1. Migrations \in Nat /\ 0 \in 0..Migrations /\ <<>> \in Seq(1..Migrations)
        BY ServerAssumption DEF ServerAssumption
    <2> QED BY <2>1 DEF Init, SchemaType, States, Stopped
<1>2. MigratedOnce /\ Unmarked
    BY DEF Init, MigratedOnce, Unmarked
<1>3. ASSUME NEW m \in Machines PROVE MachineOK(m)
    BY ServerAssumption DEF Init, MachineOK, Past, ServerAssumption
<1> QED BY <1>1, <1>2, <1>3 DEF SInv

\* A step that concerns neither the schema nor how far a machine has come
LEMMA StayKeeps ==
    ASSUME SInv, UNCHANGED <<schema, pc>>
    PROVE  SInv'
BY DEF SInv, schema, SchemaType, MigratedOnce, Unmarked, MachineOK

\* Every step keeps the invariant.
LEMMA NextSInv == SInv /\ [Next]_vars => SInv'
<1> SUFFICES ASSUME SInv, [Next]_vars PROVE SInv'
    OBVIOUS
<1>1. CASE UNCHANGED vars
    BY <1>1, StayKeeps DEF vars, schema
<1>2. ASSUME NEW m \in Machines, NEW j \in Slots,
             \/ Admit(m, j) \/ BeginPass(m, j) \/ Takes(m, j) \/ Works(m, j)
             \/ Running(m) /\ (TxFails(m, j) \/ JobFails(m, j))
      PROVE  UNCHANGED <<schema, pc>>
    BY <1>2 DEF Admit, BeginPass, Takes, Acquire, BeginTx, Works, Executed, TxStatements,
       CommitTx, Finish, TxFails, JobFails, dbVars, schema
<1>3. ASSUME NEW m \in Machines, Boot(m)
      PROVE  Rests(m)
    BY <1>3 DEF Boot, Rests, schema, dbVars, States, Stopped, Past
<1>4. ASSUME NEW m \in Machines,
             NewPool(m) \/ NewClient(m) \/ StartFails(m) \/ ListenAndServe(m) \/ Stop(m)
      PROVE  Rests(m)
    BY <1>4 DEF NewPool, NewClient, StartFails, ListenAndServe, Stop, Shutdown, ClosePool, Exit,
       Goto, Rests, schema, dbVars, States, Stopped, Past
<1>5. ASSUME NEW m \in Machines, UpToDate(m) PROVE SInv'
    BY <1>5, UnlockKeeps DEF UpToDate, Goto
<1>6. ASSUME NEW m \in Machines, MigrateFails(m) \/ Crash(m) PROVE SInv'
    BY <1>6, UnlockKeeps DEF MigrateFails, GivesUp, Crash
<1>7. ASSUME NEW m \in Machines, Signal(m) PROVE UNCHANGED <<schema, pc>>
    BY <1>7 DEF Signal, dbVars, schema
<1>8. ASSUME NEW m \in Machines, Start(m) PROVE SInv'
    BY <1>4, <1>5, <1>6, <1>8, LockKeeps, MarkKeeps, MigrationKeeps, ClearKeeps, RestsKeep DEF Start
<1> QED BY <1>1, <1>2, <1>3, <1>4, <1>6, <1>7, <1>8, StayKeeps, RestsKeep DEF Next

\* A machine that migrates holds the lock and goes on from what is applied, however
\* many machines start at once and whoever is killed between two statements.
THEOREM SchemaInvariant == Spec => []SInv
BY InitSInv, NextSInv, PTL DEF Spec

\* Each migration is committed at most once, and in its order.
THEOREM MigrationsOnce == Spec => []MigratedOnce
<1>1. SInv => MigratedOnce
    BY DEF SInv
<1> QED BY <1>1, SchemaInvariant, PTL

\* Whatever is served or purged, is by a machine whose schema is that of its binary.
THEOREM ServedMigrated == Spec => []ServesMigrated
<1>1. SInv => ServesMigrated
    BY DEF SInv, MachineOK, Past, ServesMigrated, PoolOpen
<1> QED BY <1>1, SchemaInvariant, PTL

-----------------------------------------------------------------------------
(* Type correctness *)

JobType == [kind : {"none", "request", "pass"},
            st : {"between", "running", "begun", "worked", "leaked"}, left : 0..MaxSteps]
\* A job that has a connection has a statement to do with it.
GoodJob == {r \in JobType : r.st # "between" => r.left > 0}
JobsOK == job \in [Machines -> [Slots -> GoodJob]]

\* A job that goes on, to its next state or with one statement less, is a job.
LEMMA JobGoesOn ==
    ASSUME NEW r \in GoodJob, r.left > 0
    PROVE  /\ \A s \in {"running", "begun", "worked"} : [r EXCEPT !.st = s] \in GoodJob
           /\ [r EXCEPT !.st = "between", !.left = @ - 1] \in GoodJob
<1>1. r \in JobType /\ MaxSteps \in Nat /\ r.left \in 0..MaxSteps
    BY ServerAssumption DEF GoodJob, JobType, ServerAssumption
<1>2. r.left - 1 \in 0..MaxSteps
    BY <1>1
<1>3. ASSUME NEW s \in {"running", "begun", "worked"}
      PROVE  [r EXCEPT !.st = s] \in GoodJob
    <2>1. [r EXCEPT !.st = s] \in JobType /\ [r EXCEPT !.st = s].left = r.left
        BY <1>1 DEF JobType
    <2> QED BY <2>1 DEF GoodJob
<1>4. [r EXCEPT !.st = "between", !.left = @ - 1] \in GoodJob
    <2> DEFINE q == [r EXCEPT !.st = "between", !.left = @ - 1]
    <2>1. q \in JobType /\ q.st = "between"
        BY <1>1, <1>2 DEF JobType
    <2> QED BY <2>1 DEF GoodJob
<1> QED BY <1>3, <1>4

\* No job, a request with statements to do, and a pass are jobs.
LEMMA NewJob ==
    /\ NoJob \in GoodJob
    /\ \A k \in {"request", "pass"}, n \in 1..MaxSteps : Job(k, n) \in GoodJob
    /\ MaxSteps \in 1..MaxSteps
BY ServerAssumption DEF NoJob, Job, GoodJob, JobType, ServerAssumption

\* One job that becomes another keeps the type of all.
LEMMA OneJob ==
    ASSUME JobsOK, NEW m \in Machines, NEW j \in Slots, NEW r \in GoodJob,
           job' = [job EXCEPT ![m][j] = r]
    PROVE  JobsOK'
BY DEF JobsOK

\* Two fields of a job that change in one assignment
LEMMA TwoFields ==
    ASSUME NEW S, NEW f \in [Machines -> [Slots -> S]], NEW m \in Machines, NEW j \in Slots,
           f[m][j] \in JobType
    PROVE  [f EXCEPT ![m][j].st = "between", ![m][j].left = @ - 1]
              = [f EXCEPT ![m][j] = [f[m][j] EXCEPT !.st = "between", !.left = @ - 1]]
<1>1. [f[m][j] EXCEPT !.st = "between"].left = f[m][j].left
    BY DEF JobType
<1> QED BY <1>1

\* Every step of the jobs keeps their type.
LEMMA NextJobs == JobsOK /\ [Next]_vars => JobsOK'
<1> SUFFICES ASSUME JobsOK, [Next]_vars PROVE JobsOK'
    OBVIOUS
<1>1. CASE UNCHANGED job
    BY <1>1 DEF JobsOK
<1>2. ASSUME NEW m \in Machines, Boot(m) PROVE JobsOK'
    BY <1>2, NewJob DEF Boot, JobsOK
<1>3. ASSUME NEW m \in Machines, NEW j \in Slots,
             Finish(m, j) \/ TxFails(m, j) \/ JobFails(m, j)
      PROVE  JobsOK'
    BY <1>3, NewJob, OneJob DEF Finish, TxFails, JobFails, Becomes, RolledBack
<1>4. ASSUME NEW m \in Machines, NEW j \in Slots, Admit(m, j) \/ BeginPass(m, j)
      PROVE  JobsOK'
    BY <1>4, NewJob, OneJob DEF Admit, BeginPass, Becomes
<1>5. ASSUME NEW m \in Machines, NEW j \in Slots, Takes(m, j)
      PROVE  JobsOK'
    <2> DEFINE r == job[m][j]
    <2>1. r \in GoodJob /\ r.left > 0
        BY <1>5 DEF JobsOK, Takes, Acquire, BeginTx
    <2>2. PICK s \in {"running", "begun"} : job' = [job EXCEPT ![m][j] = [r EXCEPT !.st = s]]
        BY <1>5 DEF Takes, Acquire, BeginTx
    <2> QED BY <2>1, <2>2, JobGoesOn, OneJob
<1>6. ASSUME NEW m \in Machines, NEW j \in Slots, Executed(m, j) \/ TxStatements(m, j) \/ CommitTx(m, j)
      PROVE  JobsOK'
    <2> DEFINE r == job[m][j]
    <2>1. r \in GoodJob /\ r.left > 0
        BY <1>6 DEF JobsOK, GoodJob, Executed, TxStatements, CommitTx
    <2>2. \/ job' = [job EXCEPT ![m][j] = [r EXCEPT !.st = "worked"]]
          \/ job' = [job EXCEPT ![m][j] = [r EXCEPT !.st = "between", !.left = @ - 1]]
        <3>1. CASE TxStatements(m, j)
            BY <3>1 DEF TxStatements
        <3>2. CASE Executed(m, j) \/ CommitTx(m, j)
            <4>1. job' = [job EXCEPT ![m][j].st = "between", ![m][j].left = @ - 1]
                BY <3>2 DEF Executed, CommitTx
            <4>2. job \in [Machines -> [Slots -> GoodJob]] /\ r \in JobType
                BY <2>1 DEF JobsOK, GoodJob
            <4> QED BY <4>1, <4>2, TwoFields
        <3> QED BY <1>6, <3>1, <3>2
    <2> QED BY <2>1, <2>2, JobGoesOn, OneJob
<1>7. ASSUME NEW m \in Machines, Start(m) \/ Stop(m) \/ Signal(m) \/ Crash(m)
      PROVE  UNCHANGED job
    BY <1>7 DEF Start, LockMigrations, SetDirty, RunMigration, SetClean, UpToDate, MigrateFails,
       NewPool, NewClient, StartFails, ListenAndServe, Stop, Shutdown, ClosePool, Exit, Signal, Crash
<1> QED BY <1>1, <1>2, <1>3, <1>4, <1>5, <1>6, <1>7 DEF Next, Works, vars

SignalOK == signalled \in [Machines -> BOOLEAN]

\* A machine's signal is a flag that only Boot and Signal touch.
LEMMA NextSignalled == SignalOK /\ [Next]_vars => SignalOK'
<1> SUFFICES ASSUME SignalOK, [Next]_vars PROVE SignalOK'
    OBVIOUS
<1>1. ASSUME NEW m \in Machines, Boot(m) \/ Signal(m) PROVE SignalOK'
    BY <1>1 DEF SignalOK, Boot, Signal
<1>2. ASSUME NEW m \in Machines, Start(m) \/ Stop(m) \/ Crash(m) PROVE UNCHANGED signalled
    BY <1>2 DEF Start, LockMigrations, SetDirty, RunMigration, SetClean, UpToDate, MigrateFails,
       NewPool, NewClient, StartFails, ListenAndServe, Stop, Shutdown, ClosePool, Exit, Crash
<1>3. ASSUME NEW m \in Machines, NEW j \in Slots,
             \/ Admit(m, j) \/ BeginPass(m, j) \/ Takes(m, j) \/ Works(m, j)
             \/ Running(m) /\ (TxFails(m, j) \/ JobFails(m, j))
      PROVE  UNCHANGED signalled
    BY <1>3 DEF Admit, BeginPass, Takes, Acquire, BeginTx, Works, Executed, TxStatements,
       CommitTx, Finish, TxFails, JobFails
<1> QED BY <1>1, <1>2, <1>3 DEF Next, vars, SignalOK

\* Every variable of Server has its type, for any number of machines and slots.
THEOREM ServerTypeCorrect == Spec => []TypeOK
<1>1. Init => JobsOK /\ SignalOK
    BY NewJob DEF Init, JobsOK, SignalOK
<1>2. SInv /\ JobsOK /\ SignalOK => TypeOK
    <2> SUFFICES ASSUME SInv, JobsOK, SignalOK PROVE TypeOK
        OBVIOUS
    <2>1. lock # NULL => pc[lock] \in {"locked", "marked", "applied"}
        BY DEF SInv, SchemaType, MachineOK
    <2>2. job \in [Machines -> [Slots -> JobType]]
        BY DEF JobsOK, GoodJob
    <2> QED BY <2>1, <2>2 DEF SInv, SchemaType, TypeOK, States, JobType, SignalOK
<1> QED BY <1>1, <1>2, NextJobs, NextSignalled, SchemaInvariant, PTL DEF Spec
=============================================================================
