------------------------------- MODULE Server -------------------------------
(***************************************************************************)
(* The life of the machines that run diarion-api: migrations, pools,       *)
(* serving, the signal, Shutdown and exit, with what is in flight           *)
(* meanwhile: requests and passes of the purge worker, each a sequence of  *)
(* statements or transactions on connections of the pool.                  *)
(*                                                                         *)
(* ListenAndServe returns when Shutdown begins, and run returns then,      *)
(* which closes the pool: Close waits for the connections that are in use, *)
(* and not for requests that are between two statements.                   *)
(***************************************************************************)
EXTENDS Integers, Sequences, FiniteSets

CONSTANTS
    Machines,
    Loaded,      \* bound on the machines whose requests and passes are followed
    Slots,       \* bound on what one of them has in flight
    MaxConns,    \* pgxpool's MaxConns
    MaxSteps,    \* statements or transactions to a request
    Migrations,  \* the number of migrations in the binary
    NULL

ASSUME ServerAssumption ==
    /\ NULL \notin Machines /\ Loaded \in SUBSET Machines
    /\ MaxConns \in Nat \ {0} /\ MaxSteps \in Nat \ {0} /\ Migrations \in Nat \ {0}

VARIABLES
    version,    \* schema_migrations.version, 0 for none
    dirty,      \* schema_migrations.dirty
    applied,    \* history: the migrations that have been committed, in their order
    lock,       \* the machine that holds the advisory lock
    seen,       \* the version that each machine has read, or gone on to
    pc,         \* how far each machine's run has come
    signalled,  \* whether its context is cancelled
    job         \* what is in flight in each slot of each machine

dbVars == <<version, dirty, applied, lock, seen>>
vars == <<version, dirty, applied, lock, seen, pc, signalled, job>>

Stopped == {"exited", "failed", "crashed"}

-----------------------------------------------------------------------------
(* Jobs *)

\* left: the statements or transactions to come
Job(kind, left) == [kind |-> kind, st |-> "between", left |-> left]
NoJob == [kind |-> "none", st |-> "between", left |-> 0]

\* The slots whose job has a connection; "leaked": nobody gives it back any more
InUse(m) == {j \in Slots : job[m][j].st \in {"running", "begun", "worked", "leaked"}}
PoolOpen(m) == pc[m] \in {"pooled", "connected", "serving", "returned"}
FreeConn(m) == PoolOpen(m) /\ Cardinality(InUse(m)) < MaxConns

Becomes(m, j, r) == job' = [job EXCEPT ![m][j] = r]

-----------------------------------------------------------------------------
(* Start *)

Goto(m, from, to) == pc[m] = from /\ pc' = [pc EXCEPT ![m] = to]

\* A machine starts anew, whatever has become of it before
Boot(m) ==
    /\ pc[m] \in Stopped
    /\ pc' = [pc EXCEPT ![m] = "locking"]
    /\ signalled' = [signalled EXCEPT ![m] = FALSE]
    /\ job' = [job EXCEPT ![m] = [j \in Slots |-> NoJob]]
    /\ UNCHANGED dbVars

\* Mutant: migrations without a lock
GoesAhead(m) == TRUE
MayLock(m) == lock = NULL

\* db.Migrate: m.Up takes the advisory lock and reads the version; it does not look at
\* the context
LockMigrations(m) ==
    /\ MayLock(m) /\ ~dirty
    /\ Goto(m, "locking", "locked")
    /\ lock' = m
    /\ seen' = [seen EXCEPT ![m] = version]
    /\ UNCHANGED <<version, dirty, applied, signalled, job>>

\* The version is marked before the migration and cleared after it, in statements of
\* their own; the migration is one transaction
SetDirty(m) ==
    /\ seen[m] < Migrations
    /\ Goto(m, "locked", "marked")
    /\ seen' = [seen EXCEPT ![m] = @ + 1]
    /\ version' = seen'[m] /\ dirty' = TRUE
    /\ UNCHANGED <<applied, lock, signalled, job>>

RunMigration(m) ==
    /\ Goto(m, "marked", "applied")
    /\ applied' = Append(applied, seen[m])
    /\ UNCHANGED <<version, dirty, lock, seen, signalled, job>>

SetClean(m) ==
    /\ Goto(m, "applied", "locked")
    /\ dirty' = FALSE
    /\ UNCHANGED <<version, applied, lock, seen, signalled, job>>

\* Mutant: the connection that holds the lock is not closed
StillLocked(m) == lock' = lock
Unlocked(m) == lock' = IF lock = m THEN NULL ELSE lock

\* ErrNoChange, or all done
UpToDate(m) ==
    /\ seen[m] = Migrations
    /\ Goto(m, "locked", "migrated")
    /\ Unlocked(m)
    /\ UNCHANGED <<version, dirty, applied, seen, signalled, job>>

\* Mutant: an error of Up is logged, and the start goes on
GoesOn == "migrated"
GivesUp == "failed"

\* A dirty version, a lock timeout, a migration in error: the mark stays
MigrateFails(m) ==
    /\ pc[m] \in {"locking", "locked", "marked", "applied"}
    /\ pc' = [pc EXCEPT ![m] = GivesUp]
    /\ Unlocked(m)
    /\ UNCHANGED <<version, dirty, applied, seen, signalled, job>>

\* Both ping with the context
NewPool(m) ==
    /\ ~signalled[m] /\ Goto(m, "migrated", "pooled")
    /\ UNCHANGED <<dbVars, signalled, job>>
NewClient(m) ==
    /\ ~signalled[m] /\ Goto(m, "pooled", "connected")
    /\ UNCHANGED <<dbVars, signalled, job>>

\* No database or no Redis, within 5 seconds or before the signal, or no port: the
\* pool is closed, which nothing has a connection of yet but the purge worker
StartFails(m) ==
    /\ pc[m] \in {"migrated", "pooled", "connected"}
    /\ InUse(m) = {}
    /\ pc' = [pc EXCEPT ![m] = "failed"]
    /\ UNCHANGED <<dbVars, signalled, job>>

ListenAndServe(m) ==
    /\ Goto(m, "connected", "serving")
    /\ UNCHANGED <<dbVars, signalled, job>>

-----------------------------------------------------------------------------
(* Serving *)

\* The router takes a request while the listener is open
Admit(m, j) ==
    /\ m \in Loaded /\ pc[m] = "serving" /\ job[m][j] = NoJob
    /\ \E n \in 1..MaxSteps : Becomes(m, j, Job("request", n))
    /\ UNCHANGED <<dbVars, pc, signalled>>

\* The ticker of purge.Run, which begins before the listener does
BeginPass(m, j) ==
    /\ m \in Loaded /\ pc[m] \in {"connected", "serving"} /\ ~signalled[m]
    /\ job[m][j] = NoJob
    /\ \A i \in Slots : job[m][i].kind # "pass"
    /\ Becomes(m, j, Job("pass", MaxSteps))
    /\ UNCHANGED <<dbVars, pc, signalled>>

\* A statement takes a connection of the pool for itself
Acquire(m, j) ==
    /\ job[m][j].st = "between" /\ job[m][j].left > 0
    /\ FreeConn(m)
    /\ job[m][j].kind = "pass" => ~signalled[m]
    /\ job' = [job EXCEPT ![m][j].st = "running"]
    /\ UNCHANGED <<dbVars, pc, signalled>>

Executed(m, j) ==
    /\ job[m][j].st = "running"
    /\ job' = [job EXCEPT ![m][j].st = "between", ![m][j].left = @ - 1]
    /\ UNCHANGED <<dbVars, pc, signalled>>

\* purgeAgentTx, emptyAllTx, softDeleteUserTx: Begin takes the connection
BeginTx(m, j) ==
    /\ job[m][j].kind = "request"
    /\ job[m][j].st = "between" /\ job[m][j].left > 0
    /\ FreeConn(m)
    /\ job' = [job EXCEPT ![m][j].st = "begun"]
    /\ UNCHANGED <<dbVars, pc, signalled>>

\* Mutant: h.Queries instead of dbgen.New(tx): a second connection
NeedsAnother(m) == FreeConn(m)
OnTheSame(m) == TRUE

\* and their statements run on it
TxStatements(m, j) ==
    /\ job[m][j].st = "begun"
    /\ OnTheSame(m)
    /\ job' = [job EXCEPT ![m][j].st = "worked"]
    /\ UNCHANGED <<dbVars, pc, signalled>>

CommitTx(m, j) ==
    /\ job[m][j].st = "worked"
    /\ job' = [job EXCEPT ![m][j].st = "between", ![m][j].left = @ - 1]
    /\ UNCHANGED <<dbVars, pc, signalled>>

\* Mutant: no deferred Rollback
Leaks(r) == [r EXCEPT !.st = "leaked", !.left = 0]
RolledBack(r) == NoJob

\* A statement of the transaction fails, or the request times out
TxFails(m, j) ==
    /\ job[m][j].st \in {"begun", "worked"}
    /\ Becomes(m, j, RolledBack(job[m][j]))
    /\ UNCHANGED <<dbVars, pc, signalled>>

\* The answer, or the end of the pass
Finish(m, j) ==
    /\ job[m][j].st = "between" /\ job[m][j].kind # "none" /\ job[m][j].left = 0
    /\ Becomes(m, j, NoJob)
    /\ UNCHANGED <<dbVars, pc, signalled>>

\* A statement fails, the pool is closed, the context is done: an answer all the same
JobFails(m, j) ==
    /\ job[m][j].st \in {"between", "running"} /\ job[m][j].left > 0
    /\ Becomes(m, j, NoJob)
    /\ UNCHANGED <<dbVars, pc, signalled>>

Running(m) == pc[m] \notin Stopped

-----------------------------------------------------------------------------
(* Stop *)

Signal(m) ==
    /\ Running(m) /\ ~signalled[m]
    /\ signalled' = [signalled EXCEPT ![m] = TRUE]
    /\ UNCHANGED <<dbVars, pc, job>>

\* Shutdown closes the listener; ListenAndServe returns, and "exited cleanly" is
\* logged, while Shutdown waits for the requests in a goroutine of its own
Shutdown(m) ==
    /\ signalled[m] /\ Goto(m, "serving", "returned")
    /\ UNCHANGED <<dbVars, signalled, job>>

\* The deferred rClient.Close and pool.Close: no connection is handed out any more
ClosePool(m) ==
    /\ Goto(m, "returned", "closing")
    /\ UNCHANGED <<dbVars, signalled, job>>

\* pool.Close has got the connections back: run returns, and the process with it,
\* whatever else there is in flight
Exit(m) ==
    /\ InUse(m) = {}
    /\ Goto(m, "closing", "exited")
    /\ UNCHANGED <<dbVars, signalled, job>>

\* Killed, at any time; the database gives up its lock
Crash(m) ==
    /\ Running(m)
    /\ pc' = [pc EXCEPT ![m] = "crashed"]
    /\ Unlocked(m)
    /\ UNCHANGED <<version, dirty, applied, seen, signalled, job>>

-----------------------------------------------------------------------------

Init ==
    /\ version = 0 /\ dirty = FALSE /\ applied = <<>>
    /\ lock = NULL /\ seen = [m \in Machines |-> 0]
    /\ pc = [m \in Machines |-> "exited"]
    /\ signalled = [m \in Machines |-> FALSE]
    /\ job = [m \in Machines |-> [j \in Slots |-> NoJob]]

Start(m) ==
    \/ LockMigrations(m) \/ SetDirty(m) \/ RunMigration(m) \/ SetClean(m) \/ UpToDate(m)
    \/ MigrateFails(m) \/ NewPool(m) \/ NewClient(m) \/ StartFails(m) \/ ListenAndServe(m)

Stop(m) == Shutdown(m) \/ ClosePool(m) \/ Exit(m)

Takes(m, j) == Running(m) /\ (Acquire(m, j) \/ BeginTx(m, j))
Works(m, j) ==
    /\ Running(m)
    /\ \/ Executed(m, j) \/ TxStatements(m, j) \/ CommitTx(m, j) \/ Finish(m, j)

Next == \E m \in Machines :
    \/ Boot(m) \/ Start(m) \/ Stop(m) \/ Signal(m) \/ Crash(m)
    \/ \E j \in Slots :
          \/ Admit(m, j) \/ BeginPass(m, j) \/ Takes(m, j) \/ Works(m, j)
          \/ Running(m) /\ (TxFails(m, j) \/ JobFails(m, j))

Spec == Init /\ [][Next]_vars

\* A machine goes on with its start, which every wait of has a timeout, and with its
\* stop; the database answers; and the pool hands its connections out in turn
Fairness ==
    \A m \in Machines :
        /\ WF_vars(Start(m)) /\ WF_vars(Stop(m))
        /\ \A j \in Slots : WF_vars(Works(m, j)) /\ SF_vars(Takes(m, j))

FairSpec == Spec /\ Fairness

-----------------------------------------------------------------------------
(* Properties *)

\* Every variable has its type, and a machine that holds the lock is migrating.
TypeOK ==
    /\ version \in 0..Migrations /\ dirty \in BOOLEAN
    /\ applied \in Seq(1..Migrations)
    /\ lock \in Machines \cup {NULL} /\ seen \in [Machines -> 0..Migrations]
    /\ lock # NULL => pc[lock] \in {"locked", "marked", "applied"}
    /\ pc \in [Machines -> Stopped \cup {"locking", "locked", "marked", "applied", "migrated",
                                         "pooled", "connected", "serving", "returned", "closing"}]
    /\ signalled \in [Machines -> BOOLEAN]
    /\ job \in [Machines -> [Slots -> [kind : {"none", "request", "pass"},
                                       st : {"between", "running", "begun", "worked", "leaked"},
                                       left : 0..MaxSteps]]]

\* migrate.go: "concurrent callers (e.g. multiple replicas booting at once) serialise
\* correctly": each migration is committed at most once, in order, whoever crashes.
MigratedOnce == \A i \in DOMAIN applied : applied[i] = i

\* Nothing is served, and nothing purged, unless the schema is that of the binary:
\* also when a machine was killed between a migration and the marks around it.
ServesMigrated ==
    \A m \in Machines : PoolOpen(m) => Len(applied) = Migrations /\ ~dirty

\* A machine that is told to stop does stop: no connection is lost that pool.Close
\* would wait for, whatever fails in whatever transaction.
StopsOnSignal ==
    \A m \in Machines : Running(m) /\ signalled[m] ~> ~Running(m)

\* Each request and each pass ends, with fewer connections than requests, and without
\* its timeout: nobody waits for a connection while holding one.
JobsEnd ==
    \A m \in Machines : \A j \in Slots :
        Running(m) /\ job[m][j] # NoJob ~> ~Running(m) \/ job[m][j] = NoJob

\* main.go: "diarion-api exited cleanly": a machine that was told to stop has answered
\* the requests that it had taken.  The code does not keep it.
ExitedCleanly ==
    \A m \in Machines : pc[m] = "exited" => \A j \in Slots : job[m][j].kind # "request"
=============================================================================
