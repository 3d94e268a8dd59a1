------------------------------ MODULE Migrations ------------------------------
(***************************************************************************)
(* Schema migrations and the readiness of the processes that serve on top  *)
(* of them: applyMigrations (packages/platform/src/migrations.ts), run by  *)
(* scripts/migrate.cjs, and Database.ready (packages/platform/src/         *)
(* database.ts) behind GET /health/ready.                                  *)
(*                                                                         *)
(* A migration stands for its hash and its timestamp.  A run reads an      *)
(* artifact, the migrations folder of some revision; a process is built    *)
(* with the hashes of a revision, MIGRATION_HASHES.  The migrate function  *)
(* of Drizzle is external: it creates its table if there is none, reads    *)
(* the newest row, and applies in one transaction what is newer.           *)
(***************************************************************************)
EXTENDS Naturals, SequencesExt

CONSTANTS
    Migrations,
    When,       \* per migration: its folderMillis
    Foundation, \* those that create the schemas
    Runners,    \* runs of scripts/migrate.cjs, each with
    Artifact,   \* the migrations of the folder it reads
    Processes,  \* API processes, each with
    Knows,      \* the MIGRATION_HASHES it was built with
    MaxFaults   \* bound: crashes, failures and lost connections

ASSUME MigrationConstants ==
    /\ When \in [Migrations -> Nat]
    /\ Foundation \subseteq Migrations
    /\ Artifact \in [Runners -> Seq(Migrations)]
    /\ Knows \in [Processes -> Seq(Migrations)]
    /\ MaxFaults \in Nat

(* Journals are written in the order of time.                               *)
ASSUME TimestampsIncrease ==
    \A r \in Runners: \A i, j \in DOMAIN Artifact[r]:
        i < j => When[Artifact[r][i]] < When[Artifact[r][j]]

VARIABLES
    table,      \* the table drizzle.__drizzle_migrations exists
    history,    \* its committed rows, oldest first
    objects,    \* the migrations whose schema changes are committed
    run,        \* per run: where it is
    pending,    \* per run: what its transaction has applied and not committed
    probe,      \* per process: where its last GET /health/ready is
    since,      \* history: the rows that were there when that request came
    stopping,   \* processes that have been told to stop
    faults

database == <<table, history, objects>>
vars == <<database, run, pending, probe, since, stopping, faults>>

Stages == {"idle", "waiting", "locked", "checked", "prepared", "applied", "orphan",
           "failed", "rejected", "done"}
Probes == {"none", "asked", "counting", "ready", "unready"}

Init ==
    /\ table = FALSE
    /\ history = <<>>
    /\ objects = {}
    /\ run = [r \in Runners |-> "idle"]
    /\ pending = [r \in Runners |-> <<>>]
    /\ probe = [p \in Processes |-> "none"]
    /\ since = [p \in Processes |-> <<>>]
    /\ stopping = {}
    /\ faults = 0

MigrationTypeOK ==
    /\ table \in BOOLEAN
    /\ history \in Seq(Migrations)
    /\ objects \subseteq Migrations
    /\ run \in [Runners -> Stages]
    /\ pending \in [Runners -> Seq(Migrations)]
    /\ probe \in [Processes -> Probes]
    /\ since \in [Processes -> Seq(Migrations)]
    /\ stopping \subseteq Processes
    /\ faults \in 0..MaxFaults
-----------------------------------------------------------------------------
(* The advisory lock (2001,2) belongs to the session: it is held until the  *)
(* server has seen the session end, whatever became of the client.          *)
Holds(r) == run[r] \in {"locked", "checked", "prepared", "applied", "orphan"}

Goto(r, stage) ==
    /\ run' = [run EXCEPT ![r] = stage]
    /\ UNCHANGED <<probe, since, stopping>>

Start(r) ==
    /\ run[r] \in {"idle", "failed"}
    /\ Goto(r, "waiting")
    /\ UNCHANGED <<database, pending, faults>>

(* Mutant of TakeLock: the history is read without the lock.                *)
ProceedWithoutLock(r) ==
    /\ run[r] = "waiting"
    /\ Goto(r, "locked")
    /\ UNCHANGED <<database, pending, faults>>

TakeLock(r) ==
    /\ run[r] = "waiting"
    /\ \A q \in Runners: ~Holds(q)
    /\ Goto(r, "locked")
    /\ UNCHANGED <<database, pending, faults>>

(* lock_timeout: a run does not wait long for another.                      *)
GiveUp(r) ==
    /\ run[r] = "waiting"
    /\ \E q \in Runners: Holds(q)
    /\ Goto(r, "failed")
    /\ UNCHANGED <<database, pending, faults>>

(* Mutant of Mismatch: only the newest row is compared with the folder.     *)
NewestDiffers(r) == history # <<>> /\ Last(history) \notin ToSet(Artifact[r])

(* The rows are compared one by one with the folder, which may go on.       *)
Mismatch(r) == table /\ ~IsPrefix(history, Artifact[r])

CheckHistory(r) ==
    /\ run[r] = "locked"
    /\ Goto(r, IF Mismatch(r) THEN "rejected" ELSE "checked")
    /\ UNCHANGED <<database, pending, faults>>

(* Drizzle: CREATE TABLE IF NOT EXISTS, outside any transaction.            *)
Prepare(r) ==
    /\ run[r] = "checked"
    /\ table' = TRUE
    /\ Goto(r, "prepared")
    /\ UNCHANGED <<history, objects, pending, faults>>

(* Drizzle: what is newer than the newest row, in order.  SQL that creates  *)
(* what is already there fails.                                             *)
Apply(r) ==
    /\ run[r] = "prepared"
    /\ \E n \in 0..Len(Artifact[r]):
        LET a == Artifact[r]
            newer == SubSeq(a, n + 1, Len(a))
            isNewer(m) == history = <<>> \/ When[m] > When[Last(history)]
        IN  /\ \A i \in 1..Len(a): isNewer(a[i]) <=> i > n
            /\ IF ToSet(newer) \cap objects = {}
               THEN pending' = [pending EXCEPT ![r] = newer] /\ Goto(r, "applied")
               ELSE UNCHANGED pending /\ Goto(r, "failed")
    /\ UNCHANGED <<database, faults>>

(* Mutant of Install: a failure between the changes and their rows.         *)
InstallChangesOnly(r) ==
    /\ objects' = objects \cup ToSet(pending[r])
    /\ pending' = [pending EXCEPT ![r] = <<>>]
    /\ UNCHANGED <<table, history>>

(* The rows and the changes they stand for, together.                       *)
Install(r) ==
    /\ history' = history \o pending[r]
    /\ objects' = objects \cup ToSet(pending[r])
    /\ pending' = [pending EXCEPT ![r] = <<>>]
    /\ UNCHANGED table

Commit(r) ==
    /\ run[r] = "applied"
    /\ Install(r)
    /\ Goto(r, "done")
    /\ UNCHANGED faults

(* An error, a timeout or the death of the run before COMMIT: the server    *)
(* rolls back, and client.release(true) ends the session and its lock.      *)
Fail(r) ==
    /\ run[r] \in {"waiting", "locked", "checked", "prepared", "applied"}
    /\ faults < MaxFaults
    /\ faults' = faults + 1
    /\ pending' = [pending EXCEPT ![r] = <<>>]
    /\ Goto(r, "failed")
    /\ UNCHANGED database

(* COMMIT was sent and the connection is lost: the server decides.          *)
LoseConnection(r) ==
    /\ run[r] = "applied"
    /\ faults < MaxFaults
    /\ faults' = faults + 1
    /\ Goto(r, "orphan")
    /\ UNCHANGED <<database, pending>>

OrphanCommits(r) ==
    /\ run[r] = "orphan"
    /\ Install(r)
    /\ Goto(r, "failed")
    /\ UNCHANGED faults

OrphanAborts(r) ==
    /\ run[r] = "orphan"
    /\ pending' = [pending EXCEPT ![r] = <<>>]
    /\ Goto(r, "failed")
    /\ UNCHANGED <<database, faults>>
-----------------------------------------------------------------------------
(* GET /health/ready.  A process that is stopping answers at once.          *)
Ask(p) ==
    /\ probe[p] \in {"none", "ready", "unready"}
    /\ probe' = [probe EXCEPT ![p] = IF p \in stopping THEN "unready" ELSE "asked"]
    /\ since' = [since EXCEPT ![p] = history]
    /\ UNCHANGED <<database, run, pending, stopping, faults>>

(* Mutant of Exact: rows that the process does not know are ignored.        *)
AtLeast(p) == table /\ IsPrefix(Knows[p], history)

(* The first query: every hash, and no other; it fails without the table.   *)
Exact(p) == table /\ history = Knows[p]

ReadHistory(p) ==
    /\ probe[p] = "asked"
    /\ probe' = [probe EXCEPT ![p] = IF Exact(p) THEN "counting" ELSE "unready"]
    /\ UNCHANGED <<database, run, pending, since, stopping, faults>>

(* The second query: all eight schemas are there.                           *)
CountSchemas(p) ==
    /\ probe[p] = "counting"
    /\ probe' = [probe EXCEPT ![p] = IF Foundation \cap objects # {} THEN "ready" ELSE "unready"]
    /\ UNCHANGED <<database, run, pending, since, stopping, faults>>

(* The process is told to stop, or its database is: any answer but ready.   *)
Stop(p) ==
    /\ stopping' = stopping \cup {p}
    /\ UNCHANGED <<database, run, pending, probe, since, faults>>

ProbeFails(p) ==
    /\ probe[p] \in {"asked", "counting"}
    /\ probe' = [probe EXCEPT ![p] = "unready"]
    /\ UNCHANGED <<database, run, pending, since, stopping, faults>>

Step(r) == TakeLock(r) \/ GiveUp(r) \/ CheckHistory(r) \/ Prepare(r) \/ Apply(r) \/ Commit(r)
EndOrphan(r) == OrphanCommits(r) \/ OrphanAborts(r)

Next ==
    \/ \E r \in Runners: Start(r) \/ Step(r) \/ Fail(r) \/ LoseConnection(r) \/ EndOrphan(r)
    \/ \E p \in Processes: Ask(p) \/ ReadHistory(p) \/ CountSchemas(p) \/ ProbeFails(p) \/ Stop(p)

(* Every statement of a run ends, by its timeout if by nothing else; the    *)
(* server ends the session of a lost connection; and whoever deploys starts *)
(* a failed run again.  Failures are finite.                                *)
Spec ==
    /\ Init /\ [][Next]_vars
    /\ \A r \in Runners: WF_vars(Start(r)) /\ WF_vars(Step(r)) /\ WF_vars(EndOrphan(r))
-----------------------------------------------------------------------------
(* The history is what one reviewed artifact says, its rows stand for the   *)
(* changes that are there, all of them and no other; a run that ended well  *)
(* installed its artifact, and one that was rejected had reason to be.      *)
(* Two runs at once, a crash between two statements and a lost COMMIT leave *)
(* nothing half done (migrations.ts:17, tests/database.test.cjs:36).        *)
HistoryIsReviewed ==
    /\ objects = ToSet(history)
    /\ history # <<>> => table /\ \E r \in Runners: IsPrefix(history, Artifact[r])
    /\ \A r \in Runners:
        /\ run[r] = "done" => IsPrefix(Artifact[r], history)
        /\ run[r] = "rejected" => ~IsPrefix(history, Artifact[r])

LockExcludes == \A q, r \in Runners: Holds(q) /\ Holds(r) => q = r

RunKnows(r) ==
    /\ run[r] \in {"checked", "prepared", "applied", "orphan"} => IsPrefix(history, Artifact[r])
    /\ run[r] \in {"prepared", "applied", "orphan"} => table
    /\ run[r] \in {"applied", "orphan"} => history \o pending[r] = Artifact[r]

ProbeKnows(p) ==
    /\ IsPrefix(since[p], history)
    /\ probe[p] \in {"counting", "ready"} =>
        IsPrefix(since[p], Knows[p]) /\ IsPrefix(Knows[p], history)

(* What makes that so: the lock admits one run at a time, and what a run     *)
(* holds after its comparison is still true of the history when it commits, *)
(* as is what a process read (migrations.ts:23-33, tests/database.test.cjs: *)
(* 36).                                                                     *)
MigrationInv ==
    /\ MigrationTypeOK
    /\ HistoryIsReviewed
    /\ LockExcludes
    /\ \A r \in Runners: RunKnows(r)
    /\ \A p \in Processes: ProbeKnows(p)

(* A process that answers "ready" serves on the schema it was built for: at *)
(* some moment of the request the history was exactly what it knows.  A     *)
(* process that asks after the migration is not ready, whether or not the   *)
(* change was additive (database.ts:36, tests/database.test.cjs:55).        *)
ReadyIsExact ==
    \A p \in Processes: probe[p] = "ready" =>
        /\ IsPrefix(since[p], Knows[p])
        /\ IsPrefix(Knows[p], history)
        /\ ToSet(Knows[p]) \subseteq objects

(* Whatever dies on the way, every run that is started again ends: no lock  *)
(* is left behind and no half-done migration stands in the way of the next  *)
(* attempt (migrations.ts:29-33, tests/database.test.cjs:52-54).            *)
MigrationsGoThrough == \A r \in Runners: <>[](run[r] \in {"done", "rejected"})
=============================================================================
