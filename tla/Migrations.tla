------------------------------ MODULE Migrations ------------------------------
(***************************************************************************)
(* The schema commands of cmd/cli -- migrate, migrate_status, db_setup and *)
(* db_reset -- run side by side against one Postgres server, next to an    *)
(* API that may hold connections to the database.                          *)
(*                                                                         *)
(* Each command is a process of its own.  gormigrate runs without a        *)
(* transaction here (DefaultOptions), and GORM's CreateTable is one        *)
(* statement for the table and one for its unique index, so every step     *)
(* below is committed on its own.  A migration is named by its timestamp;  *)
(* what it creates is one table with one unique index, as create_users     *)
(* does.  A killed process and a failed statement leave the same behind.   *)
(***************************************************************************)
EXTENDS Naturals, Sequences, FiniteSets

CONSTANTS
    Runs,           \* the command invocations
    Releases        \* sets of migrations that some release has registered

\* Without any migration gormigrate refuses to run; every release has some.
ASSUME ReleasesAssumption ==
    \A release \in Releases :
        release \subseteq Nat /\ release # {} /\ IsFiniteSet(release)

VARIABLES
    command,        \* command[r]: what r was invoked as
    registered,     \* registered[r]: the migrations compiled into r's binary
    exists,         \* the database exists
    tables,         \* the migrations whose table exists
    indexes,        \* the migrations whose unique index exists
    tracking,       \* the "migrations" tracking table exists
    tracked,        \* its rows
    pool,           \* the API holds a connection to the database
    step,           \* step[r]: the next step of r
    todo,           \* todo[r]: the migrations r has not come to yet
    report,         \* report[r]: the lines migrate_status printed
    visited,        \* history: the runs whose Migrate or Statuses saw this database
    seeded,         \* history: the runs whose seeders succeeded on this database
    found,          \* history: found[r]: the rows when r connected to read them
    blind,          \* history: the runs whose look for the tracking table failed
    troubled        \* history: some run was cut short by a crash or an error

schemaVars == <<exists, tables, indexes, tracking, tracked>>
runVars    == <<command, registered>>
history    == <<visited, seeded, found, blind>>
vars == <<runVars, schemaVars, pool, step, todo, report, history, troubled>>

Commands == {"migrate", "migrate_status", "db_setup", "db_reset"}

-----------------------------------------------------------------------------
\* r is connected to the database; it connects to "postgres" for admin steps.
Session(r) == step[r] \in {"look", "makeTracking", "next", "table", "index",
                         "record", "status", "readStatus", "seed"}

InUse == pool \/ \E r \in Runs : Session(r)

Ended(r) == step[r] \in {"done", "failed"}

\* All() sorts by ID: r comes to the oldest migration first.
Current(r) == CHOOSE m \in todo[r] : \A n \in todo[r] : m <= n

FirstStep(c) ==
    CASE c \in {"migrate", "migrate_status"} -> "connect"
      [] c = "db_setup" -> "check"
      [] c = "db_reset" -> "drop"

\* The IDs of S, sorted.
Ascending(S) ==
    CHOOSE s \in [1..Cardinality(S) -> S] : \A i, j \in DOMAIN s : i < j => s[i] < s[j]

\* Registered migrations in chronological order, then the orphans in theirs.
Statuses(known, applied) ==
    LET ids == Ascending(known) \o Ascending(applied \ known)
    IN  [i \in DOMAIN ids |->
            [id |-> ids[i], applied |-> ids[i] \in applied, orphan |-> ids[i] \notin known]]

Init ==
    /\ command \in [Runs -> Commands]
    /\ registered \in [Runs -> Releases]
    /\ exists = FALSE /\ tracking = FALSE
    /\ tables = {} /\ indexes = {} /\ tracked = {}
    /\ pool = FALSE
    /\ step = [r \in Runs |-> FirstStep(command[r])]
    /\ todo = [r \in Runs |-> {}]
    /\ report = [r \in Runs |-> <<>>]
    /\ visited = {} /\ seeded = {} /\ blind = {}
    /\ found = [r \in Runs |-> {}]
    /\ troubled = FALSE

-----------------------------------------------------------------------------
GoesTo(r, from, to) == step[r] = from /\ step' = [step EXCEPT ![r] = to]

\* DROP DATABASE IF EXISTS fails while anybody is connected.
DropDatabase(r) ==
    /\ \/ /\ GoesTo(r, "drop", "check")
          /\ ~InUse
          /\ exists' = FALSE /\ tracking' = FALSE
          /\ tables' = {} /\ indexes' = {} /\ tracked' = {}
          /\ visited' = {} /\ seeded' = {}
       \/ /\ GoesTo(r, "drop", "failed")
          /\ InUse
          /\ UNCHANGED <<schemaVars, visited, seeded>>
    /\ UNCHANGED <<runVars, todo, report, found, blind, troubled>>

\* CreateDatabase looks first...
CheckDatabase(r) ==
    /\ GoesTo(r, "check", IF exists THEN "connect" ELSE "create")
    /\ UNCHANGED <<runVars, schemaVars, todo, report, history, troubled>>

\* ...and the CREATE DATABASE fails if somebody else was faster.
CreateDatabase(r) ==
    /\ GoesTo(r, "create", IF exists THEN "failed" ELSE "connect")
    /\ exists' = TRUE
    /\ UNCHANGED <<runVars, tables, indexes, tracking, tracked,
                   todo, report, history, troubled>>

\* postgres.New: the ping fails when the database is not there.
Connect(r) ==
    /\ GoesTo(r, "connect", IF ~exists THEN "failed"
                            ELSE IF command[r] = "migrate_status" THEN "status"
                            ELSE "look")
    /\ visited' = IF exists THEN visited \cup {r} ELSE visited
    /\ found' = IF command[r] = "migrate_status"
                THEN [found EXCEPT ![r] = tracked] ELSE found
    /\ UNCHANGED <<runVars, schemaVars, todo, report, seeded, blind, troubled>>

-----------------------------------------------------------------------------
(* gormigrate's Migrate.                                                   *)

\* HasTable answers no when its query fails, too.
LookForTracking(r) ==
    /\ \/ tracking /\ GoesTo(r, "look", "next")
       \/ GoesTo(r, "look", "makeTracking")
    /\ todo' = [todo EXCEPT ![r] = registered[r]]
    /\ UNCHANGED <<runVars, schemaVars, report, history, troubled>>

\* Mutants of MakeTracking: the table is made anew, or with a row in it for a
\* schema that was initialised at once.
MakeTrackingAnew(r) ==
    /\ GoesTo(r, "makeTracking", "next")
    /\ tracking' = TRUE /\ tracked' = {}
    /\ UNCHANGED <<runVars, exists, tables, indexes, todo, report, history, troubled>>

MakeTrackingInitialised(r) ==
    /\ GoesTo(r, "makeTracking", "next")
    /\ tracking' = TRUE /\ tracked' = tracked \cup {0}
    /\ UNCHANGED <<runVars, exists, tables, indexes, todo, report, history, troubled>>

\* AutoMigrate looks once more: a table that is there fails it only if it appears
\* after this second look, or that fails as well.
MakeTracking(r) ==
    /\ \/ GoesTo(r, "makeTracking", "next")
       \/ tracking /\ GoesTo(r, "makeTracking", "failed")
    /\ tracking' = TRUE
    /\ UNCHANGED <<runVars, exists, tables, indexes, tracked,
                   todo, report, history, troubled>>

\* Mutant of NextMigration: a migration whose table is there is skipped.
NextMigrationByTable(r) ==
    /\ todo[r] # {}
    /\ GoesTo(r, "next", IF Current(r) \in tables THEN "next" ELSE "table")
    /\ todo' = IF Current(r) \in tables
               THEN [todo EXCEPT ![r] = @ \ {Current(r)}] ELSE todo
    /\ UNCHANGED <<runVars, schemaVars, report, history, troubled>>

\* A migration that is tracked is skipped.
NextMigration(r) ==
    /\ todo[r] # {}
    /\ GoesTo(r, "next", IF Current(r) \in tracked THEN "next" ELSE "table")
    /\ todo' = IF Current(r) \in tracked
               THEN [todo EXCEPT ![r] = @ \ {Current(r)}] ELSE todo
    /\ UNCHANGED <<runVars, schemaVars, report, history, troubled>>

\* Mutant of CreateTable: the migration is recorded before its index is there.
CreateTableRecorded(r) ==
    /\ GoesTo(r, "table", IF Current(r) \in tables THEN "failed" ELSE "index")
    /\ tables' = tables \cup {Current(r)}
    /\ tracked' = tracked \cup {Current(r)}
    /\ UNCHANGED <<runVars, exists, indexes, tracking, todo, report, history, troubled>>

\* CREATE TABLE, without IF NOT EXISTS.
CreateTable(r) ==
    /\ GoesTo(r, "table", IF Current(r) \in tables THEN "failed" ELSE "index")
    /\ tables' = tables \cup {Current(r)}
    /\ UNCHANGED <<runVars, exists, indexes, tracking, tracked,
                   todo, report, history, troubled>>

\* CREATE UNIQUE INDEX IF NOT EXISTS.
CreateIndex(r) ==
    /\ GoesTo(r, "index", "record")
    /\ indexes' = indexes \cup {Current(r)}
    /\ UNCHANGED <<runVars, exists, tables, tracking, tracked,
                   todo, report, history, troubled>>

\* The INSERT into the tracking table, whose key is the ID.
RecordMigration(r) ==
    /\ GoesTo(r, "record", IF Current(r) \in tracked THEN "failed" ELSE "next")
    /\ tracked' = tracked \cup {Current(r)}
    /\ todo' = [todo EXCEPT ![r] = @ \ {Current(r)}]
    /\ UNCHANGED <<runVars, exists, tables, indexes, tracking,
                   report, history, troubled>>

\* The session is closed; db_setup and db_reset go on to the seeders.
MigrateReturns(r) ==
    /\ todo[r] = {}
    /\ GoesTo(r, "next", IF command[r] = "migrate" THEN "done" ELSE "reconnect")
    /\ UNCHANGED <<runVars, schemaVars, todo, report, history, troubled>>

\* runSeeders opens its own session; the rows it writes are not modelled here.
ConnectSeeders(r) ==
    /\ GoesTo(r, "reconnect", IF exists THEN "seed" ELSE "failed")
    /\ UNCHANGED <<runVars, schemaVars, todo, report, history, troubled>>

\* Every seeder's first statement fails if its table was never created.
Seed(r) ==
    /\ \/ /\ GoesTo(r, "seed", "done")
          /\ registered[r] \subseteq tables
          /\ seeded' = seeded \cup {r}
       \/ /\ GoesTo(r, "seed", "failed")
          /\ ~(registered[r] \subseteq tables)
          /\ UNCHANGED seeded
    /\ UNCHANGED <<runVars, schemaVars, todo, report, visited, found, blind, troubled>>

-----------------------------------------------------------------------------
(* migrate_status.                                                         *)

\* Without a tracking table everything is pending, and so it is if HasTable could
\* not find out: it has no error to return.
LookForStatus(r) ==
    /\ \/ /\ tracking /\ GoesTo(r, "status", "readStatus")
          /\ UNCHANGED <<report, blind>>
       \/ /\ GoesTo(r, "status", "done")
          /\ report' = [report EXCEPT ![r] = Statuses(registered[r], {})]
          /\ blind' = IF tracking THEN blind \cup {r} ELSE blind
    /\ UNCHANGED <<runVars, schemaVars, todo, visited, seeded, found, troubled>>

\* Mutant of ReadStatus: the rows are read and not used, everything is pending.
ReadStatusOfNone(r) ==
    /\ GoesTo(r, "readStatus", "done")
    /\ report' = [report EXCEPT ![r] = Statuses(registered[r], {})]
    /\ UNCHANGED <<runVars, schemaVars, todo, history, troubled>>

ReadStatus(r) ==
    /\ GoesTo(r, "readStatus", "done")
    /\ report' = [report EXCEPT ![r] = Statuses(registered[r], tracked)]
    /\ UNCHANGED <<runVars, schemaVars, todo, history, troubled>>

-----------------------------------------------------------------------------
\* A statement fails, or the process is killed: what is committed stays.
CutShort(r) ==
    /\ ~Ended(r)
    /\ step' = [step EXCEPT ![r] = "failed"]
    /\ troubled' = TRUE
    /\ UNCHANGED <<runVars, schemaVars, todo, report, history>>

RunStep(r) ==
    \/ DropDatabase(r) \/ CheckDatabase(r) \/ CreateDatabase(r) \/ Connect(r)
    \/ LookForTracking(r) \/ MakeTracking(r) \/ NextMigration(r)
    \/ CreateTable(r) \/ CreateIndex(r) \/ RecordMigration(r) \/ MigrateReturns(r)
    \/ ConnectSeeders(r) \/ Seed(r) \/ LookForStatus(r) \/ ReadStatus(r)
    \/ CutShort(r)

\* The API's pool opens its first connection, or has closed its last: idle ones
\* live as long as the configuration lets them, and none outlives its process.
PoolOpens ==
    /\ ~pool /\ exists
    /\ pool' = TRUE
    /\ UNCHANGED <<runVars, schemaVars, step, todo, report, history, troubled>>

PoolCloses ==
    /\ pool
    /\ pool' = FALSE
    /\ UNCHANGED <<runVars, schemaVars, step, todo, report, history, troubled>>

Command(r) == RunStep(r) /\ UNCHANGED pool

Next == (\E r \in Runs : Command(r)) \/ PoolOpens \/ PoolCloses

Spec == Init /\ [][Next]_vars

-----------------------------------------------------------------------------
AllMigrations == UNION Releases

\* Type invariant.
TypeOK ==
    /\ command \in [Runs -> Commands]
    /\ registered \in [Runs -> Releases]
    /\ exists \in BOOLEAN /\ tracking \in BOOLEAN /\ troubled \in BOOLEAN
    /\ pool \in BOOLEAN
    /\ tables \subseteq AllMigrations /\ indexes \subseteq AllMigrations
    /\ tracked \subseteq AllMigrations
    /\ step \in [Runs -> {"drop", "check", "create", "connect", "look", "makeTracking",
                        "next", "table", "index", "record", "reconnect", "seed",
                        "status", "readStatus", "done", "failed"}]
    /\ todo \in [Runs -> SUBSET AllMigrations]
    /\ visited \subseteq Runs /\ seeded \subseteq Runs /\ blind \subseteq Runs
    /\ found \in [Runs -> SUBSET AllMigrations]

\* A migration is recorded only once its table and its unique index are there,
\* however many runs race and wherever they are cut short: the next run skips
\* nothing that is half done (migrate.go:13-27).
TrackedIsApplied == tracked \subseteq tables \cap indexes

\* A migrate, db_setup or db_reset that succeeds leaves every migration of its
\* release applied, index included, even if another run applied some of them,
\* unless the database it migrated is dropped.  Were that between its migrating and
\* its seeding, it succeeds only if its tables are there once more
\* (cli/migrate.go:20-26, cli/db.go:43-59).
DoneIsMigrated ==
    /\ \A r \in visited :
           step[r] = "done" /\ command[r] # "migrate_status" =>
               registered[r] \subseteq tracked \cap tables \cap indexes
    /\ \A r \in seeded : registered[r] \subseteq tables

\* What migrate_status prints as applied is applied; what was recorded when it
\* connected it prints, and not as pending; what it prints as an orphan is applied and
\* unknown to its release; every known migration is on one line, known ones first and
\* each group in order (migrate.go:40-80).  Only a run whose look for the tracking
\* table failed prints as pending what is not, and succeeds (migrate.go:53), although
\* migrate.go:40-42 says that it reports what is applied.
StatusIsTrue ==
    \A r \in visited :
        step[r] = "done" /\ command[r] = "migrate_status" =>
            LET lines == report[r] IN
            /\ \A m \in registered[r] : \E i \in DOMAIN lines : lines[i].id = m
            /\ r \notin blind =>
                  \A m \in found[r] :
                      \E i \in DOMAIN lines : lines[i].id = m /\ lines[i].applied
            /\ \A i \in DOMAIN lines :
                  /\ lines[i].applied => lines[i].id \in tracked \cap tables \cap indexes
                  /\ lines[i].orphan <=> lines[i].id \notin registered[r]
                  /\ lines[i].orphan => lines[i].applied
            /\ \A i, j \in DOMAIN lines : i < j =>
                  \/ ~lines[i].orphan /\ lines[j].orphan
                  \/ lines[i].orphan = lines[j].orphan /\ lines[i].id < lines[j].id

\* With no run under way every table belongs to a recorded migration: another
\* migrate skips it rather than fail on it.
Repeatable == (\A r \in Runs : ~Session(r)) => tables \subseteq tracked

\* Runs that only race with each other leave a database that can be migrated
\* again, though some of them may fail (migrate.go:16-28).
RacesAreRepeatable == ~troubled => Repeatable

\* migrate.go:13-15: "already-applied migrations are tracked [...] and skipped on
\* re-run, so this is safe to call on every deploy": whatever became of the run
\* before, a table that one run created does not fail the next.
SafeToReRun == Repeatable

=============================================================================
