# Verification of go_clean_arch_sample

TLA+ models of the service in this repository, the TLC runs that check them on
small instances, and TLAPS proofs of every safety property of theirs, for every
size. The code is the reference: each definition that models code is tied to its
lines by `map` in `PROJECT.json`.

## The system

One Go module, two binaries over one Postgres database and one Redis.

| Part | Code | State | Operations | What makes it correct |
|---|---|---|---|---|
| User entity | `internal/domain` | none | `NewUser`, `ReconstituteUser`, `validateUser` | what is stored is what was validated, so it loads again |
| POST /users | `handler/users.go`, `usecase/user.go`, `user_repository.go` | the `users` table; a goroutine per request | bind, validate, INSERT, enqueue, answer | emails are unique; answers are true to the table |
| GET /users, GET /users/:id | same files | reads the table | `List`, `Get` | a list is whole, ordered, or an error |
| Welcome-email queue | `internal/queue` | tasks in Redis; worker and handler goroutines | enqueue, fetch, handle, retry, archive, recover, shut down | at least once, never two handlers, every task settles |
| DrainQueue | `queue/server.go` | pending tasks | list a page, handle, delete | nothing dropped or repeated; it ends |
| API process | `cmd/api/main.go` | worker, listener, queue client, database | start, signal, HTTP drain, worker drain, closes | nothing uses what is closed; the process ends |
| Schema commands | `postgres/migrate.go`, `admin.go`, `cmd/cli/db.go` | the database, its tables and indexes, the tracking table | `migrate`, `migrate_status`, `db_setup`, `db_reset` | what is recorded is applied, a success is complete |
| Operator CLI | `internal/config`, `cmd/cli`, `internal/seeds` | the environment, rows of `users` | load, register, seed, reset | only development is wiped or seeded; a success leaves every demo user in place |
| Integration suite | `internal/testsupport`, `test/integration` | containers, both stores | start, migrate, reset, test, purge | never green without having run; tests do not depend on each other |

They interact through the two stores and through calls. A request inserts its
user and then, best effort, enqueues a task that names it; the worker, embedded
in the same process, reads that user from the table when it handles the task. The
CLI works on the same table and schema with no regard for a running API.

Hard behaviours, each with its line under `hazards` in `PROJECT.json`: requests
that race for an email; acknowledgements that get lost; two stores written
without a transaction; at-least-once delivery over crashes and restarts; deadlines
and leases that run out under a live handler; two nested shutdown timeouts;
migrations without a transaction, run concurrently, killed, and served from
meanwhile; check-then-act in `CreateDatabase` and in the seeder; rows that changed
behind the code's back; tests that share two stores and may fail half way.

## The modules

| Module | Models |
|---|---|
| `UserDomain` | the validation operators. A text is a kind and whether it is padded with white space: all that trimming, `net/mail`, the validator's tags and the blank checks tell apart |
| `UsersApi` | POST /users for many requests. One action per point at which others can get in between: reading the body, the INSERT (taken, committed, failed, committed with its acknowledgement lost), the enqueue, the answer |
| `EmailQueue` | the tasks, the handler's steps (`Handle`), what asynq makes of its answer or of having none (`Process`), and the worker's start, drain, abort and death. A handler that asynq gave up runs on in `orphans` |
| `WelcomeService` | the composition of both with `main`: `phase` is the line main is at. Every action is one of a part's, with what the other contributes: `LookupUser` reads UsersApi's table, `EnqueueWelcomeEmail` writes EmailQueue's tasks, `ProcessEnds` ends the goroutines of both |
| `WelcomePromise` | the abstract specification: an email is owed only once its account is committed, and once owed it is sent or given up, for good |
| `Migrations` | the four schema commands as concurrent processes, one action per statement; releases that know different migrations; an API that may be connected |
| `Deployment` | `UsersApi` on the database that `Migrations` works on: an INSERT finds the table or not, with its unique index or without; the index fails on duplicates; a drop takes the rows along |
| `UserReads` | List and Get over a table that is inserted into, wiped and spoilt; a clock finer than the column |
| `Seeding` | runs of the users seeder, each other's and the clients' races. A component of `OperatorCli` |
| `OperatorCli` | invocations of the CLI: which value of a setting counts, which environment that makes, which commands it registers, what a command line comes to do to the rows |
| `DrainQueue` | the paged drain. A component of `Suite` |
| `Suite` | `TestMain` over the container harness, then the tests, one after another: reset, create, drain, check |

`MC*.tla` give the constants of the TLC runs; `*_proofs.tla` hold the theorems.
`WelcomeService` extends `UsersApi` and `EmailQueue`, and its proofs extend theirs,
so the invariants of the parts are proved once and used in the whole. The names
are the code's, where it has one.

Definitions whose comment begins with "Mutant of" are not the code: each is a
plausible bug in the definition after it, and for every property of a passing run
one of them is listed that TLC refutes the property with.

### External parts

Postgres is modelled by what the code relies on: a unique index, statements that
are atomic each and fail at any time, a COMMIT whose acknowledgement can get lost.
asynq is modelled by its documented task states as `NewServer` configures it:
`Concurrency` is given, and the retry limit and the shutdown timeout are defaults.
Processed tasks are deleted. asynq cancels the context of a handler it gives up --
at the deadline of the attempt, when the lease could not be extended, when the
shutdown is aborted -- and does not wait for it. gormigrate runs with `DefaultOptions`, which means
without a transaction, and its bookkeeping is four actions of `Migrations`. GORM's
`HasTable` answers no when its query fails, here as in gormigrate.
One API process runs at a time, as the repository deploys it. Docker starts a
container, fails to, or starts one and reports an error; it removes a container
when told to, or fails to.

## The runs

| Run | Bounds | Shows |
|---|---|---|
| `api` | 3 requests, a body of every kind, 2 drifted rows | type, `UniqueEmail`, `AnswerMatchesStore`, `ConflictIsReal`, `StoredUserLoads` |
| `queue` | 2 tasks (one malformed), 2 retries, 1 handler at a time | type, `OneHandlerPerTask`, `CompletedWasDelivered`, `DuplicateOnlyAfterInterruption`, `EveryTaskSettles` |
| `service` | 2 requests, no retry | type, `TaskOfCommittedUser`, `ClosedIsUnused`, `ServedWithWorker`, and that the service implements `WelcomePromise` |
| `service_stops` | 1 request, 2 retries, a drifted row | `ShutdownEnds`, `GivenUpUserIsGone` |
| `deployment` | 2 commands, 2 migrations, 3 releases, 2 requests with one address | both types, `TrackedIsApplied`, `DoneIsMigrated`, `StatusIsTrue`, `RacesAreRepeatable`, `RecordedIsUnique` |
| `reads` | 2 users, 2 lists, 1 get, 2 ticks to a unit of the column | type, `ListIsWhole`, `ListsAgree`, `ReadsShowTheCreates` |
| `operator` | 2 invocations, 5 environments, 2 `.env` files, 6 command lines, the 3 demo users | type, `DoneIsSeeded`, `CountIsInserted`, `DestructionIsDevOnly`, `WipesAreMeant` |
| `suite` | 2 tests, 3 tasks, pages of 2 | type, `NothingDropped`, `HandledOnceUnlessUndeleted`, `CountIsRemoved`, `GreenIsReal`, `NothingLeftBehind`, `FailureIsOwn`, `DrainEnds` |

Why these bounds suffice. Races here are pairwise (two rows, two commands, a look
and an insert, a command and a request), so two actors meet in every way. A second
task makes one wait for the only handler, and `queue_shutdown` has three. A retry
limit of 2 has a first, a further and a last attempt, and the 0 of `service` leaves
out retries only where `queue` covers them. Two tests are one and its successor.
The environments, files and lines of `operator` are one of every kind that the code
tells apart. The queue's capacity and the number of restarts are not bounded:
those state spaces are finite without it. `deliveries` and `handled` stop at 2,
which stands for "more than once". `MaxClock` bounds the clock of `UserReads`: long
enough for two users in one unit of the column and one in the next. Symmetry is
used over identities that no definition tells apart, and in no run with a liveness
property.

Deadlock is checked in `queue`, `service` and `service_stops`, whose process can
always be restarted. It is not in `api`, `deployment`, `reads`, `operator` and
`suite`: their requests, commands and tests are finitely many and may all be over.

### Where the code and its comments disagree

Four runs are expected to end in a violation; each checks a sentence of the
repository's own comments.

| Run | The sentence | What happens |
|---|---|---|
| `api_full_list` | `validation.go:12-13`: clients "get the full list rather than one-at-a-time" | an email that binding refuses hides a blank name: `required` accepts `"   "` |
| `queue_shutdown` | `server.go:73`: Shutdown "blocks until in-flight tasks finish" | asynq stops waiting after its own timeout; the handler runs on |
| `service_drain` | `main.go:77-78`: "no new tasks get enqueued" | a request that outlives `HTTPShutdownTimeout` enqueues during the worker's drain |
| `migrations_rerun` | `migrate.go:13-15`: "Idempotent", "safe to call on every deploy" | a run cut short after CREATE TABLE leaves a table that fails every later run |

Three more have no run of their own; the models follow the code:

| The sentence | What happens | Where it is modelled |
|---|---|---|
| `migrate.go:40-42`: Statuses "cross-references the migrations registered in code with the tracking table to report applied / pending / orphaned state" | `HasTable` (line 53) is a bare bool: if its query fails, everything is printed as pending, no orphan is, and the command succeeds | `LookForStatus`; `StatusIsTrue` lets such a run, and no other, print as pending what was recorded when it connected |
| `main_test.go:21-23`: `testCfg` "nil means skip (no Docker daemon, or running under -short)", and the message at line 63: "no Docker / short mode" | without Docker `RequirePool` ends the process (`containers.go:43-46`), as `containers.go:34-36` and the repository's README say; only `-short` skips | `RequirePool`; `GreenIsReal`, whose mutant is what these two lines say |
| `user_repository.go:30-31`: the order makes "the list contract [...] deterministic" | users whose `created_at` is equal in the column come in any order | `OrderedRows`; `ListsAgree` speaks of users whose stamps differ |

## Fairness

- `queue` (`QueueFairness`): asynq's goroutines for a task take a step if they can,
  the deadline of an attempt among them. Nothing is assumed of handlers, which may
  hang, nor of starting, staying up and crashing: the property says what holds
  *if* some process finally stays up.
- `service_stops` (`ShutdownFairness`): only of the steps that a timeout bounds,
  `srv.Shutdown` and asynq's, and of the calls that follow them in `main`. Nothing
  is assumed of requests and handlers, which may hang.
- `suite`: the goroutine that drains runs on until the process ends.

## The proofs

48 theorems, in seven modules; `tlapm` checks them all. Every invariant that a
passing run checks, and the refinement of `WelcomePromise`, is one of them. They hold
for any sets of requests, bodies, tasks, drifted rows, commands, releases,
invocations, users and reads, any number of tests, any retry limit, concurrency and
page size, under the named assumptions of the modules:

- what a body can be, and that drifted rows are rows the domain refuses
  (`BodiesAssumption`, `DriftedUsersAssumption`); that the service's tasks are its
  requests' and well formed (`WelcomeAssumption`);
- that a release is a finite set of migration numbers, not empty, and that one of
  them creates the users table (`ReleasesAssumption`, `CreateUsersAssumption`);
- that the demo users are a list without a repeated address (`SeedingAssumption`),
  and that an invocation gives a value, or `Unset`, to every setting
  (`InvocationsAssumption`);
- that Redis holds finitely many tasks and a page has room for one
  (`DrainAssumption`), and that a request for a list is not one for a user and the
  column's unit is some number of ticks (`ReadsAssumption`);
- that the constants are of their kinds, and special values are no ordinary ones.

Each component has one inductive invariant, whose conjuncts are named; a lemma per
action, or per group of actions alike in what they touch, says that it is kept.

- **`UsersApi_proofs`**. `ApiInv` adds to the properties what they do not say: which
  of `pc`, `response` and `committed` go together (`Progress`) and that a row is
  what its request minted unless it drifted (`RowsAreMinted`). The latter carries
  `UniqueEmail` across the check of the index, `StoredUserLoads` from the factory
  to the table, and `ConflictIsReal` back from a row to the request behind it. All but
  `UniqueEmail` needs no unique index and is a part of its own, `RequestsInv`.
- **`EmailQueue_proofs`**. `QueueInv` adds that a handler that is done has sent
  (`OkWasSent`), that a task without a task state has nothing sent
  (`UnknownIsUnsent`) and no handler that runs on (`UnknownIsUnhandled`), and the
  heart of it, `SentOnceIsFinal`: a task that was never interrupted and has been
  sent is completed or about to be, so nothing can run it a second time.
- **`WelcomeService_proofs`**. Every step is shown to be a step of each part or a
  stutter, so the parts' invariants carry over; `ServiceInv` adds what
  relates them: the worker follows `phase`, requests run only while the process
  lets them, a task has a committed user, a handler that gave up did so on a row
  that is gone and stays gone (an identity is inserted once). From it follow the
  service's properties and `ServiceKeepsPromise`, the refinement: each action moves
  one email as the promise allows, creates one account, or does neither. What the
  parts guarantee is stated again of the process (`ServedAnswersAreTrue`,
  `ServedTasksAreSafe`).
- **`Deployment_proofs`**. `TrackedIsApplied` is not inductive: the step that records
  a migration must find the table and the index still there. `Underway` says so: what
  a session has made cannot be dropped under it, since it is itself a session that
  keeps `DROP DATABASE` out. `IndexedIsUnique` carries the emails past the window in
  which the API writes to a table without its index; `Advances` says that the
  migrations of a run's release are to do or recorded, by it or by another; `Claimed`
  that, with nothing cut short, a table that is not recorded has a run which will.
  `TrackingFirst` says that nothing is recorded without a tracking table, so that a
  look which rightly finds none misses nothing.
  The types need that a run at a migration has one on its list (`Listed`), whose
  oldest exists (`OldestExists`). A report of `migrate_status` was made from rows
  that are all still there, those among them that were recorded when it connected
  unless it could not look (`Reported`), and `StatusesAreRight` shows that such a
  report says what holds, in order; under it is `AscendingSorts`, that a finite set
  of numbers has one ascending enumeration at least. `RequestsInv` is taken over
  from `UsersApi_proofs`, so answers are true here too, with the schema changing below.
- **`UserReads_proofs`**. A row holds what the column keeps of its user's time
  (`RowsAreStamped`), which is minted once; so what is copied into a reply agrees
  with every later one, and `ListsAgree` follows from `ReadsShowTheCreates` and each
  list being sorted (`ListsAreSorted`). `OrderedRowsAreAll` shows that a SELECT returns
  every row: an enumeration without repetition as long as a finite set covers it.
  `AnswersAreJustified` keeps with each answer the table it was made from.
- **`OperatorCli_proofs`**. `Positions` ties a run's step to the demo user it is at and
  `Insertions` what it inserted to the users it has passed, which makes its count
  right; `PassedAreStored` says that an undisturbed run has left each of those in the
  table, so that at the end all are. `Gated` is the chain from the environment to the
  table: a run at any step that writes was invoked in development, and one at a step
  that wipes was told to.
- **`Suite_proofs`**. For the drain: the page it works on is pending (`PageIsPending`),
  since nobody else takes tasks, and a task that is handled and still pending failed
  to be deleted or is about to be (`HandledIsGone`). For the tests: both stores agree
  when a test begins and while it creates (`StoresAgree`), and as long as nothing
  failed in a test, what it expects is what the drain has counted and what is pending
  (`ExpectsAddUp`); that is why its failure is its own. `Harness` says which
  containers run at each step of `TestMain`.

Only model-checked: the liveness properties (`EveryTaskSettles`, `ShutdownEnds`,
`DrainEnds`), which TLAPS cannot prove, and what the four runs that end in a
violation refute.

## Not modelled

- The order of rows with equal `created_at`: the model leaves it open, as Postgres
  does, and `ListsAgree` speaks of the others.
- Logging and the GORM and asynq log bridges, middleware and the health route, the
  structs that carry the wiring: they keep no state, and what they write nothing
  reads. `log.Fatal` is the end of the process wherever it is called.
- The test fakes: a map and a loop per call, used by one goroutine. A model would
  restate the table of `UsersApi` without its failures.
- The migration generator: the layout of one source file and where it is put.
- JSON layout and wording; the limits of the connection pool; ports and log levels.
- More than one API process at a time, each recovering the other's tasks: nothing
  in the repository deploys it so.
- A container that dies while tests run, and the suite of the `postgres` package,
  whose `TestMain` is the one modelled without Redis.

## Plan

What is left:

1. What is proved of a part, stated of the whole it is in, where it is not yet:
   `UserReads` over the table of `UsersApi`.
2. The action properties that the invariants rest on (a recorded migration stays
   recorded while its database stands, a removed task stays removed), as theorems of
   their own.
