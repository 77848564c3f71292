-------------------------------- MODULE Suite --------------------------------
(***************************************************************************)
(* The integration tests' process: TestMain over the container harness of  *)
(* internal/testsupport, then one test after another on the Postgres and   *)
(* the Redis that they share.  A test resets both, creates users through   *)
(* the API -- a row and a welcome-email task each -- and drains the queue  *)
(* (DrainQueue), checking the counts.  It may drain again after an error.  *)
(***************************************************************************)
EXTENDS DrainQueue

CONSTANT NumTests

ASSUME SuiteAssumption == NumTests \in Nat

VARIABLES
    short,          \* -short was given
    docker,         \* the Docker daemon answers
    at,             \* where TestMain is, or "ended"
    code,           \* how the process ended: "green", "red" or "killed"
    containers,     \* those that run
    unpurged,       \* history: those that Docker did not remove when told to,
                    \* or that it started and reported as not started
    result,         \* result[k]: how the k-th test went, "none" so far
    stage,          \* of the test that runs: "begin", "flush", "body"
    rows,           \* the tasks whose user's row is stored
    expects,        \* the tasks this test has created and not yet seen drained
    troubled        \* history: the tests that Postgres or Redis failed

mainVars  == <<short, docker, at, code, containers, unpurged>>
testVars  == <<result, stage, rows, expects, troubled>>
suiteVars == <<mainVars, testVars, drainVars>>

Numbers == 1..NumTests

-----------------------------------------------------------------------------
SuiteInit ==
    /\ short \in BOOLEAN /\ docker \in BOOLEAN
    /\ at = "pool"
    /\ code = "none"
    /\ containers = {} /\ unpurged = {}
    /\ result = [k \in Numbers |-> "none"]
    /\ stage = "begin"
    /\ rows = {}
    /\ expects = 0
    /\ troubled = {}
    /\ DrainInit

-----------------------------------------------------------------------------
(* TestMain.                                                               *)

MainGoesTo(from, to) ==
    /\ at = from /\ at' = to
    /\ code' = code
    /\ UNCHANGED <<short, docker, testVars, drainVars>>

\* os.Exit or log.Fatal.
Exit(from, c) ==
    /\ at = from /\ at' = "ended"
    /\ code' = c
    /\ UNCHANGED <<short, docker, testVars, drainVars>>

\* Mutant of RequirePool: no Docker, no tests, as main_test.go:21-23 has it.
RequirePoolIfAny ==
    /\ MainGoesTo("pool", IF short \/ ~docker THEN "tests" ELSE "postgres")
    /\ UNCHANGED <<containers, unpurged>>

\* -short skips; without it Docker has to be there.
RequirePool ==
    /\ \/ MainGoesTo("pool", IF short THEN "tests" ELSE "postgres") /\ (short \/ docker)
       \/ ~short /\ ~docker /\ Exit("pool", "red")
    /\ UNCHANGED <<containers, unpurged>>

\* Errors are ignored; what fails to go away stays.  What `lost` holds was started
\* by a call that then failed: nobody has its handle.
Remove(resources, lost) ==
    \E failing \in SUBSET resources :
        /\ containers' = (containers \ resources) \cup failing \cup lost
        /\ unpurged' = unpurged \cup failing \cup lost

\* A container is started and waited for.
Started(c) == containers' = containers \cup {c} /\ UNCHANGED unpurged

\* Mutant of NotStarted: a container that is not ready in time is left to itself.
NotStartedUnpurged(c, others) ==
    \/ \E lost \in SUBSET {c} : Remove(others, lost)
    \/ \E failing \in SUBSET others :
          /\ containers' = (containers \ others) \cup failing \cup {c}
          /\ unpurged' = unpurged \cup failing

\* RunWithOptions fails, perhaps after Docker started c; or c is not ready in time
\* and is purged.  TestMain then purges the others.
NotStarted(c, others) ==
    \/ \E lost \in SUBSET {c} : Remove(others, lost)
    \/ Remove(others \cup {c}, {})

StartPostgres ==
    \/ MainGoesTo("postgres", "redis") /\ Started("pg")
    \/ Exit("postgres", "red") /\ NotStarted("pg", {})

StartRedis ==
    \/ MainGoesTo("redis", "migrate") /\ Started("rd")
    \/ Exit("redis", "red") /\ NotStarted("rd", {"pg"})

Migrate ==
    \/ MainGoesTo("migrate", "tests") /\ UNCHANGED <<containers, unpurged>>
    \/ Exit("migrate", "red") /\ Remove({"pg", "rd"}, {})

\* m.Run has returned: only failed tests make it red.
Purge ==
    /\ \A k \in Numbers : result[k] # "none"
    /\ Exit("tests", IF \E k \in Numbers : result[k] = "failed" THEN "red" ELSE "green")
    /\ Remove(containers, {})

\* A panic in a test, go test's own timeout, a signal.
KilledAnywhere ==
    /\ at # "ended" /\ Exit(at, "killed")
    /\ UNCHANGED <<containers, unpurged>>

TestMain == RequirePool \/ StartPostgres \/ StartRedis \/ Migrate \/ Purge \/ KilledAnywhere

-----------------------------------------------------------------------------
(* The tests, one after another.                                           *)

Turn(k) ==
    /\ at = "tests"
    /\ result[k] = "none" /\ \A j \in 1..(k - 1) : result[j] # "none"

\* testCfg is there only after Migrate.
HasConfig == containers = {"pg", "rd"}

Ends(k, r) ==
    /\ result' = [result EXCEPT ![k] = r]
    /\ stage' = "begin"

Skip(k) ==
    /\ Turn(k) /\ stage = "begin" /\ ~HasConfig
    /\ Ends(k, "skipped")
    /\ UNCHANGED <<mainVars, rows, expects, troubled, drainVars>>

\* reset: TRUNCATE, then FLUSHDB.
Truncate(k) ==
    /\ Turn(k) /\ stage = "begin" /\ HasConfig
    /\ stage' = "flush"
    /\ rows' = {}
    /\ UNCHANGED <<mainVars, result, expects, troubled, drainVars>>

\* Mutant of Flush: Redis keeps what the last test left.
FlushNothing(k) ==
    /\ Turn(k) /\ stage = "flush"
    /\ stage' = "body"
    /\ expects' = 0
    /\ enqueued' = {} /\ pc' = "idle"
    /\ UNCHANGED <<mainVars, result, rows, troubled, pending, page, processed, removed,
                   handled, undeleted>>

Flush(k) ==
    /\ Turn(k) /\ stage = "flush"
    /\ stage' = "body"
    /\ expects' = 0
    /\ FlushDB
    /\ UNCHANGED <<mainVars, result, rows, troubled>>

\* POST /users with an address that the test has not used, and the checks on it: if
\* the address is taken the test fails, else there is one more row and one more task.
Create(k, t) ==
    /\ Turn(k) /\ stage = "body" /\ pc \in {"idle", "failed"} /\ t \notin enqueued
    /\ IF t \in rows
       THEN Ends(k, "failed") /\ UNCHANGED <<rows, expects, drainVars>>
       ELSE /\ rows' = rows \cup {t}
            /\ expects' = expects + 1
            /\ Enqueue(t)
            /\ UNCHANGED <<result, stage>>
    /\ UNCHANGED <<mainVars, troubled>>

StartDrain(k) ==
    /\ Turn(k) /\ stage = "body" /\ pc \in {"idle", "failed"}
    /\ Drain
    /\ UNCHANGED <<mainVars, testVars>>

RunDrain(k) ==
    /\ Turn(k) /\ stage = "body"
    /\ DrainStep
    /\ troubled' = IF pc' = "failed" THEN troubled \cup {k} ELSE troubled
    /\ UNCHANGED <<mainVars, result, stage, rows, expects>>

\* The drain returned no error: it must have counted the tasks the test knows of
\* and left none.
Check(k) ==
    /\ Turn(k) /\ stage = "body" /\ pc = "done"
    /\ IF processed = expects /\ pending = {}
       THEN UNCHANGED <<result, stage>>
       ELSE Ends(k, "failed")
    /\ expects' = 0
    /\ pc' = "idle"
    /\ UNCHANGED <<mainVars, rows, troubled, enqueued, pending, page, processed, removed,
                   handled, undeleted>>

Pass(k) ==
    /\ Turn(k) /\ stage = "body" /\ pc = "idle" /\ expects = 0
    /\ Ends(k, "passed")
    /\ UNCHANGED <<mainVars, rows, expects, troubled, drainVars>>

\* Postgres or Redis is in trouble: require fails the test.
Trouble(k) ==
    /\ Turn(k) /\ HasConfig /\ pc \in {"idle", "failed"}
    /\ Ends(k, "failed")
    /\ troubled' = troubled \cup {k}
    /\ UNCHANGED <<mainVars, rows, expects, drainVars>>

Test(k) ==
    \/ Skip(k) \/ Truncate(k) \/ Flush(k) \/ StartDrain(k) \/ RunDrain(k) \/ Check(k)
    \/ Pass(k) \/ Trouble(k) \/ \E t \in Tasks : Create(k, t)

SuiteNext == TestMain \/ \E k \in Numbers : Test(k)

\* The calling goroutine runs on.
SuiteSpec ==
    /\ SuiteInit /\ [][SuiteNext]_suiteVars
    /\ \A k \in Numbers : WF_suiteVars(RunDrain(k))

-----------------------------------------------------------------------------
\* Type invariant, DrainQueue's included.
SuiteTypeOK ==
    /\ DrainTypeOK
    /\ at \in {"pool", "postgres", "redis", "migrate", "tests", "ended"}
    /\ code \in {"none", "green", "red", "killed"}
    /\ containers \subseteq {"pg", "rd"} /\ unpurged \subseteq {"pg", "rd"}
    /\ result \in [Numbers -> {"none", "passed", "failed", "skipped"}]
    /\ stage \in {"begin", "flush", "body"}
    /\ rows \subseteq Tasks /\ expects \in 0..Cardinality(Tasks)
    /\ troubled \subseteq Numbers

\* A run that was not told to skip passes only if every test ran against Postgres and
\* Redis and passed: "fails loudly instead of passing green without ever exercising
\* the containers" (containers.go:30-45).  main_test.go:21-23 and the message at 63 name
\* a missing Docker as a reason to skip; it never is one.
GreenIsReal ==
    code = "green" /\ ~short => \A k \in Numbers : result[k] = "passed"

\* A process that ends by itself, wherever it gives up, leaves no container behind that
\* Docker would have removed (main_test.go:38-57, containers.go:144-148).
NothingLeftBehind == code \in {"green", "red"} => containers \subseteq unpurged

\* A test fails only by a trouble of its own, never by what another one left in either
\* store, even one that failed half way (main_test.go:67-87).
FailureIsOwn == \A k \in Numbers : result[k] = "failed" => k \in troubled

\* A drain ends unless the process does: every round leaves fewer tasks.
DrainEnds == pc = "list" ~> pc \in {"done", "failed"} \/ at = "ended"

=============================================================================
