---------------------------- MODULE WelcomeService ----------------------------
(***************************************************************************)
(* The API process of cmd/api: the HTTP server and its requests            *)
(* (UsersApi), the producer and the embedded worker (EmailQueue), and the  *)
(* order in which main starts and stops them.  One process runs at a time; *)
(* Postgres and Redis outlive it.  The welcome-email task of the user that *)
(* request r creates is named r.                                           *)
(***************************************************************************)
EXTENDS UsersApi, EmailQueue

\* No release of this service enqueued a payload that does not unmarshal.
ASSUME WelcomeAssumption == Tasks = Requests /\ Malformed = {}

VARIABLES
    phase,      \* where main is
    timedOut    \* srv.Shutdown of this process ran into HTTPShutdownTimeout

serviceVars == <<apiVars, queueVars, phase, timedOut>>

-----------------------------------------------------------------------------
\* Connections are closed when srv.Shutdown returns nil.  When it returns an
\* error they are not, and requests keep coming in on them.
HttpOpen == phase \in {"serving", "httpDrain"} \/ (timedOut /\ phase # "down")

ClientOpen == phase \notin {"clientClosed", "dbClosed"}
DBOpen     == phase # "dbClosed"

ServiceInit ==
    /\ ApiInit
    /\ QueueInit
    /\ phase = "down"
    /\ timedOut = FALSE

-----------------------------------------------------------------------------
(* main, from start to exit.                                               *)

PhaseGoesTo(from, to) == phase = from /\ phase' = to

\* config.Load, the database, the queue client: nothing runs yet.
Launch ==
    /\ PhaseGoesTo("down", "starting")
    /\ timedOut' = FALSE
    /\ UNCHANGED <<apiVars, queueVars>>

StartWorker ==
    /\ PhaseGoesTo("starting", "workerUp")
    /\ Start
    /\ UNCHANGED <<apiVars, timedOut>>

\* startServer's goroutine binds the port.
Listen ==
    /\ PhaseGoesTo("workerUp", "serving")
    /\ UNCHANGED <<apiVars, queueVars, timedOut>>

\* SIGINT or SIGTERM: srv.Shutdown closes the listener and waits for requests.
Signal ==
    /\ PhaseGoesTo("serving", "httpDrain")
    /\ UNCHANGED <<apiVars, queueVars, timedOut>>

\* The signal overtakes ListenAndServe: there is no connection to wait for.
SignalBeforeListen ==
    /\ PhaseGoesTo("workerUp", "workerDrain")
    /\ Stop
    /\ UNCHANGED <<apiVars, timedOut>>

\* Mutant of HttpDrained: srv.Shutdown is not waited for.
HttpDrainUnawaited ==
    /\ PhaseGoesTo("httpDrain", "workerDrain")
    /\ Stop
    /\ UNCHANGED <<apiVars, timedOut>>

\* Mutant of HttpDrainTimesOut: the context has no deadline.
HttpDrainUnbounded ==
    /\ PhaseGoesTo("httpDrain", "workerDrain")
    /\ \A r \in Requests : ~InFlight(r)
    /\ Stop
    /\ UNCHANGED <<apiVars, timedOut>>

\* srv.Shutdown returns nil, or the context's error; either way the worker's
\* shutdown begins.
HttpDrained ==
    /\ PhaseGoesTo("httpDrain", "workerDrain")
    /\ \A r \in Requests : ~InFlight(r)
    /\ Stop
    /\ UNCHANGED <<apiVars, timedOut>>

HttpDrainTimesOut ==
    /\ PhaseGoesTo("httpDrain", "workerDrain")
    /\ timedOut' = TRUE
    /\ Stop
    /\ UNCHANGED apiVars

WorkerShutdown ==
    /\ phase = "workerDrain"
    /\ Abort \/ (\E t \in Tasks : Requeue(t)) \/ ShutdownReturns
    /\ UNCHANGED <<apiVars, phase, timedOut>>

\* Mutant of CloseClient: worker.Shutdown is not waited for.
CloseClientEarly ==
    /\ PhaseGoesTo("workerDrain", "clientClosed")
    /\ UNCHANGED <<apiVars, queueVars, timedOut>>

\* The deferred calls, last in first out.
CloseClient ==
    /\ worker = "stopped"
    /\ PhaseGoesTo("workerDrain", "clientClosed")
    /\ UNCHANGED <<apiVars, queueVars, timedOut>>

CloseDB ==
    /\ PhaseGoesTo("clientClosed", "dbClosed")
    /\ UNCHANGED <<apiVars, queueVars, timedOut>>

\* The process is gone, with every goroutine it had.
ProcessEnds ==
    /\ phase' = "down"
    /\ ApiDies
    /\ WorkerDies
    /\ UNCHANGED timedOut

Exit == phase = "dbClosed" /\ ProcessEnds

\* Killed, or log.Fatal because the worker or the listener failed.
Crash == phase \notin {"down", "dbClosed"} /\ ProcessEnds

Lifecycle ==
    \/ Launch \/ StartWorker \/ Listen \/ Signal \/ SignalBeforeListen
    \/ HttpDrained \/ HttpDrainTimesOut \/ WorkerShutdown
    \/ CloseClient \/ CloseDB \/ Exit \/ Crash

-----------------------------------------------------------------------------
(* A POST /users request in this process.                                  *)

Receive(r) ==
    /\ HttpOpen
    /\ RejectBody(r) \/ RejectUser(r) \/ AcceptUser(r)
    /\ UNCHANGED <<queueVars, phase, timedOut>>

\* A closed database is one more error of the INSERT.
InsertUser(r) ==
    /\ \/ InsertFails(r)
       \/ DBOpen /\ (InsertTaken(r) \/ InsertCommits(r) \/ InsertAckLost(r))
    /\ UNCHANGED <<queueVars, phase, timedOut>>

\* Mutant of EnqueueWelcomeEmail: the email is queued before the INSERT.
EnqueueBeforeInsert(r) ==
    /\ pc[r] = "insert"
    /\ ClientOpen /\ Enqueue(r)
    /\ UNCHANGED <<apiVars, phase, timedOut>>

\* The task reaches Redis (whatever the client is told), or it does not.
EnqueueWelcomeEmail(r) ==
    /\ EnqueueReturns(r)
    /\ (ClientOpen /\ Enqueue(r)) \/ UNCHANGED queueVars
    /\ UNCHANGED <<phase, timedOut>>

Answer(r) ==
    /\ ReplyCreated(r)
    /\ UNCHANGED <<queueVars, phase, timedOut>>

Serve(r) == Receive(r) \/ InsertUser(r) \/ EnqueueWelcomeEmail(r) \/ Answer(r)

-----------------------------------------------------------------------------
(* The worker of this process.                                             *)

\* Mutant of LookupUser: every error is taken for a user who is gone.
LookupErrorIsNotFound(t) ==
    /\ LookupFound(t) \/ LookupNotFound(t)
    /\ UNCHANGED <<apiVars, phase, timedOut>>

\* userRepository.Get for the user of t, as the table is now: the database may
\* fail whatever it holds, and a row the domain refuses is an error too.
LookupUser(t) ==
    /\ \/ DBOpen /\ row[t] = NoRow /\ LookupNotFound(t)
       \/ DBOpen /\ row[t] # NoRow /\ ReconstituteUser(row[t]) = <<>>
             /\ (LookupFound(t) \/ OrphanFound(t))
       \/ LookupError(t)
       \/ OrphanEnds(t)
    /\ UNCHANGED <<apiVars, phase, timedOut>>

SendEmail(t) ==
    /\ Send(t) \/ OrphanSends(t)
    /\ UNCHANGED <<apiVars, phase, timedOut>>

WorkOn(t) ==
    /\ Process(t) \/ LeaseExpires(t)
    /\ UNCHANGED <<apiVars, phase, timedOut>>

-----------------------------------------------------------------------------
\* The table changes under the service.
TableChanges ==
    /\ Truncate \/ \E r \in Requests : OutOfBandWrite(r)
    /\ UNCHANGED <<queueVars, phase, timedOut>>

ServiceNext ==
    \/ Lifecycle
    \/ \E r \in Requests : Serve(r) \/ LookupUser(r) \/ SendEmail(r) \/ WorkOn(r)
    \/ TableChanges

ServiceSpec == ServiceInit /\ [][ServiceNext]_serviceVars

\* Both shutdowns are bounded by timeouts, and main goes on when they return.
\* Nothing is assumed of the requests and the handlers that are still running.
ShutdownFairness ==
    /\ WF_serviceVars(HttpDrained \/ HttpDrainTimesOut)
    /\ WF_serviceVars(WorkerShutdown)
    /\ WF_serviceVars(CloseClient)
    /\ WF_serviceVars(CloseDB)
    /\ WF_serviceVars(Exit)

StoppingSpec == ServiceSpec /\ ShutdownFairness

-----------------------------------------------------------------------------
\* Type invariant of the lifecycle; the parts have their own.
ServiceTypeOK ==
    /\ ApiTypeOK
    /\ QueueTypeOK
    /\ phase \in {"down", "starting", "workerUp", "serving", "httpDrain",
                  "workerDrain", "clientClosed", "dbClosed"}
    /\ timedOut \in BOOLEAN

\* A welcome-email task exists only for a user that was committed before: the
\* worker never looks for a user whose INSERT is still to come, or failed
\* (usecase/user.go:59-68).
TaskOfCommittedUser == \A t \in Tasks : state[t] # "none" => t \in committed

\* welcome_email.go:69 is right about the tasks it drops: an email given up
\* before its retries are exhausted is that of a user who is gone for good.
GivenUpUserIsGone ==
    \A t \in Tasks : state[t] = "archived" /\ retried[t] < MaxRetry => row[t] = NoRow

\* When the HTTP drain did not time out, nothing uses the queue client or the
\* database once they are closed, except a handler that asynq had given up on
\* before, and then known as interrupted (main.go:28-32, 77-82).
ClosedIsUnused ==
    phase \in {"clientClosed", "dbClosed"} /\ ~timedOut =>
        \A r \in Requests :
            ~InFlight(r) /\ ~Owned(r) /\ (orphans[r] # {} => r \in interrupted)

\* The worker is up from before the first request is read until after the last
\* one is answered, unless the HTTP drain timed out (main.go:35-45, 77-82).
ServedWithWorker ==
    (\E r \in Requests : InFlight(r)) /\ ~timedOut => worker = "running"

\* Once a shutdown begins the process ends, whatever its requests and handlers
\* do (main.go:74-83).
ShutdownEnds == (phase = "httpDrain") ~> (phase = "down")

\* What became of the welcome email, for the promise.  An archived task is not
\* given up while a handler of it runs on: that one may still send.
Mail(t) ==
    IF deliveries[t] > 0 THEN "sent"
    ELSE IF state[t] = "none" THEN "none"
    ELSE IF state[t] = "archived" /\ orphans[t] = {} THEN "givenUp"
    ELSE "owed"

Promise == INSTANCE WelcomePromise WITH
    Accounts <- Requests, created <- committed, mail <- [t \in Tasks |-> Mail(t)]

\* The service keeps the promise of WelcomePromise.
KeepsPromise == Promise!PromiseSpec

\* main.go:77-78: "Stop accepting HTTP first (no new tasks get enqueued), then
\* drain the worker".
NoTaskDuringWorkerDrain ==
    [][ phase = "workerDrain" =>
            \A t \in Tasks : state[t] = "none" => state'[t] = "none" ]_serviceVars

=============================================================================
