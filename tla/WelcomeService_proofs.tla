------------------------- MODULE WelcomeService_proofs ------------------------
(***************************************************************************)
(* The safety of the whole API process, and that it keeps WelcomePromise,  *)
(* for any set of requests: from the invariants of its two parts and what  *)
(* relates them.                                                           *)
(***************************************************************************)
EXTENDS WelcomeService, UsersApi_proofs, EmailQueue_proofs

-----------------------------------------------------------------------------
(* What relates the parts.                                                 *)

\* The worker's state follows main's.
WorkerFollowsPhase ==
    /\ phase \in {"down", "starting"} => worker = "down"
    /\ phase \in {"workerUp", "serving", "httpDrain"} => worker = "running"
    /\ phase = "workerDrain" => worker \in {"draining", "aborted", "stopped"}
    /\ phase \in {"clientClosed", "dbClosed"} => worker = "stopped"

\* Requests run only where main lets them.
InFlightWhenOpen == \A r \in Requests : InFlight(r) => HttpOpen

\* A timeout of the HTTP drain belongs to the process that had it.
TimeoutAfterDrain ==
    timedOut => phase \in {"workerDrain", "clientClosed", "dbClosed", "down"}

\* A handler gives up only on a user whose row is gone.
SkippedUserIsGone == \A t \in Tasks : handler[t] = "skip" => row[t] = NoRow

\* A task that is unknown to the queue has no handler either.
HandledWasEnqueued == \A t \in Tasks : Owned(t) => state[t] # "none"

\* The inductive invariant of the service.
ServiceInv ==
    /\ ApiInv
    /\ QueueInv
    /\ ServiceTypeOK
    /\ WorkerFollowsPhase
    /\ InFlightWhenOpen
    /\ TimeoutAfterDrain
    /\ TaskOfCommittedUser
    /\ SkippedUserIsGone
    /\ GivenUpUserIsGone

\* A handler's task is in the queue.
LEMMA HandlerHasTask == ASSUME QueueInv PROVE HandledWasEnqueued
  BY DEF QueueInv, OneHandlerPerTask, HandledWasEnqueued, Owned

\* The process starts with nothing running.
LEMMA ServiceInitInv == ServiceInit => ServiceInv
<1> SUFFICES ASSUME ServiceInit PROVE ServiceInv
  OBVIOUS
<1>1. ApiInv /\ QueueInv
  BY ApiInitInv, QueueInitInv DEF ServiceInit
<1>2. ServiceTypeOK
  BY <1>1 DEF ServiceInit, ServiceTypeOK, ApiInv, RequestsInv, QueueInv
<1>3. WorkerFollowsPhase /\ InFlightWhenOpen /\ TimeoutAfterDrain
  BY DEF ServiceInit, ApiInit, QueueInit, WorkerFollowsPhase, InFlightWhenOpen, InFlight,
         TimeoutAfterDrain
<1>4. TaskOfCommittedUser /\ SkippedUserIsGone /\ GivenUpUserIsGone
  BY WelcomeAssumption
  DEF ServiceInit, QueueInit, TaskOfCommittedUser, SkippedUserIsGone, GivenUpUserIsGone
<1> QED
  BY <1>1, <1>2, <1>3, <1>4 DEF ServiceInv

-----------------------------------------------------------------------------
(* The parts only ever take their own steps.                               *)

\* A step of the service is a step of the API, or leaves it alone.
LEMMA ServiceIsApiStep == ServiceNext => [ApiNext]_apiVars
  BY WelcomeAssumption
  DEF ServiceNext, Lifecycle, Launch, StartWorker, Listen, Signal, SignalBeforeListen,
      HttpDrained, HttpDrainTimesOut, WorkerShutdown, CloseClient, CloseDB, Exit, Crash,
      ProcessEnds, Serve, Receive, InsertUser, EnqueueWelcomeEmail, Answer, LookupUser,
      SendEmail, WorkOn, TableChanges, ApiNext, ApiStep

\* It is a step of the queue, or the end of the process, or leaves it alone.
LEMMA ServiceIsQueueStep == ServiceNext => [QueueNext]_queueVars \/ WorkerDies
  BY WelcomeAssumption
  DEF ServiceNext, Lifecycle, Launch, StartWorker, Listen, Signal, SignalBeforeListen,
      HttpDrained, HttpDrainTimesOut, WorkerShutdown, CloseClient, CloseDB, Exit, Crash,
      ProcessEnds, Serve, Receive, InsertUser, EnqueueWelcomeEmail, Answer, LookupUser,
      SendEmail, WorkOn, TableChanges, QueueNext, Handle, RunOn

\* So the parts keep their invariants.
LEMMA PartsInv == ASSUME ServiceInv, [ServiceNext]_serviceVars PROVE ApiInv' /\ QueueInv'
<1>1. [ApiNext]_apiVars /\ ([QueueNext]_queueVars \/ WorkerDies)
  BY ServiceIsApiStep, ServiceIsQueueStep DEF serviceVars
<1> QED
  BY <1>1, ApiNextInv, QueueNextInv, DeathInv DEF ServiceInv

-----------------------------------------------------------------------------
(* What relates the parts is kept by every step.                           *)

\* The facts about main, its worker and its requests.
LifecycleFacts ==
    /\ phase \in {"down", "starting", "workerUp", "serving", "httpDrain",
                  "workerDrain", "clientClosed", "dbClosed"}
    /\ timedOut \in BOOLEAN
    /\ WorkerFollowsPhase
    /\ InFlightWhenOpen
    /\ TimeoutAfterDrain

\* The facts about tasks and the table.
TableFacts == TaskOfCommittedUser /\ SkippedUserIsGone /\ GivenUpUserIsGone

\* The two kinds of facts, with the invariants of the parts, are all of it.
LEMMA ServiceInvParts ==
    ServiceInv <=> ApiInv /\ QueueInv /\ LifecycleFacts /\ TableFacts
  BY DEF ServiceInv, LifecycleFacts, TableFacts, ServiceTypeOK, ApiInv, RequestsInv, QueueInv

\* main's own steps keep the lifecycle in order.
LEMMA LifecycleKeepsOrder == ASSUME ServiceInv, Lifecycle PROVE LifecycleFacts'
<1> USE ServiceInvParts DEF LifecycleFacts, WorkerFollowsPhase, InFlightWhenOpen,
        TimeoutAfterDrain, HttpOpen, InFlight, PhaseGoesTo, WorkerGoesTo, apiVars
<1>1. CASE Launch
  BY <1>1 DEF Launch, queueVars
<1>2. CASE StartWorker
  BY <1>2 DEF StartWorker, Start
<1>3. CASE Listen
  BY <1>3 DEF Listen, queueVars
<1>4. CASE Signal
  BY <1>4 DEF Signal, queueVars
<1>5. CASE SignalBeforeListen
  BY <1>5 DEF SignalBeforeListen, Stop
<1>6. CASE HttpDrained
  BY <1>6 DEF HttpDrained, Stop
<1>7. CASE HttpDrainTimesOut
  BY <1>7 DEF HttpDrainTimesOut, Stop
<1>8. CASE WorkerShutdown
  BY <1>8 DEF WorkerShutdown, Abort, Requeue, Abandon, ShutdownReturns
<1>9. CASE CloseClient
  BY <1>9 DEF CloseClient, queueVars
<1>10. CASE CloseDB
  BY <1>10 DEF CloseDB, queueVars
<1>11. CASE Exit \/ Crash
  BY <1>11 DEF Exit, Crash, ProcessEnds, ApiDies, WorkerDies, ApiInv, RequestsInv, ApiTypeOK
<1> QED
  BY <1>1, <1>2, <1>3, <1>4, <1>5, <1>6, <1>7, <1>8, <1>9, <1>10, <1>11 DEF Lifecycle

\* They do not touch the table, and give no task a handler or an end.
LEMMA LifecycleKeepsTable == ASSUME ServiceInv, Lifecycle PROVE TableFacts'
<1> USE ServiceInvParts DEF TableFacts, TaskOfCommittedUser, SkippedUserIsGone,
        GivenUpUserIsGone, QueueInv, QueueTypeOK
<1>1. UNCHANGED <<row, committed, retried>>
  BY DEF Lifecycle, Launch, StartWorker, Start, Listen, Signal, SignalBeforeListen, Stop,
         HttpDrained, HttpDrainTimesOut, WorkerShutdown, Abort, Requeue, Abandon, ShutdownReturns,
         CloseClient, CloseDB, Exit, Crash, ProcessEnds, ApiDies, WorkerDies,
         WorkerGoesTo, apiVars, queueVars
<1>2. CASE \E t \in Tasks : Requeue(t)
  <2>1. PICK t \in Tasks : Requeue(t)
    BY <1>2
  <2> QED
    BY <1>1, <2>1 DEF Requeue, Abandon, Owned, OneHandlerPerTask
<1>3. CASE WorkerDies
  BY <1>1, <1>3 DEF WorkerDies
<1>4. CASE UNCHANGED <<state, handler>>
  BY <1>1, <1>4
<1> QED
  BY <1>2, <1>3, <1>4
  DEF Lifecycle, Launch, StartWorker, Start, Listen, Signal, SignalBeforeListen, Stop,
      HttpDrained, HttpDrainTimesOut, WorkerShutdown, Abort, ShutdownReturns, CloseClient,
      CloseDB, Exit, Crash, ProcessEnds, WorkerGoesTo, queueVars

\* A request that is served keeps what relates the parts: its INSERT is before
\* its task, and its row is new.
LEMMA ServeKeepsFacts ==
    ASSUME ServiceInv, NEW r \in Requests, Serve(r) PROVE LifecycleFacts' /\ TableFacts'
<1> USE ServiceInvParts, WelcomeAssumption
    DEF LifecycleFacts, WorkerFollowsPhase, InFlightWhenOpen, TimeoutAfterDrain, HttpOpen,
        InFlight, TableFacts, TaskOfCommittedUser, SkippedUserIsGone, GivenUpUserIsGone,
        queueVars, ApiInv, RequestsInv, ApiTypeOK
<1>1. CASE Receive(r)
  BY <1>1 DEF Receive, RejectBody, RejectUser, AcceptUser, Respond
<1>2. CASE InsertUser(r)
  <2>1. pc[r] = "insert" /\ r \notin committed
    BY <1>2 DEF InsertUser, InsertFails, InsertTaken, InsertCommits, InsertAckLost, Progress
  <2>2. handler[r] = "idle" /\ state[r] = "none"
    BY <2>1, HandlerHasTask, WelcomeAssumption DEF HandledWasEnqueued, Owned
  <2>3. /\ UNCHANGED <<queueVars, phase, timedOut>>
        /\ committed \subseteq committed'
        /\ \A q \in Requests \ {r} : row'[q] = row[q] /\ pc'[q] = pc[q]
    BY <1>2 DEF InsertUser, InsertFails, InsertTaken, InsertCommits, InsertAckLost,
                StoreRow, Respond
  <2>4. LifecycleFacts'
    BY <2>1, <2>3
  <2>5. TableFacts'
    BY <2>2, <2>3
  <2> QED
    BY <2>4, <2>5
<1>3. CASE EnqueueWelcomeEmail(r)
  <2>1. r \in committed /\ pc[r] = "enqueue"
    BY <1>3 DEF EnqueueWelcomeEmail, EnqueueReturns, Progress
  <2>2. UNCHANGED <<row, committed, phase, timedOut, worker, handler, retried>>
    BY <1>3 DEF EnqueueWelcomeEmail, EnqueueReturns, Enqueue
  <2>3. LifecycleFacts'
    BY <1>3, <2>1, <2>2 DEF EnqueueWelcomeEmail, EnqueueReturns
  <2>4. TableFacts'
    BY <1>3, <2>1, <2>2
    DEF EnqueueWelcomeEmail, Enqueue, QueueInv, QueueTypeOK
  <2> QED
    BY <2>3, <2>4
<1>4. CASE Answer(r)
  BY <1>4 DEF Answer, ReplyCreated, Respond
<1> QED
  BY <1>1, <1>2, <1>3, <1>4 DEF Serve

\* A handler that looks its user up finds out whether the row is gone.
LEMMA LookupKeepsFacts ==
    ASSUME ServiceInv, NEW t \in Tasks, LookupUser(t) PROVE LifecycleFacts' /\ TableFacts'
<1> USE ServiceInvParts
    DEF LifecycleFacts, WorkerFollowsPhase, InFlightWhenOpen, TimeoutAfterDrain, HttpOpen,
        InFlight, TableFacts, TaskOfCommittedUser, SkippedUserIsGone, GivenUpUserIsGone,
        apiVars, QueueInv, QueueTypeOK
<1> QED
  BY DEF LookupUser, LookupFound, LookupNotFound, LookupError, HandlerGoesTo, OrphanFound,
         OrphanEnds, OrphanMoves

\* Sending changes neither.
LEMMA SendKeepsFacts ==
    ASSUME ServiceInv, NEW t \in Tasks, SendEmail(t) PROVE LifecycleFacts' /\ TableFacts'
<1> USE ServiceInvParts
    DEF LifecycleFacts, WorkerFollowsPhase, InFlightWhenOpen, TimeoutAfterDrain, HttpOpen,
        InFlight, TableFacts, TaskOfCommittedUser, SkippedUserIsGone, GivenUpUserIsGone,
        apiVars, QueueInv, QueueTypeOK
<1> QED
  BY DEF SendEmail, Send, HandlerGoesTo, OrphanSends, OrphanMoves

\* A task is archived before its retries are exhausted only if it was skipped.
LEMMA WorkKeepsFacts ==
    ASSUME ServiceInv, NEW t \in Tasks, WorkOn(t) PROVE LifecycleFacts' /\ TableFacts'
<1> USE ServiceInvParts, QueueAssumption
    DEF LifecycleFacts, WorkerFollowsPhase, InFlightWhenOpen, TimeoutAfterDrain, HttpOpen,
        InFlight, TableFacts, TaskOfCommittedUser, SkippedUserIsGone, GivenUpUserIsGone,
        apiVars, QueueInv, QueueTypeOK, OneHandlerPerTask, TakeAnswer, FailAttempt, Abandon,
        Owned
<1>1. CASE Fetch(t)
  BY <1>1 DEF WorkOn, Fetch
<1>2. CASE Complete(t)
  BY <1>2 DEF WorkOn, Complete
<1>3. CASE Fail(t)
  BY <1>3 DEF WorkOn, Fail
<1>4. CASE Skip(t)
  BY <1>4 DEF WorkOn, Skip
<1>5. CASE Timeout(t)
  BY <1>5 DEF WorkOn, Timeout
<1>6. CASE Forward(t)
  BY <1>6 DEF WorkOn, Forward
<1>7. CASE Recover(t)
  BY <1>7 DEF WorkOn, Recover
<1>8. CASE LeaseExpires(t)
  BY <1>8 DEF WorkOn, LeaseExpires
<1> QED
  BY <1>1, <1>2, <1>3, <1>4, <1>5, <1>6, <1>7, <1>8 DEF WorkOn, Process

\* Others only wipe rows, or spoil rows that are there.
LEMMA TableChangesKeepFacts ==
    ASSUME ServiceInv, TableChanges PROVE LifecycleFacts' /\ TableFacts'
<1> USE ServiceInvParts, WelcomeAssumption
    DEF LifecycleFacts, WorkerFollowsPhase, InFlightWhenOpen, TimeoutAfterDrain, HttpOpen,
        InFlight, TableFacts, TaskOfCommittedUser, SkippedUserIsGone, GivenUpUserIsGone,
        queueVars, ApiInv, RequestsInv, ApiTypeOK
<1> QED
  BY DEF TableChanges, Truncate, OutOfBandWrite

\* The invariant of the service is inductive.
LEMMA ServiceNextInv == ASSUME ServiceInv, [ServiceNext]_serviceVars PROVE ServiceInv'
<1>1. ApiInv' /\ QueueInv'
  BY PartsInv
<1>2. LifecycleFacts' /\ TableFacts'
  <2>1. CASE Lifecycle
    BY <2>1, LifecycleKeepsOrder, LifecycleKeepsTable
  <2>2. CASE \E r \in Requests : Serve(r) \/ LookupUser(r) \/ SendEmail(r) \/ WorkOn(r)
    BY <2>2, ServeKeepsFacts, LookupKeepsFacts, SendKeepsFacts, WorkKeepsFacts, WelcomeAssumption
  <2>3. CASE TableChanges
    BY <2>3, TableChangesKeepFacts
  <2>4. CASE UNCHANGED serviceVars
    BY <2>4, ServiceInvParts
    DEF serviceVars, apiVars, queueVars, LifecycleFacts, WorkerFollowsPhase,
        InFlightWhenOpen, TimeoutAfterDrain, HttpOpen, InFlight, TableFacts,
        TaskOfCommittedUser, SkippedUserIsGone, GivenUpUserIsGone
  <2> QED
    BY <2>1, <2>2, <2>3, <2>4 DEF ServiceNext
<1> QED
  BY <1>1, <1>2
  DEF ServiceInv, LifecycleFacts, TableFacts, ServiceTypeOK, ApiInv, RequestsInv, QueueInv

\* The invariant holds throughout.
THEOREM ServiceInvariant == ServiceSpec => []ServiceInv
  BY ServiceInitInv, ServiceNextInv, PTL DEF ServiceSpec

\* The lifecycle and both parts always have their types.
THEOREM ServiceTypeCorrect == ServiceSpec => []ServiceTypeOK
  BY ServiceInvariant, PTL DEF ServiceInv

\* No welcome email is ever queued for a user that is not committed
\* (usecase/user.go:59-68).
THEOREM TasksOfCommittedUsers == ServiceSpec => []TaskOfCommittedUser
  BY ServiceInvariant, PTL DEF ServiceInv

\* A welcome email that is given up with retries left belongs to a user who is
\* gone (welcome_email.go:66-72).
THEOREM GivenUpUsersAreGone == ServiceSpec => []GivenUpUserIsGone
  BY ServiceInvariant, PTL DEF ServiceInv

\* Requests have a running worker, unless the HTTP drain timed out
\* (main.go:35-45, 77-82).
THEOREM RequestsHaveAWorker == ServiceSpec => []ServedWithWorker
<1>1. ServiceInv => ServedWithWorker
  BY DEF ServiceInv, ServedWithWorker, InFlightWhenOpen, HttpOpen, WorkerFollowsPhase
<1> QED
  BY <1>1, ServiceInvariant, PTL

\* After an HTTP drain that did not time out, the client and the database are
\* closed with nobody using them but handlers that asynq had given up on
\* (main.go:28-32, 77-82).
THEOREM ClosedUnused == ServiceSpec => []ClosedIsUnused
<1>1. ServiceInv => ClosedIsUnused
  BY WelcomeAssumption
  DEF ServiceInv, ClosedIsUnused, InFlightWhenOpen, HttpOpen, WorkerFollowsPhase,
      QueueInv, OneHandlerPerTask
<1> QED
  BY <1>1, ServiceInvariant, PTL

-----------------------------------------------------------------------------
(* The service implements WelcomePromise.                                  *)

\* The welcome emails as the promise sees them.
Mails == [t \in Tasks |-> Mail(t)]

\* Nobody is owed anything at first.
LEMMA PromiseStarts == ServiceInit => Promise!PromiseInit
  BY WelcomeAssumption
  DEF ServiceInit, ApiInit, QueueInit, Promise!PromiseInit, Mail

\* What became of an email depends on what the queue knows of its task alone.
LEMMA MailIsStable ==
    ASSUME NEW t \in Tasks, state'[t] = state[t], deliveries'[t] = deliveries[t],
           orphans'[t] = orphans[t]
    PROVE  Mail(t)' = Mail(t)
  BY DEF Mail

\* The promise allows what a step does.
Kept == Promise!PromiseNext \/ UNCHANGED <<committed, Mails>>

\* A step that changes no email and commits nothing is a stutter.
LEMMA NoMailStutters ==
    ASSUME UNCHANGED <<committed, state, deliveries, orphans>> PROVE Kept
  BY MailIsStable DEF Mails, Kept

\* A step that only gives emails up, however many, keeps the promise.
LEMMA GivingUpKeeps ==
    ASSUME UNCHANGED committed,
           \A t \in Tasks :
               Mails'[t] = Mails[t] \/ (Mails[t] = "owed" /\ Mails'[t] = "givenUp")
    PROVE  Kept
<1> DEFINE lost == {t \in Tasks : Mails[t] = "owed" /\ Mails'[t] = "givenUp"}
<1>1. lost \in SUBSET Requests /\ \A t \in lost : Mails[t] = "owed"
  BY WelcomeAssumption
<1>2. Mails' = [t \in Requests |-> IF t \in lost THEN "givenUp" ELSE Mails[t]]
  <2>1. Mails' = [t \in Tasks |-> Mails'[t]]
    BY DEF Mails
  <2> QED
    BY <2>1, WelcomeAssumption
<1>3. Promise!GiveUp(lost)
  BY <1>1, <1>2 DEF Promise!GiveUp, Mails
<1> QED
  BY <1>1, <1>3 DEF Kept, Promise!PromiseNext

\* A step that moves one email, as the promise allows, keeps the promise.
LEMMA OneMailMoves ==
    ASSUME NEW t \in Tasks, UNCHANGED committed,
           \A u \in Tasks \ {t} : /\ state'[u] = state[u] /\ deliveries'[u] = deliveries[u]
                                  /\ orphans'[u] = orphans[u],
           \/ Mail(t)' = Mail(t)
           \/ Mail(t) = "none" /\ Mail(t)' = "owed" /\ t \in committed
           \/ Mail(t) = "owed" /\ Mail(t)' \in {"sent", "givenUp"}
    PROVE  Kept
<1> DEFINE to == Mail(t)'
<1>1. \A u \in Tasks \ {t} : Mail(u)' = Mail(u)
  BY MailIsStable
<1>2. Mails' = [Mails EXCEPT ![t] = to]
  BY <1>1 DEF Mails
<1>3. Mails[t] = Mail(t)
  BY DEF Mails
<1>4. CASE Mail(t)' = Mail(t) \/ (Mail(t) = "owed" /\ Mail(t)' = "givenUp")
  <2>1. \A u \in Tasks :
            Mails'[u] = Mails[u] \/ (Mails[u] = "owed" /\ Mails'[u] = "givenUp")
    BY <1>2, <1>3, <1>4 DEF Mails
  <2> QED
    BY <2>1, GivingUpKeeps
<1>5. CASE Mail(t) = "none" /\ Mail(t)' = "owed" /\ t \in committed
  <2>1. Promise!Owe(t)
    BY <1>2, <1>3, <1>5 DEF Promise!Owe, Promise!MailGoesTo, Mails
  <2> QED
    BY <2>1, WelcomeAssumption DEF Kept, Promise!PromiseNext
<1>6. CASE Mail(t) = "owed" /\ Mail(t)' = "sent"
  <2>1. Promise!Deliver(t)
    BY <1>2, <1>3, <1>6 DEF Promise!Deliver, Promise!MailGoesTo, Mails
  <2> QED
    BY <2>1, WelcomeAssumption DEF Kept, Promise!PromiseNext
<1> QED
  BY <1>4, <1>5, <1>6

\* main creates no account.  The end of its process gives up the emails of
\* archived tasks that a handler might still have sent.
LEMMA LifecycleKeeps == ASSUME ServiceInv, Lifecycle PROVE Kept
<1>1. CASE \E t \in Tasks : Requeue(t) /\ UNCHANGED apiVars
  <2>1. PICK t \in Tasks : Requeue(t) /\ UNCHANGED apiVars
    BY <1>1
  <2>2. /\ state[t] = "active" /\ state'[t] = "pending" /\ deliveries' = deliveries
        /\ \A u \in Tasks \ {t} : state'[u] = state[u] /\ orphans'[u] = orphans[u]
    BY <2>1 DEF Requeue, Abandon, Owned, ServiceInv, QueueInv, QueueTypeOK, OneHandlerPerTask
  <2>3. Mail(t)' = Mail(t)
    BY <2>2 DEF Mail
  <2> QED
    BY <2>1, <2>2, <2>3, OneMailMoves DEF apiVars
<1>2. CASE WorkerDies /\ UNCHANGED committed
  <2>1. ASSUME NEW t \in Tasks
        PROVE  Mails'[t] = Mails[t] \/ (Mails[t] = "owed" /\ Mails'[t] = "givenUp")
    BY <1>2 DEF WorkerDies, Mail, Mails
  <2> QED
    BY <1>2, <2>1, GivingUpKeeps
<1>3. CASE UNCHANGED <<committed, state, deliveries, orphans>>
  BY <1>3, NoMailStutters
<1> QED
  BY <1>1, <1>2, <1>3
  DEF Lifecycle, Launch, StartWorker, Start, Listen, Signal, SignalBeforeListen, Stop,
      HttpDrained, HttpDrainTimesOut, WorkerShutdown, Abort, ShutdownReturns, CloseClient,
      CloseDB, Exit, Crash, ProcessEnds, ApiDies, WorkerGoesTo, apiVars, queueVars

\* A request creates its account once, and owes the email after that.
LEMMA ServeKeeps == ASSUME ServiceInv, NEW r \in Requests, Serve(r) PROVE Kept
<1>1. CASE InsertUser(r)
  <2>1. UNCHANGED <<state, deliveries, orphans>> /\ r \notin committed
    BY <1>1 DEF InsertUser, InsertFails, InsertTaken, InsertCommits, InsertAckLost,
                queueVars, ServiceInv, ApiInv, RequestsInv, Progress
  <2>2. UNCHANGED Mails
    BY <2>1, MailIsStable DEF Mails
  <2>3. committed' \in {committed, committed \cup {r}}
    BY <1>1 DEF InsertUser, InsertFails, InsertTaken, InsertCommits, InsertAckLost,
                StoreRow
  <2>4. CASE committed' = committed
    BY <2>2, <2>4 DEF Kept
  <2>5. CASE committed' = committed \cup {r}
    <3>1. Promise!Create(r)
      BY <2>1, <2>2, <2>5 DEF Promise!Create, Mails
    <3> QED
      BY <3>1 DEF Kept, Promise!PromiseNext
  <2> QED
    BY <2>3, <2>4, <2>5
<1>2. CASE EnqueueWelcomeEmail(r) /\ Enqueue(r)
  <2>1. r \in committed /\ UNCHANGED committed
    BY <1>2 DEF EnqueueWelcomeEmail, EnqueueReturns, ServiceInv, ApiInv, RequestsInv, Progress
  <2>2. /\ r \in Tasks /\ state[r] = "none" /\ state'[r] = "pending"
        /\ deliveries[r] = 0 /\ deliveries' = deliveries /\ orphans' = orphans
        /\ \A u \in Tasks \ {r} : state'[u] = state[u]
    BY <1>2, WelcomeAssumption
    DEF Enqueue, ServiceInv, QueueInv, QueueTypeOK, UnknownIsUnsent
  <2>3. Mail(r) = "none" /\ Mail(r)' = "owed"
    BY <2>2 DEF Mail
  <2> QED
    BY <2>1, <2>2, <2>3, OneMailMoves
<1>3. CASE UNCHANGED <<committed, state, deliveries, orphans>>
  BY <1>3, NoMailStutters
<1> QED
  BY <1>1, <1>2, <1>3
  DEF Serve, Receive, RejectBody, RejectUser, AcceptUser, EnqueueWelcomeEmail,
      EnqueueReturns, Answer, ReplyCreated, queueVars

\* A lookup moves no email, but an orphan that ends can be the last that might
\* have sent it.
LEMMA LookupKeeps == ASSUME ServiceInv, NEW t \in Tasks, LookupUser(t) PROVE Kept
<1>1. /\ UNCHANGED <<committed, state, deliveries>>
      /\ \A u \in Tasks \ {t} : orphans'[u] = orphans[u]
      /\ orphans'[t] = {} \/ orphans[t] # {}
  BY DEF LookupUser, LookupFound, LookupNotFound, LookupError, HandlerGoesTo, OrphanFound,
         OrphanEnds, OrphanMoves, apiVars, ServiceInv, QueueInv, QueueTypeOK
<1>2. Mail(t)' = Mail(t) \/ (Mail(t) = "owed" /\ Mail(t)' = "givenUp")
  BY <1>1 DEF Mail
<1> QED
  BY <1>1, <1>2, OneMailMoves

\* Every handler sends what is owed, or sends it again.
LEMMA SendKeeps == ASSUME ServiceInv, NEW t \in Tasks, SendEmail(t) PROVE Kept
<1> USE DEF ServiceInv, QueueInv, QueueTypeOK
<1>1. /\ state' = state /\ deliveries[t] \in 0..2 /\ deliveries'[t] \in 1..2
      /\ UNCHANGED committed
      /\ \A u \in Tasks \ {t} :
             deliveries'[u] = deliveries[u] /\ orphans'[u] = orphans[u]
  BY DEF SendEmail, Send, HandlerGoesTo, OrphanSends, OrphanMoves, CountDelivery, apiVars
<1>2. (Owned(t) /\ state[t] = "active") \/ (orphans[t] # {} /\ state[t] # "none")
  BY DEF SendEmail, Send, OrphanSends, OrphanMoves, OneHandlerPerTask, Owned,
         UnknownIsUnhandled
<1>3. Mail(t)' = "sent" /\ Mail(t) \in {"owed", "sent"}
  BY <1>1, <1>2 DEF Mail
<1> QED
  BY <1>1, <1>3, OneMailMoves

\* asynq gives an email up when it archives a task that was not sent.
LEMMA WorkKeeps == ASSUME ServiceInv, NEW t \in Tasks, WorkOn(t) PROVE Kept
<1> USE DEF ServiceInv, QueueInv, QueueTypeOK
<1>1. CASE Complete(t)
  <2>1. /\ deliveries[t] \in 1..2 /\ deliveries' = deliveries /\ orphans' = orphans
        /\ \A u \in Tasks \ {t} : state'[u] = state[u]
    BY <1>1 DEF Complete, TakeAnswer, OkWasSent
  <2>2. Mail(t)' = Mail(t)
    BY <2>1 DEF Mail
  <2> QED
    BY <2>1, <2>2, OneMailMoves DEF WorkOn, apiVars
<1>2. CASE ~Complete(t)
  <2>1. /\ state[t] \in {"pending", "active", "retry"}
        /\ state'[t] \in {"pending", "active", "retry", "archived"}
        /\ deliveries' = deliveries
        /\ \A u \in Tasks \ {t} : state'[u] = state[u] /\ orphans'[u] = orphans[u]
    BY <1>2 DEF WorkOn, Process, Fetch, Fail, Skip, Timeout, LeaseExpires, Forward, Recover,
                TakeAnswer, FailAttempt, Abandon, Owned, OneHandlerPerTask
  <2>2. \/ Mail(t)' = Mail(t)
        \/ Mail(t) = "owed" /\ Mail(t)' = "givenUp"
    BY <2>1 DEF Mail
  <2> QED
    BY <2>1, <2>2, OneMailMoves DEF WorkOn, apiVars
<1> QED
  BY <1>1, <1>2

\* Every step of the service is a step of the promise, or none.
LEMMA EveryStepKeeps == ASSUME ServiceInv, [ServiceNext]_serviceVars PROVE Kept
<1>1. CASE TableChanges \/ UNCHANGED serviceVars
  BY <1>1, NoMailStutters
  DEF TableChanges, Truncate, OutOfBandWrite, serviceVars, apiVars, queueVars
<1> QED
  BY <1>1, LifecycleKeeps, ServeKeeps, LookupKeeps, SendKeeps, WorkKeeps,
     WelcomeAssumption DEF ServiceNext

\* The service implements WelcomePromise: an email is owed only once its account
\* is committed, and once it is sent or given up it stays so, through crashes,
\* retries and shutdowns (usecase/user.go:59-71, welcome_email.go:59-82).
THEOREM ServiceKeepsPromise == ServiceSpec => KeepsPromise
<1>1. ServiceInv /\ [ServiceNext]_serviceVars
          => [Promise!PromiseNext]_(Promise!promiseVars)
  BY EveryStepKeeps DEF Kept, Promise!promiseVars, Mails
<1> QED
  BY <1>1, PromiseStarts, ServiceInvariant, PTL
  DEF ServiceSpec, KeepsPromise, Promise!PromiseSpec

-----------------------------------------------------------------------------
(* What the parts guarantee, they guarantee together.                      *)

\* Over restarts and shutdowns of the process that serves them, clients are answered
\* truly, and no two users have an email in common.
THEOREM ServedAnswersAreTrue ==
    ServiceSpec => [](UniqueEmail /\ AnswerMatchesStore /\ ConflictIsReal)
<1>1. ServiceInv => UniqueEmail /\ AnswerMatchesStore /\ ConflictIsReal
  BY DEF ServiceInv, ApiInv, RequestsInv
<1> QED
  BY <1>1, ServiceInvariant, PTL

\* And over restarts of the worker, with handlers that look users up in the table as it
\* is: no task has two handlers or completes unsent, and duplicates need an interruption.
THEOREM ServedTasksAreSafe ==
    ServiceSpec =>
        [](OneHandlerPerTask /\ CompletedWasDelivered /\ DuplicateOnlyAfterInterruption)
<1>1. ServiceInv => OneHandlerPerTask /\ CompletedWasDelivered
                    /\ DuplicateOnlyAfterInterruption
  BY DEF ServiceInv, QueueInv
<1> QED
  BY <1>1, ServiceInvariant, PTL

=============================================================================
