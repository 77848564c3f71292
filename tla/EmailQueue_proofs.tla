-------------------------- MODULE EmailQueue_proofs ---------------------------
(***************************************************************************)
(* The safety of the welcome-email queue for any set of tasks, any retry   *)
(* limit and any concurrency.                                              *)
(***************************************************************************)
EXTENDS EmailQueue, TLAPS

\* A handler has sent the email it reports as sent.
OkWasSent == \A t \in Tasks : handler[t] = "ok" => deliveries[t] > 0

\* A task that was never taken from its handler and whose email is out is
\* completed, or about to be: nothing can run it again.
SentOnceIsFinal ==
    \A t \in Tasks \ interrupted : deliveries[t] > 0 =>
        \/ state[t] = "completed"
        \/ state[t] = "active" /\ handler[t] = "ok"

\* A task that was never enqueued has no handler that runs on.
UnknownIsUnhandled == \A t \in Tasks : state[t] = "none" => orphans[t] = {}

\* A task that was never enqueued has no email out.
UnknownIsUnsent == \A t \in Tasks : state[t] = "none" => deliveries[t] = 0

\* The inductive invariant of the queue.
QueueInv ==
    /\ QueueTypeOK
    /\ OneHandlerPerTask
    /\ UnknownIsUnhandled
    /\ UnknownIsUnsent
    /\ OkWasSent
    /\ CompletedWasDelivered
    /\ SentOnceIsFinal
    /\ DuplicateOnlyAfterInterruption

\* Every task starts unknown to the queue, with no handler and no email sent.
LEMMA QueueInitInv == QueueInit => QueueInv
  BY QueueAssumption
  DEF Owned, QueueInit, QueueInv, QueueTypeOK, OneHandlerPerTask, UnknownIsUnhandled,
      UnknownIsUnsent, OkWasSent, CompletedWasDelivered, SentOnceIsFinal,
      DuplicateOnlyAfterInterruption

\* Putting a task into the queue keeps the invariant.
LEMMA EnqueueInv == ASSUME NEW t \in Tasks, QueueInv, Enqueue(t) PROVE QueueInv'
  BY QueueAssumption
  DEF Owned, Enqueue, QueueInv, QueueTypeOK, OneHandlerPerTask, UnknownIsUnhandled,
      UnknownIsUnsent, OkWasSent, CompletedWasDelivered, SentOnceIsFinal,
      DuplicateOnlyAfterInterruption

\* Every step of the handler keeps the invariant.
LEMMA HandleInv == ASSUME NEW t \in Tasks, QueueInv, Handle(t) PROVE QueueInv'
<1> USE QueueAssumption
    DEF HandlerGoesTo, CountDelivery, Owned, QueueInv, QueueTypeOK, OneHandlerPerTask, UnknownIsUnhandled,
        UnknownIsUnsent, OkWasSent, CompletedWasDelivered, SentOnceIsFinal,
        DuplicateOnlyAfterInterruption
<1>1. CASE RefusePayload(t)
  BY <1>1 DEF RefusePayload
<1>2. CASE LookupFound(t)
  BY <1>2 DEF LookupFound
<1>3. CASE LookupNotFound(t)
  BY <1>3 DEF LookupNotFound
<1>4. CASE LookupError(t)
  BY <1>4 DEF LookupError
<1>5. CASE Send(t)
  BY <1>5 DEF Send
<1> QED
  BY <1>1, <1>2, <1>3, <1>4, <1>5 DEF Handle

\* So does every step of a handler that nobody waits for.
LEMMA RunOnInv == ASSUME NEW t \in Tasks, QueueInv, RunOn(t) PROVE QueueInv'
<1> USE QueueAssumption
    DEF OrphanMoves, CountDelivery, Owned, QueueInv, QueueTypeOK, OneHandlerPerTask,
        UnknownIsUnhandled, UnknownIsUnsent, OkWasSent, CompletedWasDelivered,
        SentOnceIsFinal, DuplicateOnlyAfterInterruption
<1>1. CASE OrphanFound(t)
  BY <1>1 DEF OrphanFound
<1>2. CASE OrphanEnds(t)
  BY <1>2 DEF OrphanEnds
<1>3. CASE OrphanSends(t)
  BY <1>3 DEF OrphanSends
<1> QED
  BY <1>1, <1>2, <1>3 DEF RunOn

\* Every step asynq takes with a task keeps the invariant, and so does losing
\* its lease or pushing it back.
LEMMA ProcessInv ==
    ASSUME NEW t \in Tasks, QueueInv, Process(t) \/ LeaseExpires(t) \/ Requeue(t)
    PROVE  QueueInv'
<1> USE QueueAssumption
    DEF Owned, TakeAnswer, FailAttempt, Abandon, QueueInv, QueueTypeOK, OneHandlerPerTask,
        UnknownIsUnhandled, UnknownIsUnsent, OkWasSent, CompletedWasDelivered,
        SentOnceIsFinal, DuplicateOnlyAfterInterruption
<1>1. CASE Fetch(t)
  BY <1>1 DEF Fetch
<1>2. CASE Complete(t)
  BY <1>2 DEF Complete
<1>3. CASE Fail(t)
  BY <1>3 DEF Fail
<1>4. CASE Skip(t)
  BY <1>4 DEF Skip
<1>5. CASE Timeout(t)
  BY <1>5 DEF Timeout
<1>6. CASE Forward(t)
  BY <1>6 DEF Forward
<1>7. CASE Recover(t)
  BY <1>7 DEF Recover
<1>8. CASE Requeue(t)
  BY <1>8 DEF Requeue
<1>9. CASE LeaseExpires(t)
  BY <1>9 DEF LeaseExpires
<1> QED
  BY <1>1, <1>2, <1>3, <1>4, <1>5, <1>6, <1>7, <1>8, <1>9 DEF Process

\* Starting and stopping the worker keeps the invariant.
LEMMA WorkerInv ==
    ASSUME QueueInv, Start \/ Stop \/ Abort \/ ShutdownReturns PROVE QueueInv'
<1> USE QueueAssumption
    DEF WorkerGoesTo, Owned, QueueInv, QueueTypeOK, OneHandlerPerTask, UnknownIsUnhandled,
        UnknownIsUnsent, OkWasSent, CompletedWasDelivered, SentOnceIsFinal,
        DuplicateOnlyAfterInterruption
<1>1. CASE Start
  BY <1>1 DEF Start
<1>2. CASE Stop
  BY <1>2 DEF Stop
<1>3. CASE Abort
  BY <1>3 DEF Abort
<1>4. CASE ShutdownReturns
  BY <1>4 DEF ShutdownReturns
<1> QED
  BY <1>1, <1>2, <1>3, <1>4

\* So does the end of the process, at any moment.
LEMMA DeathInv == ASSUME QueueInv, WorkerDies PROVE QueueInv'
  BY QueueAssumption
  DEF WorkerDies, Owned, QueueInv, QueueTypeOK, OneHandlerPerTask, UnknownIsUnhandled,
      UnknownIsUnsent, OkWasSent, CompletedWasDelivered, SentOnceIsFinal,
      DuplicateOnlyAfterInterruption

\* A step that leaves the queue alone keeps the invariant.
LEMMA QueueStutterInv == ASSUME QueueInv, UNCHANGED queueVars PROVE QueueInv'
  BY DEF Owned, queueVars, QueueInv, QueueTypeOK, OneHandlerPerTask, UnknownIsUnhandled,
         UnknownIsUnsent, OkWasSent, CompletedWasDelivered, SentOnceIsFinal,
         DuplicateOnlyAfterInterruption

\* So every step does.
LEMMA QueueNextInv == ASSUME QueueInv, [QueueNext]_queueVars PROVE QueueInv'
  BY EnqueueInv, HandleInv, RunOnInv, ProcessInv, WorkerInv, DeathInv, QueueStutterInv
  DEF QueueNext

\* The invariant holds throughout.
THEOREM QueueInvariant == QueueSpec => []QueueInv
  BY QueueInitInv, QueueNextInv, PTL DEF QueueSpec

\* The state of the queue always has its type.
THEOREM QueueTypeCorrect == QueueSpec => []QueueTypeOK
  BY QueueInvariant, PTL DEF QueueInv

\* No task that kept its handler is ever handled by two goroutines at once, through
\* any number of crashes, aborted shutdowns and recoveries (server.go:50-57, 71-74).
THEOREM NeverTwoHandlers == QueueSpec => []OneHandlerPerTask
  BY QueueInvariant, PTL DEF QueueInv

\* A task leaves the queue as processed only after its email went out
\* (welcome_email.go:59-82).
THEOREM NothingCompletesUnsent == QueueSpec => []CompletedWasDelivered
  BY QueueInvariant, PTL DEF QueueInv

\* Only a crash, an aborted shutdown, a deadline or an answer that Redis was not
\* told can make an email go out twice (welcome_email.go:66-81).
THEOREM DuplicatesNeedInterruption == QueueSpec => []DuplicateOnlyAfterInterruption
  BY QueueInvariant, PTL DEF QueueInv

=============================================================================
