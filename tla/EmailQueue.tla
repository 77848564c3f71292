------------------------------ MODULE EmailQueue ------------------------------
(***************************************************************************)
(* The "emails" queue of internal/queue: welcome-email tasks in Redis, the *)
(* embedded worker that processes them, and the handler goroutines.        *)
(*                                                                         *)
(* The task states, retries, leases and the shutdown of the worker are     *)
(* asynq's, modelled from how NewServer configures it: Concurrency is set, *)
(* the retry limit (25), the deadline of an attempt (30 min), the lease    *)
(* (30 s) and the shutdown timeout (8 s) are its defaults.  A task is      *)
(* deleted once processed (no retention): "completed".  Redis outlives the *)
(* process; handlers and the worker do not.                                *)
(*                                                                         *)
(* A worker goroutine waits for its handler until the handler answers, the *)
(* attempt's deadline passes, the lease expires because the heartbeat does *)
(* not reach Redis, or a shutdown runs out of time.  In the last three     *)
(* cases it cancels the handler's context and leaves; the handler looks at *)
(* that context in its lookup only, and runs on as an orphan.              *)
(***************************************************************************)
EXTENDS Naturals, FiniteSets

CONSTANTS
    Tasks,          \* the welcome-email tasks, one per user
    Malformed,      \* tasks whose payload the handler cannot unmarshal
    MaxRetry,       \* retries of a task before it is archived
    Concurrency     \* handlers the worker runs at a time

ASSUME QueueAssumption ==
    /\ Malformed \subseteq Tasks
    /\ MaxRetry \in Nat
    /\ Concurrency \in Nat \ {0}

VARIABLES
    state,          \* state[t]: where task t is in Redis
    retried,        \* retried[t]: how often t was scheduled for a retry
    handler,        \* handler[t]: the handler of t a worker goroutine waits for
    orphans,        \* orphans[t]: where handlers of t are that nobody waits for
    worker,         \* the asynq server in this process
    deliveries,     \* deliveries[t]: how often t's email was sent, 2 for more
    interrupted     \* history: tasks that lost a handler, or its answer, on the way

queueVars == <<state, retried, handler, orphans, worker, deliveries, interrupted>>

-----------------------------------------------------------------------------
\* A worker goroutine waits for a handler of t.
Owned(t) == handler[t] # "idle"

Settled(t) == state[t] \in {"completed", "archived"}

QueueInit ==
    /\ state = [t \in Tasks |-> "none"]
    /\ retried = [t \in Tasks |-> 0]
    /\ handler = [t \in Tasks |-> "idle"]
    /\ orphans = [t \in Tasks |-> {}]
    /\ worker = "down"
    /\ deliveries = [t \in Tasks |-> 0]
    /\ interrupted = {}

-----------------------------------------------------------------------------
(* Producing and fetching.                                                 *)

Enqueue(t) ==
    /\ state[t] = "none"
    /\ state' = [state EXCEPT ![t] = "pending"]
    /\ UNCHANGED <<retried, handler, orphans, worker, deliveries, interrupted>>

\* A free worker goroutine takes t and starts its handler.
Fetch(t) ==
    /\ worker = "running"
    /\ state[t] = "pending"
    /\ Cardinality({u \in Tasks : Owned(u)}) < Concurrency
    /\ state' = [state EXCEPT ![t] = "active"]
    /\ handler' = [handler EXCEPT ![t] = "handling"]
    /\ UNCHANGED <<retried, orphans, worker, deliveries, interrupted>>

-----------------------------------------------------------------------------
(* The welcome-email handler.                                              *)

HandlerGoesTo(t, next) ==
    /\ handler' = [handler EXCEPT ![t] = next]
    /\ UNCHANGED <<state, retried, orphans, worker, interrupted>>

\* json.Unmarshal fails: SkipRetry.
RefusePayload(t) ==
    /\ handler[t] = "handling" /\ t \in Malformed
    /\ HandlerGoesTo(t, "skip")
    /\ UNCHANGED deliveries

\* users.Get: a user, ErrUserNotFound (SkipRetry), or any other error.
LookupFound(t) ==
    /\ handler[t] = "handling" /\ t \notin Malformed
    /\ HandlerGoesTo(t, "sending")
    /\ UNCHANGED deliveries

\* Mutant of LookupNotFound: nil for a user who is gone.
LookupNotFoundIsDone(t) ==
    /\ handler[t] = "handling" /\ t \notin Malformed
    /\ HandlerGoesTo(t, "ok")
    /\ UNCHANGED deliveries

LookupNotFound(t) ==
    /\ handler[t] = "handling" /\ t \notin Malformed
    /\ HandlerGoesTo(t, "skip")
    /\ UNCHANGED deliveries

LookupError(t) ==
    /\ handler[t] = "handling" /\ t \notin Malformed
    /\ HandlerGoesTo(t, "failed")
    /\ UNCHANGED deliveries

CountDelivery(t) == deliveries' = [deliveries EXCEPT ![t] = IF @ = 0 THEN 1 ELSE 2]

\* Mutant of Send: the handler fails after the email is out.
SendThenFails(t) ==
    /\ handler[t] = "sending"
    /\ HandlerGoesTo(t, "failed")
    /\ CountDelivery(t)

\* The send site: today a log line, which no context stops.
Send(t) ==
    /\ handler[t] = "sending"
    /\ HandlerGoesTo(t, "ok")
    /\ CountDelivery(t)

-----------------------------------------------------------------------------
(* The same steps of a handler that nobody waits for.  orphans[t] says     *)
(* where such handlers are and not how many: others may stay behind.       *)

OrphanMoves(t, from, to) ==
    /\ from \in orphans[t]
    /\ \E rest \in {orphans[t], orphans[t] \ {from}} :
           orphans' = [orphans EXCEPT ![t] = rest \cup to]
    /\ UNCHANGED <<state, retried, handler, worker, interrupted>>

\* Its lookup had its answer when the context was cancelled.
OrphanFound(t) ==
    /\ t \notin Malformed
    /\ OrphanMoves(t, "handling", {"sending"})
    /\ UNCHANGED deliveries

\* It ends before the send, for whatever reason.
OrphanEnds(t) ==
    /\ OrphanMoves(t, "handling", {})
    /\ UNCHANGED deliveries

OrphanSends(t) ==
    /\ OrphanMoves(t, "sending", {})
    /\ CountDelivery(t)

-----------------------------------------------------------------------------
(* What the worker makes of the handler's answer, or of having none.       *)

\* Mutants of FailAttempt: it knows no limit, or does not count.
FailUnlimited(t) ==
    /\ state' = [state EXCEPT ![t] = "retry"]
    /\ retried' = [retried EXCEPT ![t] = @ + 1]

FailUncounted(t) ==
    /\ state' = [state EXCEPT ![t] = "retry"]
    /\ UNCHANGED retried

\* An attempt at t has failed: t is retried, or archived at the limit.
FailAttempt(t) ==
    \/ /\ retried[t] < MaxRetry
       /\ state' = [state EXCEPT ![t] = "retry"]
       /\ retried' = [retried EXCEPT ![t] = @ + 1]
    \/ /\ retried[t] = MaxRetry
       /\ state' = [state EXCEPT ![t] = "archived"]
       /\ UNCHANGED retried

\* The handler's answer is taken; its goroutine is done.
TakeAnswer(t, answer) ==
    /\ handler[t] = answer
    /\ handler' = [handler EXCEPT ![t] = "idle"]
    /\ UNCHANGED <<orphans, worker, deliveries, interrupted>>

Complete(t) ==
    /\ TakeAnswer(t, "ok")
    /\ state' = [state EXCEPT ![t] = "completed"]
    /\ UNCHANGED retried

Fail(t) == TakeAnswer(t, "failed") /\ FailAttempt(t)

\* SkipRetry.
Skip(t) ==
    /\ TakeAnswer(t, "skip")
    /\ state' = [state EXCEPT ![t] = "archived"]
    /\ UNCHANGED retried

\* The worker goroutine of t leaves; a handler that has not answered runs on.
Abandon(t) ==
    /\ Owned(t)
    /\ handler' = [handler EXCEPT ![t] = "idle"]
    /\ orphans' = [orphans EXCEPT ![t] = @ \cup ({handler[t]} \cap {"handling", "sending"})]
    /\ interrupted' = interrupted \cup {t}
    /\ UNCHANGED <<worker, deliveries>>

\* The deadline of the attempt passes: it has failed, whatever its handler does.
Timeout(t) == Abandon(t) /\ FailAttempt(t)

\* Redis cannot be told of t while the lease lasts, and then must not be: t
\* stays active until it is recovered.
LeaseExpires(t) == Abandon(t) /\ UNCHANGED <<state, retried>>

\* The forwarder: the retry delay of t is over.
Forward(t) ==
    /\ worker = "running"
    /\ state[t] = "retry"
    /\ state' = [state EXCEPT ![t] = "pending"]
    /\ UNCHANGED <<retried, handler, orphans, worker, deliveries, interrupted>>

\* Mutant of Recover: it takes a task from the handler it has.
RecoverUnderHandler(t) ==
    /\ worker \in {"running", "draining", "aborted"}
    /\ state[t] = "active"
    /\ FailAttempt(t)
    /\ UNCHANGED <<handler, orphans, worker, deliveries, interrupted>>

\* The recoverer: t is active and nobody extends its lease.
Recover(t) ==
    /\ worker \in {"running", "draining", "aborted"}
    /\ state[t] = "active" /\ ~Owned(t)
    /\ FailAttempt(t)
    /\ UNCHANGED <<handler, orphans, worker, deliveries, interrupted>>

-----------------------------------------------------------------------------
(* Start, graceful shutdown, the end of the process.                       *)

WorkerGoesTo(next) ==
    /\ worker' = next
    /\ UNCHANGED <<state, retried, handler, orphans, deliveries, interrupted>>

Start == worker = "down" /\ WorkerGoesTo("running")

\* Shutdown is called: nothing more is fetched.
Stop == worker = "running" /\ WorkerGoesTo("draining")

\* asynq's own timeout: it stops waiting for handlers...
Abort == worker = "draining" /\ WorkerGoesTo("aborted")

\* ...and pushes their tasks back.
Requeue(t) ==
    /\ worker = "aborted"
    /\ Abandon(t)
    /\ state' = [state EXCEPT ![t] = "pending"]
    /\ UNCHANGED retried

\* Shutdown returns once every worker goroutine is done.
ShutdownReturns ==
    /\ worker \in {"draining", "aborted"}
    /\ \A t \in Tasks : ~Owned(t)
    /\ WorkerGoesTo("stopped")

\* The process ends, at any moment; the goroutines end with it.
WorkerDies ==
    /\ worker' = "down"
    /\ handler' = [t \in Tasks |-> "idle"]
    /\ orphans' = [t \in Tasks |-> {}]
    /\ interrupted' = interrupted \cup {t \in Tasks : Owned(t)}
    /\ UNCHANGED <<state, retried, deliveries>>

-----------------------------------------------------------------------------
Handle(t) ==
    \/ RefusePayload(t) \/ LookupFound(t) \/ LookupNotFound(t) \/ LookupError(t)
    \/ Send(t)

RunOn(t) == OrphanFound(t) \/ OrphanEnds(t) \/ OrphanSends(t)

\* What asynq does with t while it can reach Redis.
Process(t) ==
    \/ Fetch(t) \/ Complete(t) \/ Fail(t) \/ Skip(t) \/ Timeout(t)
    \/ Forward(t) \/ Recover(t)

QueueNext ==
    \/ \E t \in Tasks :
           \/ Enqueue(t) \/ Handle(t) \/ RunOn(t) \/ Process(t)
           \/ LeaseExpires(t) \/ Requeue(t)
    \/ Start \/ Stop \/ Abort \/ ShutdownReturns
    \/ (worker # "down" /\ WorkerDies)

\* The worker goroutines and their deadlines, the forwarder and the recoverer
\* run as long as the worker does.  Nothing makes a handler return, or a process
\* start, stop or stay.
QueueFairness == \A t \in Tasks : WF_queueVars(Process(t))

QueueSpec == QueueInit /\ [][QueueNext]_queueVars

FairQueueSpec == QueueSpec /\ QueueFairness

-----------------------------------------------------------------------------
\* Type invariant of the queue's state.
QueueTypeOK ==
    /\ state \in [Tasks -> {"none", "pending", "active", "retry",
                            "archived", "completed"}]
    /\ retried \in [Tasks -> 0..MaxRetry]
    /\ handler \in [Tasks -> {"idle", "handling", "sending",
                              "ok", "failed", "skip"}]
    /\ orphans \in [Tasks -> SUBSET {"handling", "sending"}]
    /\ worker \in {"down", "running", "draining", "aborted", "stopped"}
    /\ deliveries \in [Tasks -> 0..2]
    /\ interrupted \subseteq Tasks

\* A task that its handler was never taken from has that handler alone, and only
\* while it is active and the worker lives: no restart, retry or recovery starts
\* a second one next to it (server.go:50-57, 71-74).
OneHandlerPerTask ==
    \A t \in Tasks :
        /\ Owned(t) => state[t] = "active" /\ worker \in {"running", "draining", "aborted"}
        /\ orphans[t] # {} => t \in interrupted /\ worker # "down"

\* A task leaves the queue as processed only if its email went out: what the
\* handler drops or fails is archived or retried (welcome_email.go:59-82).
CompletedWasDelivered ==
    \A t \in Tasks : state[t] = "completed" => deliveries[t] > 0

\* Delivery is at least once, and more than once only for a task that a crash, an
\* aborted shutdown, a deadline or an unreachable Redis took from its handler:
\* retries never repeat an email that was sent (welcome_email.go:66-81).
DuplicateOnlyAfterInterruption ==
    \A t \in Tasks : deliveries[t] = 2 => t \in interrupted

\* If some process finally stays up, every task that is enqueued is completed
\* or archived, whatever it went through and even if its handlers never return.
EveryTaskSettles ==
    <>[](worker = "running") => \A t \in Tasks : (state[t] # "none") ~> Settled(t)

\* server.go:73 says Shutdown "blocks until in-flight tasks finish".
ShutdownWaitsForHandlers ==
    worker = "stopped" => \A t \in Tasks : ~Owned(t) /\ orphans[t] = {}

=============================================================================
