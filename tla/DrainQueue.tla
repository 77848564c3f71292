------------------------------ MODULE DrainQueue ------------------------------
(***************************************************************************)
(* DrainQueue, the test seam of internal/queue: pending tasks are handled  *)
(* in the calling goroutine and deleted one by one, page 1 over and over,  *)
(* until none is left or something fails.  A test may drain again after an *)
(* error; nothing else consumes the queue.  Suite says who calls it when.  *)
(***************************************************************************)
EXTENDS Naturals, Sequences, FiniteSets

CONSTANTS
    Tasks,          \* the tasks that get enqueued
    drainPageSize   \* pending tasks pulled per round

ASSUME DrainAssumption == IsFiniteSet(Tasks) /\ drainPageSize \in Nat \ {0}

VARIABLES
    enqueued,       \* history: the tasks enqueued since Redis was empty
    pending,        \* the tasks in Redis
    page,           \* what is left of the round's page
    pc,             \* "idle", "list", "process", "delete", "done", "failed"
    processed,      \* the count this drain will return
    removed,        \* history: the tasks this drain deleted
    handled,        \* handled[t]: how often t was handled, 2 for more
    undeleted       \* history: the tasks whose deletion failed

drainVars == <<enqueued, pending, page, pc, processed, removed, handled, undeleted>>

-----------------------------------------------------------------------------
DrainInit ==
    /\ enqueued = {} /\ pending = {}
    /\ page = <<>>
    /\ pc = "idle"
    /\ processed = 0
    /\ removed = {}
    /\ handled = [t \in Tasks |-> 0]
    /\ undeleted = {}

Enqueue(t) ==
    /\ t \notin enqueued
    /\ enqueued' = enqueued \cup {t}
    /\ pending' = pending \cup {t}
    /\ UNCHANGED <<page, pc, processed, removed, handled, undeleted>>

Drain ==
    /\ pc \in {"idle", "done", "failed"}
    /\ pc' = "list"
    /\ processed' = 0 /\ removed' = {} /\ page' = <<>>
    /\ UNCHANGED <<enqueued, pending, handled, undeleted>>

\* Mutant of Pages: a page of all that is pending.
UnboundedPages ==
    {p \in [1..Cardinality(pending) -> pending] :
        \A i, j \in DOMAIN p : p[i] = p[j] => i = j}

\* Pages of distinct pending tasks, full if that many are pending.
Pages ==
    LET size == IF Cardinality(pending) < drainPageSize
                THEN Cardinality(pending) ELSE drainPageSize
    IN  {p \in [1..size -> pending] : \A i, j \in 1..size : p[i] = p[j] => i = j}

\* An empty page, or a queue that does not exist yet, ends the drain.
ListPending ==
    /\ pc = "list" /\ page = <<>>
    /\ page' \in Pages
    /\ pc' = IF pending = {} THEN "done" ELSE "process"
    /\ UNCHANGED <<enqueued, pending, processed, removed, handled, undeleted>>

\* Mutant of ProcessTask: the task is counted before it is deleted.
ProcessTaskCounted ==
    /\ pc = "process"
    /\ handled' = [handled EXCEPT ![Head(page)] = IF @ = 0 THEN 1 ELSE 2]
    /\ processed' = processed + 1
    /\ pc' = "delete"
    /\ UNCHANGED <<enqueued, pending, page, removed, undeleted>>

ProcessTask ==
    /\ pc = "process"
    /\ handled' = [handled EXCEPT ![Head(page)] = IF @ = 0 THEN 1 ELSE 2]
    /\ pc' = "delete"
    /\ UNCHANGED <<enqueued, pending, page, processed, removed, undeleted>>

\* Mutant of DeleteTask: nothing is deleted.
DeleteNothing ==
    /\ pc = "delete"
    /\ page' = Tail(page)
    /\ pc' = IF Tail(page) = <<>> THEN "list" ELSE "process"
    /\ UNCHANGED <<enqueued, pending, processed, removed, handled, undeleted>>

DeleteTask ==
    /\ pc = "delete"
    /\ pending' = pending \ {Head(page)}
    /\ removed' = removed \cup {Head(page)}
    /\ processed' = processed + 1
    /\ page' = Tail(page)
    /\ pc' = IF Tail(page) = <<>> THEN "list" ELSE "process"
    /\ UNCHANGED <<enqueued, handled, undeleted>>

\* Mutant of Fail: the task whose handler failed is dropped.
FailDropping ==
    /\ pc = "process"
    /\ pc' = "failed"
    /\ pending' = pending \ {Head(page)}
    /\ removed' = removed \cup {Head(page)}
    /\ UNCHANGED <<enqueued, page, processed, handled, undeleted>>

\* An error of the listing or the handler ends the drain...
Fail ==
    /\ pc \in {"list", "process"}
    /\ pc' = "failed"
    /\ UNCHANGED <<enqueued, pending, page, processed, removed, handled, undeleted>>

\* ...and so does one of the deletion, which may have happened all the same.
DeleteFails ==
    /\ pc = "delete"
    /\ pc' = "failed"
    /\ \/ /\ undeleted' = undeleted \cup {Head(page)}
          /\ UNCHANGED <<pending, removed>>
       \/ /\ pending' = pending \ {Head(page)}
          /\ removed' = removed \cup {Head(page)}
          /\ UNCHANGED undeleted
    /\ UNCHANGED <<enqueued, page, processed, handled>>

DrainStep == ListPending \/ ProcessTask \/ DeleteTask \/ Fail \/ DeleteFails

\* FLUSHDB, with which the history starts anew.
FlushDB ==
    /\ enqueued' = {} /\ pending' = {}
    /\ page' = <<>>
    /\ pc' = "idle"
    /\ processed' = 0
    /\ removed' = {}
    /\ handled' = [t \in Tasks |-> 0]
    /\ undeleted' = {}

-----------------------------------------------------------------------------
\* Type invariant.
DrainTypeOK ==
    /\ enqueued \subseteq Tasks /\ pending \subseteq Tasks
    /\ page \in UNION {[1..k -> Tasks] : k \in 0..drainPageSize}
    /\ pc \in {"idle", "list", "process", "delete", "done", "failed"}
    /\ processed \in 0..Cardinality(Tasks)
    /\ removed \subseteq Tasks /\ undeleted \subseteq Tasks
    /\ handled \in [Tasks -> 0..2]

\* A task leaves the queue only by being handled: one whose handler failed is
\* still pending (server.go:79-80, 119-127).
NothingDropped == \A t \in enqueued \ pending : handled[t] > 0

\* server.go:83-84 promises tests "tasks run exactly once"; a task is handled
\* again only if Redis failed to delete it after it was handled.
HandledOnceUnlessUndeleted == \A t \in Tasks : handled[t] = 2 => t \in undeleted

\* A drain returns the number of tasks it took off the queue, and one less only
\* if it ends because it was not told that the last one is gone (server.go:119-127).
CountIsRemoved ==
    \/ processed = Cardinality(removed)
    \/ pc = "failed" /\ processed + 1 = Cardinality(removed)

=============================================================================
