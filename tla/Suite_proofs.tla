----------------------------- MODULE Suite_proofs ------------------------------
(***************************************************************************)
(* What a drain and the test process around it guarantee, for any tasks,   *)
(* page size and number of tests, whatever fails.                          *)
(***************************************************************************)
EXTENDS Suite, FiniteSetTheorems, SequenceTheorems, TLAPS

-----------------------------------------------------------------------------
(* The inductive invariant: the drain's part.                              *)

Draining == pc \in {"list", "process", "delete"}

\* The rest of the page are distinct tasks that are pending, as long as the drain has
\* not failed: nobody else takes them.
PageIsPending ==
    /\ Draining => /\ \A i \in DOMAIN page : page[i] \in pending
                   /\ \A i, j \in DOMAIN page : page[i] = page[j] => i = j
    /\ pc \in {"process", "delete"} => page # <<>>
    /\ pc = "done" => pending = {}

\* Whatever is pending, removed or handled was enqueued, and a removed task does not
\* come back.
Accounted ==
    /\ pending \subseteq enqueued
    /\ removed \subseteq enqueued \ pending
    /\ \A t \in Tasks : handled[t] > 0 => t \in enqueued

\* A task is still pending after it was handled only between the two steps, or for a
\* deletion that failed.
HandledIsGone ==
    /\ pc = "delete" => handled[Head(page)] > 0
    /\ \A t \in pending : handled[t] > 0 =>
           t \in undeleted \/ (pc = "delete" /\ t = Head(page))

DrainInv ==
    /\ DrainTypeOK
    /\ PageIsPending
    /\ Accounted
    /\ HandledIsGone
    /\ NothingDropped
    /\ HandledOnceUnlessUndeleted
    /\ CountIsRemoved

-----------------------------------------------------------------------------
(* The inductive invariant: TestMain's part, and the tests'.               *)

\* What runs at each step of TestMain.
Harness ==
    /\ at \in {"pool", "postgres"} => containers = {}
    /\ at = "redis" => containers = {"pg"}
    /\ at = "migrate" => containers = {"pg", "rd"}
    /\ at = "tests" /\ ~short => containers = {"pg", "rd"}
    /\ at # "ended" => code = "none"
    /\ ~short => \A k \in Numbers : result[k] # "skipped"

\* Both stores are reset before a test does anything, and say the same then.
StoresAgree ==
    /\ stage = "flush" => rows = {}
    /\ stage = "body" => rows = enqueued
    /\ expects <= Cardinality(enqueued)

\* k is the test that runs, or the next to run.
Current(k) == result[k] = "none" /\ \A j \in 1..(k - 1) : result[j] # "none"

\* What the test expects is what the drain has counted and what is still to come, as
\* long as nothing failed in this test.
ExpectsAddUp ==
    stage = "body" =>
        \A k \in Numbers : Current(k) /\ k \notin troubled =>
            /\ pc # "failed"
            /\ expects = IF pc = "idle" THEN Cardinality(pending)
                         ELSE processed + Cardinality(pending)

SuiteInv ==
    /\ SuiteTypeOK
    /\ DrainInv
    /\ Harness
    /\ StoresAgree
    /\ ExpectsAddUp
    /\ GreenIsReal
    /\ NothingLeftBehind
    /\ FailureIsOwn

-----------------------------------------------------------------------------
(* The drain.                                                              *)

\* What is left of a page, and what is left of it after its head.
LEMMA PageFacts ==
    ASSUME DrainTypeOK
    PROVE  /\ page \in Seq(Tasks) /\ DOMAIN page = 1..Len(page)
           /\ Len(page) \in 0..drainPageSize
           /\ page # <<>> =>
                 /\ 1 \in DOMAIN page /\ Head(page) = page[1] /\ Head(page) \in Tasks
                 /\ Tail(page) \in [1..(Len(page) - 1) -> Tasks]
                 /\ \A i \in 1..(Len(page) - 1) : Tail(page)[i] = page[i + 1]
<1>1. PICK k \in 0..drainPageSize : page \in [1..k -> Tasks]
  BY DEF DrainTypeOK
<1>2. k \in Nat /\ drainPageSize \in Nat
  BY DrainAssumption
<1>3. page \in Seq(Tasks)
  BY <1>1, <1>2, SeqDef
<1>4. Len(page) \in Nat /\ DOMAIN page = 1..Len(page)
  BY <1>3, LenProperties
<1>5. Len(page) = k
  BY <1>1, <1>2, <1>4
<1>6. ASSUME page # <<>>
      PROVE  /\ 1 \in DOMAIN page /\ Head(page) = page[1] /\ Head(page) \in Tasks
             /\ Tail(page) \in [1..(Len(page) - 1) -> Tasks]
             /\ \A i \in 1..(Len(page) - 1) : Tail(page)[i] = page[i + 1]
  <2>1. /\ Head(page) \in Tasks /\ Tail(page) \in Seq(Tasks) /\ Len(Tail(page)) = Len(page) - 1
        /\ \A i \in 1..Len(Tail(page)) : Tail(page)[i] = page[i + 1]
    BY <1>3, <1>6, HeadTailProperties
  <2>2. Len(page) > 0
    BY <1>3, <1>6, EmptySeq
  <2>3. Tail(page) \in [1..Len(Tail(page)) -> Tasks]
    BY <2>1, LenProperties
  <2> QED
    BY <1>3, <1>4, <2>1, <2>2, <2>3
<1> QED
  BY <1>2, <1>3, <1>4, <1>5, <1>6

\* Every set of tasks that the drain keeps is finite.
LEMMA TasksFinite ==
    ASSUME NEW S \in SUBSET Tasks
    PROVE  IsFiniteSet(S) /\ Cardinality(S) \in 0..Cardinality(Tasks)
<1>1. IsFiniteSet(Tasks)
  BY DrainAssumption
<1>2. IsFiniteSet(S) /\ Cardinality(S) <= Cardinality(Tasks)
  BY <1>1, FS_Subset
<1>3. Cardinality(S) \in Nat /\ Cardinality(Tasks) \in Nat
  BY <1>1, <1>2, FS_CardinalityType
<1> QED
  BY <1>2, <1>3

LEMMA DrainInitInv == DrainInit => DrainInv
<1> SUFFICES ASSUME DrainInit PROVE DrainInv
  OBVIOUS
<1>1. <<>> \in [1..0 -> Tasks] /\ 0 \in 0..drainPageSize
  BY DrainAssumption
<1>2. Cardinality({}) = 0 /\ 0 \in 0..Cardinality(Tasks)
  BY FS_EmptySet, TasksFinite
<1>3. DrainTypeOK
  BY <1>1, <1>2 DEF DrainInit, DrainTypeOK
<1>4. PageIsPending /\ Accounted /\ HandledIsGone
  BY DEF DrainInit, PageIsPending, Draining, Accounted, HandledIsGone
<1>5. NothingDropped /\ HandledOnceUnlessUndeleted /\ CountIsRemoved
  BY <1>2 DEF DrainInit, NothingDropped, HandledOnceUnlessUndeleted, CountIsRemoved
<1> QED
  BY <1>3, <1>4, <1>5 DEF DrainInv

\* A task that is enqueued while no drain runs.
LEMMA EnqueueKeeps ==
    ASSUME DrainInv, NEW t \in Tasks, Enqueue(t), pc \in {"idle", "failed"}
    PROVE  DrainInv'
<1>1. DrainTypeOK'
  BY DEF Enqueue, DrainInv, DrainTypeOK
<1>2. PageIsPending' /\ Accounted' /\ HandledIsGone'
  BY DEF Enqueue, DrainInv, DrainTypeOK, PageIsPending, Draining, Accounted, HandledIsGone
<1>3. NothingDropped' /\ HandledOnceUnlessUndeleted' /\ CountIsRemoved'
  BY DEF Enqueue, DrainInv, NothingDropped, HandledOnceUnlessUndeleted, CountIsRemoved
<1> QED
  BY <1>1, <1>2, <1>3 DEF DrainInv

LEMMA DrainKeeps ==
    ASSUME DrainInv, Drain
    PROVE  DrainInv'
<1>1. <<>> \in [1..0 -> Tasks] /\ 0 \in 0..drainPageSize
  BY DrainAssumption
<1>2. Cardinality({}) = 0 /\ 0 \in 0..Cardinality(Tasks)
  BY FS_EmptySet, TasksFinite
<1>3. DrainTypeOK'
  BY <1>1, <1>2 DEF Drain, DrainInv, DrainTypeOK
<1>4. PageIsPending' /\ Accounted' /\ HandledIsGone'
  BY DEF Drain, DrainInv, PageIsPending, Draining, Accounted, HandledIsGone
<1>5. NothingDropped' /\ HandledOnceUnlessUndeleted' /\ CountIsRemoved'
  BY <1>2 DEF Drain, DrainInv, NothingDropped, HandledOnceUnlessUndeleted, CountIsRemoved
<1> QED
  BY <1>3, <1>4, <1>5 DEF DrainInv

LEMMA FlushKeeps ==
    ASSUME FlushDB
    PROVE  DrainInv'
<1>1. DrainInit'
  BY DEF FlushDB, DrainInit
<1> QED
  BY <1>1, DrainInitInv, PTL

\* A drain that has returned, and whose caller has looked at it.
LEMMA CheckedKeeps ==
    ASSUME DrainInv, pc = "done", pc' = "idle",
           UNCHANGED <<enqueued, pending, page, processed, removed, handled, undeleted>>
    PROVE  DrainInv'
<1>1. DrainTypeOK' /\ PageIsPending' /\ Accounted' /\ HandledIsGone'
  BY DEF DrainInv, DrainTypeOK, PageIsPending, Draining, Accounted, HandledIsGone
<1>2. NothingDropped' /\ HandledOnceUnlessUndeleted' /\ CountIsRemoved'
  BY DEF DrainInv, NothingDropped, HandledOnceUnlessUndeleted, CountIsRemoved
<1> QED
  BY <1>1, <1>2 DEF DrainInv

\* A page is one of distinct pending tasks, and empty only if there are none.
LEMMA ListKeeps ==
    ASSUME DrainInv, ListPending
    PROVE  DrainInv'
<1> DEFINE size == IF Cardinality(pending) < drainPageSize
                   THEN Cardinality(pending) ELSE drainPageSize
<1>1. /\ IsFiniteSet(pending) /\ Cardinality(pending) \in Nat
      /\ Cardinality(pending) = 0 <=> pending = {}
  BY TasksFinite, FS_EmptySet DEF DrainInv, DrainTypeOK
<1>2. size \in 0..drainPageSize /\ (size = 0 <=> pending = {})
  BY <1>1, DrainAssumption
<1>3. /\ page' \in [1..size -> pending]
      /\ \A i, j \in 1..size : page'[i] = page'[j] => i = j
  BY DEF ListPending, Pages
<1>4. /\ pc' = IF pending = {} THEN "done" ELSE "process"
      /\ UNCHANGED <<enqueued, pending, processed, removed, handled, undeleted>>
      /\ pc = "list"
  BY DEF ListPending
<1>5. DrainTypeOK'
  <2>1. page' \in [1..size -> Tasks]
    BY <1>3 DEF DrainInv, DrainTypeOK
  <2> QED
    BY <1>2, <1>4, <2>1 DEF DrainInv, DrainTypeOK
<1>6. PageIsPending'
  <2>1. DOMAIN page' = 1..size
    BY <1>3
  <2>2. pending # {} => 1 \in DOMAIN page'
    BY <1>2, <2>1, DrainAssumption
  <2>3. pending # {} => page' # <<>>
    BY <2>2
  <2>4. \A i \in DOMAIN page' : page'[i] \in pending
    BY <1>3, <2>1
  <2> QED
    BY <1>3, <1>4, <2>1, <2>3, <2>4 DEF PageIsPending, Draining
<1>7. Accounted' /\ HandledIsGone' /\ NothingDropped' /\ HandledOnceUnlessUndeleted'
  BY <1>4 DEF DrainInv, Accounted, HandledIsGone, NothingDropped, HandledOnceUnlessUndeleted
<1>8. CountIsRemoved'
  BY <1>4 DEF DrainInv, CountIsRemoved
<1> QED
  BY <1>5, <1>6, <1>7, <1>8 DEF DrainInv

LEMMA ProcessKeeps ==
    ASSUME DrainInv, ProcessTask
    PROVE  DrainInv'
<1>1. /\ Head(page) = page[1] /\ 1 \in DOMAIN page /\ Head(page) \in Tasks
      /\ Head(page) \in pending
  BY PageFacts DEF ProcessTask, DrainInv, PageIsPending, Draining
<1>2. /\ pc = "process" /\ pc' = "delete"
      /\ handled' = [handled EXCEPT ![Head(page)] = IF @ = 0 THEN 1 ELSE 2]
      /\ UNCHANGED <<enqueued, pending, page, processed, removed, undeleted>>
  BY DEF ProcessTask
<1>3. handled \in [Tasks -> 0..2]
  BY DEF DrainInv, DrainTypeOK
<1>4. /\ handled' \in [Tasks -> 0..2]
      /\ handled'[Head(page)] = (IF handled[Head(page)] = 0 THEN 1 ELSE 2)
      /\ \A t \in Tasks \ {Head(page)} : handled'[t] = handled[t]
  BY <1>1, <1>2, <1>3
<1>5. DrainTypeOK'
  BY <1>2, <1>4 DEF DrainInv, DrainTypeOK
<1>6. PageIsPending' /\ CountIsRemoved'
  BY <1>2 DEF DrainInv, PageIsPending, Draining, CountIsRemoved
<1>7. Accounted' /\ NothingDropped'
  BY <1>1, <1>2, <1>3, <1>4 DEF DrainInv, DrainTypeOK, Accounted, NothingDropped
<1>8. HandledIsGone' /\ HandledOnceUnlessUndeleted'
  BY <1>1, <1>2, <1>3, <1>4 DEF DrainInv, DrainTypeOK, HandledIsGone,
     HandledOnceUnlessUndeleted
<1> QED
  BY <1>5, <1>6, <1>7, <1>8 DEF DrainInv

\* Deleting the head of the page, whether the drain learns of it or not.
LEMMA DeleteKeeps ==
    ASSUME DrainInv, DeleteTask
    PROVE  DrainInv' /\ Cardinality(pending') = Cardinality(pending) - 1
<1>1. /\ Head(page) = page[1] /\ 1 \in DOMAIN page /\ Head(page) \in Tasks
      /\ Head(page) \in pending /\ DOMAIN page = 1..Len(page) /\ Len(page) \in 0..drainPageSize
      /\ Tail(page) \in [1..(Len(page) - 1) -> Tasks]
      /\ \A i \in 1..(Len(page) - 1) : Tail(page)[i] = page[i + 1]
  BY PageFacts DEF DeleteTask, DrainInv, PageIsPending, Draining
<1>2. /\ pc = "delete" /\ pc' = IF Tail(page) = <<>> THEN "list" ELSE "process"
      /\ pending' = pending \ {Head(page)} /\ removed' = removed \cup {Head(page)}
      /\ processed' = processed + 1 /\ page' = Tail(page)
      /\ UNCHANGED <<enqueued, handled, undeleted>>
  BY DEF DeleteTask
<1>3. Head(page) \notin removed /\ pending \subseteq Tasks /\ removed \subseteq Tasks
  BY <1>1 DEF DrainInv, DrainTypeOK, Accounted
<1>4. /\ Cardinality(pending') = Cardinality(pending) - 1
      /\ Cardinality(removed') = Cardinality(removed) + 1
  BY <1>1, <1>2, <1>3, TasksFinite, FS_AddElement, FS_RemoveElement
<1>5. processed' = Cardinality(removed')
  BY <1>2, <1>4 DEF DrainInv, CountIsRemoved
<1>6. DrainTypeOK'
  <2>1. Len(page) - 1 \in 0..drainPageSize
    BY <1>1, DrainAssumption
  <2>2. removed' \subseteq Tasks /\ processed' \in 0..Cardinality(Tasks)
    BY <1>1, <1>2, <1>3, <1>5, TasksFinite
  <2>3. page' \in UNION {[1..k -> Tasks] : k \in 0..drainPageSize}
    BY <1>1, <1>2, <2>1
  <2> QED
    BY <1>2, <2>2, <2>3 DEF DrainInv, DrainTypeOK
<1>7. PageIsPending'
  <2>1. /\ \A i \in DOMAIN page' : page'[i] = page[i + 1] /\ i \in Nat /\ i + 1 \in DOMAIN page
    BY <1>1, <1>2, DrainAssumption
  <2>2. \A i \in DOMAIN page' : page'[i] \in pending'
    BY <1>1, <1>2, <2>1 DEF DrainInv, PageIsPending, Draining
  <2>3. \A i, j \in DOMAIN page' : page'[i] = page'[j] => i = j
    BY <1>2, <2>1 DEF DrainInv, PageIsPending, Draining
  <2> QED
    BY <1>2, <2>2, <2>3 DEF PageIsPending, Draining
<1>8. Accounted' /\ NothingDropped' /\ HandledOnceUnlessUndeleted'
  BY <1>1, <1>2, <1>3 DEF DrainInv, Accounted, HandledIsGone, NothingDropped,
     HandledOnceUnlessUndeleted
<1>9. HandledIsGone' /\ CountIsRemoved'
  BY <1>2, <1>5 DEF DrainInv, HandledIsGone, CountIsRemoved
<1> QED
  BY <1>4, <1>6, <1>7, <1>8, <1>9 DEF DrainInv

LEMMA FailKeeps ==
    ASSUME DrainInv, Fail
    PROVE  DrainInv'
<1>1. DrainTypeOK' /\ PageIsPending' /\ Accounted' /\ HandledIsGone'
  BY DEF Fail, DrainInv, DrainTypeOK, PageIsPending, Draining, Accounted, HandledIsGone
<1>2. NothingDropped' /\ HandledOnceUnlessUndeleted' /\ CountIsRemoved'
  BY DEF Fail, DrainInv, NothingDropped, HandledOnceUnlessUndeleted, CountIsRemoved
<1> QED
  BY <1>1, <1>2 DEF DrainInv

LEMMA DeleteFailsKeeps ==
    ASSUME DrainInv, DeleteFails
    PROVE  DrainInv'
<1>1. Head(page) \in Tasks /\ Head(page) \in pending /\ Head(page) \notin removed
  BY PageFacts DEF DeleteFails, DrainInv, PageIsPending, Draining, Accounted
<1>2. /\ pc = "delete" /\ pc' = "failed"
      /\ UNCHANGED <<enqueued, page, processed, handled>>
  BY DEF DeleteFails
<1>3. CASE undeleted' = undeleted \cup {Head(page)} /\ UNCHANGED <<pending, removed>>
  <2>1. DrainTypeOK' /\ PageIsPending' /\ Accounted' /\ HandledIsGone'
    BY <1>1, <1>2, <1>3 DEF DrainInv, DrainTypeOK, PageIsPending, Draining, Accounted,
       HandledIsGone
  <2>2. NothingDropped' /\ HandledOnceUnlessUndeleted' /\ CountIsRemoved'
    BY <1>2, <1>3 DEF DrainInv, NothingDropped, HandledOnceUnlessUndeleted, CountIsRemoved
  <2> QED
    BY <2>1, <2>2 DEF DrainInv
<1>4. CASE /\ pending' = pending \ {Head(page)} /\ removed' = removed \cup {Head(page)}
           /\ undeleted' = undeleted
  <2>1. DrainTypeOK' /\ PageIsPending' /\ Accounted' /\ HandledIsGone'
    BY <1>1, <1>2, <1>4 DEF DrainInv, DrainTypeOK, PageIsPending, Draining, Accounted,
       HandledIsGone
  <2>2. NothingDropped' /\ HandledOnceUnlessUndeleted'
    BY <1>1, <1>2, <1>4 DEF DrainInv, HandledIsGone, NothingDropped, HandledOnceUnlessUndeleted
  <2>3. Cardinality(removed') = Cardinality(removed) + 1
    BY <1>1, <1>4, TasksFinite, FS_AddElement DEF DrainInv, DrainTypeOK
  <2>4. CountIsRemoved'
    BY <1>2, <2>3 DEF DrainInv, CountIsRemoved
  <2> QED
    BY <2>1, <2>2, <2>4 DEF DrainInv
<1> QED
  BY <1>3, <1>4 DEF DeleteFails

-----------------------------------------------------------------------------
(* TestMain.                                                               *)

\* A step that leaves the drain or the tests alone.
LEMMA DrainUntouched ==
    ASSUME DrainInv, UNCHANGED drainVars
    PROVE  DrainInv'
<1>1. DrainTypeOK' /\ PageIsPending' /\ Accounted' /\ HandledIsGone'
  BY DEF drainVars, DrainInv, DrainTypeOK, PageIsPending, Draining, Accounted, HandledIsGone
<1>2. NothingDropped' /\ HandledOnceUnlessUndeleted' /\ CountIsRemoved'
  BY DEF drainVars, DrainInv, NothingDropped, HandledOnceUnlessUndeleted, CountIsRemoved
<1> QED
  BY <1>1, <1>2 DEF DrainInv

LEMMA TestsUntouched ==
    ASSUME SuiteInv, UNCHANGED <<testVars, drainVars>>
    PROVE  DrainInv' /\ StoresAgree' /\ ExpectsAddUp' /\ FailureIsOwn'
<1>1. DrainInv'
  BY DrainUntouched DEF SuiteInv
<1>2. StoresAgree' /\ FailureIsOwn'
  BY DEF SuiteInv, testVars, drainVars, StoresAgree, FailureIsOwn
<1>3. ExpectsAddUp'
  BY DEF SuiteInv, testVars, drainVars, ExpectsAddUp, Current
<1> QED
  BY <1>1, <1>2, <1>3

\* Wherever TestMain ends by itself, all that still runs is what Docker did not remove.
LEMMA MainKeeps ==
    ASSUME SuiteInv, TestMain
    PROVE  SuiteInv'
<1> USE DEF SuiteInv, SuiteTypeOK, Harness, NothingLeftBehind
<1>1. UNCHANGED <<short, docker, testVars, drainVars>>
  BY DEF TestMain, RequirePool, StartPostgres, StartRedis, Migrate, Purge, KilledAnywhere,
     MainGoesTo, Exit
<1>2. DrainInv' /\ StoresAgree' /\ ExpectsAddUp' /\ FailureIsOwn'
  BY <1>1, TestsUntouched
<1>3. /\ at' \in {"pool", "postgres", "redis", "migrate", "tests", "ended"}
      /\ code' \in {"none", "green", "red", "killed"}
      /\ containers' \subseteq {"pg", "rd"} /\ unpurged' \subseteq {"pg", "rd"}
      /\ Harness' /\ NothingLeftBehind'
  <2>1. CASE RequirePool
    BY <1>1, <2>1 DEF RequirePool, MainGoesTo, Exit, testVars
  <2>2. CASE StartPostgres
    BY <1>1, <2>2 DEF StartPostgres, MainGoesTo, Exit, Started, NotStarted, Remove, testVars
  <2>3. CASE StartRedis
    BY <1>1, <2>3 DEF StartRedis, MainGoesTo, Exit, Started, NotStarted, Remove, testVars
  <2>4. CASE Migrate
    BY <1>1, <2>4 DEF Migrate, MainGoesTo, Exit, Remove, testVars
  <2>5. CASE Purge
    BY <1>1, <2>5 DEF Purge, Exit, Remove, testVars
  <2>6. CASE KilledAnywhere
    BY <1>1, <2>6 DEF KilledAnywhere, Exit, testVars
  <2> QED
    BY <2>1, <2>2, <2>3, <2>4, <2>5, <2>6 DEF TestMain
<1>4. GreenIsReal'
  <2>1. CASE Purge
    BY <1>1, <2>1 DEF Purge, Exit, testVars, GreenIsReal
  <2>2. CASE ~Purge
    BY <1>1, <2>2 DEF TestMain, RequirePool, StartPostgres, StartRedis, Migrate, KilledAnywhere,
       MainGoesTo, Exit, testVars, GreenIsReal
  <2> QED
    BY <2>1, <2>2
<1>5. SuiteTypeOK'
  BY <1>1, <1>2, <1>3 DEF DrainInv, testVars
<1> QED
  BY <1>2, <1>3, <1>4, <1>5

-----------------------------------------------------------------------------
(* The tests.                                                              *)

\* One test runs at a time.
LEMMA OneTurn ==
    ASSUME NEW k \in Numbers, NEW q \in Numbers, Current(k), Current(q)
    PROVE  k = q
<1>1. k \in Nat /\ q \in Nat /\ 1 <= k /\ 1 <= q
  BY SuiteAssumption DEF Numbers
<1>2. CASE k < q
  BY <1>1, <1>2 DEF Current
<1>3. CASE q < k
  BY <1>1, <1>3 DEF Current
<1> QED
  BY <1>1, <1>2, <1>3

\* A test that ends: a failure is its own, and only a run with -short skips.
LEMMA EndKeeps ==
    ASSUME SuiteInv, NEW k \in Numbers, NEW r \in {"passed", "failed", "skipped"},
           Turn(k), Ends(k, r), UNCHANGED mainVars, DrainInv', UNCHANGED <<rows, enqueued>>,
           expects' = expects \/ expects' = 0,
           troubled' \subseteq Numbers, troubled \subseteq troubled',
           r = "failed" => k \in troubled',
           r = "skipped" => ~HasConfig
    PROVE  SuiteInv'
<1>1. /\ at = "tests" /\ code = "none"
      /\ result' \in [Numbers -> {"none", "passed", "failed", "skipped"}]
      /\ result'[k] = r /\ \A q \in Numbers \ {k} : result'[q] = result[q]
      /\ stage' = "begin"
  BY DEF SuiteInv, SuiteTypeOK, Harness, Turn, Ends
<1>2. expects' \in 0..Cardinality(Tasks) /\ expects' <= Cardinality(enqueued')
  BY TasksFinite DEF SuiteInv, SuiteTypeOK, DrainTypeOK, StoresAgree
<1>3. SuiteTypeOK'
  BY <1>1, <1>2 DEF SuiteInv, SuiteTypeOK, DrainInv, mainVars
<1>4. Harness'
  BY <1>1 DEF SuiteInv, Harness, HasConfig, mainVars
<1>5. StoresAgree' /\ ExpectsAddUp'
  BY <1>1, <1>2 DEF StoresAgree, ExpectsAddUp
<1>6. GreenIsReal' /\ NothingLeftBehind'
  BY <1>1 DEF SuiteInv, GreenIsReal, NothingLeftBehind, mainVars
<1>7. FailureIsOwn'
  BY <1>1 DEF SuiteInv, FailureIsOwn
<1> QED
  BY <1>3, <1>4, <1>5, <1>6, <1>7 DEF SuiteInv

\* A test that goes on: what it has to keep are the stores and the count.
LEMMA GoOnKeeps ==
    ASSUME SuiteInv, NEW k \in Numbers, Turn(k), UNCHANGED mainVars, result' = result,
           stage' \in {"begin", "flush", "body"}, DrainInv',
           rows' \subseteq Tasks, expects' \in 0..Cardinality(Tasks),
           troubled' \subseteq Numbers, troubled \subseteq troubled',
           StoresAgree',
           stage' = "body" /\ k \notin troubled' =>
               /\ pc' # "failed"
               /\ expects' = IF pc' = "idle" THEN Cardinality(pending')
                             ELSE processed' + Cardinality(pending')
    PROVE  SuiteInv'
<1>1. at = "tests" /\ code = "none" /\ Current(k)
  BY DEF SuiteInv, Harness, Turn, Current
<1>2. SuiteTypeOK'
  BY DEF SuiteInv, SuiteTypeOK, DrainInv, mainVars
<1>3. Harness' /\ GreenIsReal' /\ NothingLeftBehind'
  BY <1>1 DEF SuiteInv, Harness, GreenIsReal, NothingLeftBehind, mainVars
<1>4. FailureIsOwn'
  BY DEF SuiteInv, FailureIsOwn
<1>5. ExpectsAddUp'
  <2>1. \A q \in Numbers : Current(q)' => q = k
    <3>1. \A q \in Numbers : Current(q)' <=> Current(q)
      BY DEF Current
    <3> QED
      BY <1>1, <3>1, OneTurn
  <2> QED
    BY <2>1 DEF ExpectsAddUp
<1> QED
  BY <1>2, <1>3, <1>4, <1>5 DEF SuiteInv

LEMMA ResetKeeps ==
    ASSUME SuiteInv, NEW k \in Numbers, Truncate(k) \/ Flush(k)
    PROVE  SuiteInv'
<1>1. CASE Truncate(k)
  <2>1. /\ Turn(k) /\ stage' = "flush" /\ rows' = {}
        /\ UNCHANGED <<mainVars, result, expects, troubled, drainVars>>
    BY <1>1 DEF Truncate
  <2>2. DrainInv'
    BY <2>1, DrainUntouched DEF SuiteInv
  <2>3. StoresAgree'
    BY <2>1 DEF SuiteInv, StoresAgree, drainVars
  <2>4. /\ expects' \in 0..Cardinality(Tasks)
        /\ troubled' \subseteq Numbers /\ troubled \subseteq troubled'
    BY <2>1 DEF SuiteInv, SuiteTypeOK
  <2> QED
    BY <2>1, <2>2, <2>3, <2>4, GoOnKeeps
<1>2. CASE Flush(k)
  <2>1. /\ Turn(k) /\ stage = "flush" /\ stage' = "body" /\ expects' = 0 /\ FlushDB
        /\ UNCHANGED <<mainVars, result, rows, troubled>>
    BY <1>2 DEF Flush
  <2>2. DrainInv'
    BY <2>1, FlushKeeps
  <2>3. Cardinality({}) = 0
    BY FS_EmptySet
  <2>4. enqueued' = {} /\ pending' = {} /\ pc' = "idle" /\ rows' = {}
    BY <2>1 DEF FlushDB, SuiteInv, StoresAgree
  <2>5. StoresAgree'
    BY <2>1, <2>3, <2>4 DEF StoresAgree
  <2>6. /\ expects' \in 0..Cardinality(Tasks) /\ rows' \subseteq Tasks
        /\ troubled' \subseteq Numbers /\ troubled \subseteq troubled'
    BY <2>1, <2>4, TasksFinite DEF SuiteInv, SuiteTypeOK
  <2> QED
    BY <2>1, <2>2, <2>3, <2>4, <2>5, <2>6, GoOnKeeps
<1> QED
  BY <1>1, <1>2

\* The address that a test comes to is free: the rows are those of the tasks.
LEMMA CreateKeeps ==
    ASSUME SuiteInv, NEW k \in Numbers, NEW t \in Tasks, Create(k, t)
    PROVE  SuiteInv'
<1>1. /\ Turn(k) /\ stage = "body" /\ pc \in {"idle", "failed"} /\ t \notin enqueued
      /\ UNCHANGED <<mainVars, troubled>>
  BY DEF Create
<1>2. rows = enqueued /\ t \notin rows
  BY <1>1 DEF SuiteInv, StoresAgree
<1>3. /\ rows' = rows \cup {t} /\ expects' = expects + 1 /\ Enqueue(t)
      /\ result' = result /\ stage' = stage
  BY <1>2 DEF Create
<1>4. DrainInv'
  BY <1>1, <1>3, EnqueueKeeps DEF SuiteInv
<1>5. /\ pending \subseteq Tasks /\ enqueued \subseteq Tasks /\ t \notin pending
      /\ pending' = pending \cup {t} /\ enqueued' = enqueued \cup {t}
      /\ pc' = pc /\ processed' = processed
  BY <1>1, <1>3 DEF SuiteInv, DrainInv, DrainTypeOK, Accounted, Enqueue
<1>6. /\ Cardinality(pending') = Cardinality(pending) + 1
      /\ Cardinality(enqueued') = Cardinality(enqueued) + 1
      /\ Cardinality(enqueued') \in 0..Cardinality(Tasks)
      /\ Cardinality(pending) \in Nat /\ Cardinality(enqueued) \in Nat
  BY <1>1, <1>5, TasksFinite, FS_AddElement
<1>7. expects \in Nat /\ expects <= Cardinality(enqueued)
  BY DEF SuiteInv, SuiteTypeOK, StoresAgree
<1>8. expects' \in 0..Cardinality(Tasks) /\ expects' <= Cardinality(enqueued')
  BY <1>3, <1>6, <1>7, TasksFinite
<1>9. StoresAgree'
  BY <1>1, <1>2, <1>3, <1>5, <1>8 DEF StoresAgree
<1>10. k \notin troubled =>
           /\ pc' # "failed"
           /\ expects' = IF pc' = "idle" THEN Cardinality(pending')
                         ELSE processed' + Cardinality(pending')
  BY <1>1, <1>3, <1>5, <1>6, <1>7 DEF SuiteInv, ExpectsAddUp, Turn, Current
<1>11. /\ rows' \subseteq Tasks /\ stage' = "body"
       /\ troubled' \subseteq Numbers /\ troubled' = troubled
  BY <1>1, <1>3 DEF SuiteInv, SuiteTypeOK
<1> QED
  BY <1>1, <1>3, <1>4, <1>8, <1>9, <1>10, <1>11, GoOnKeeps

LEMMA StartDrainKeeps ==
    ASSUME SuiteInv, NEW k \in Numbers, StartDrain(k)
    PROVE  SuiteInv'
<1>1. /\ Turn(k) /\ stage = "body" /\ pc \in {"idle", "failed"} /\ Drain
      /\ UNCHANGED <<mainVars, result, stage, rows, expects, troubled>>
  BY DEF StartDrain, testVars
<1>2. DrainInv'
  BY <1>1, DrainKeeps DEF SuiteInv
<1>3. pc' = "list" /\ processed' = 0 /\ pending' = pending /\ enqueued' = enqueued
  BY <1>1 DEF Drain
<1>4. Cardinality(pending) \in Nat
  BY TasksFinite DEF SuiteInv, DrainInv, DrainTypeOK
<1>5. StoresAgree'
  BY <1>1, <1>3 DEF SuiteInv, StoresAgree
<1>6. k \notin troubled => expects' = processed' + Cardinality(pending')
  BY <1>1, <1>3, <1>4 DEF SuiteInv, ExpectsAddUp, Turn, Current
<1>7. /\ rows' \subseteq Tasks /\ expects' \in 0..Cardinality(Tasks) /\ stage' = "body"
      /\ troubled' \subseteq Numbers /\ troubled' = troubled
  BY <1>1 DEF SuiteInv, SuiteTypeOK
<1> QED
  BY <1>1, <1>2, <1>3, <1>5, <1>6, <1>7, GoOnKeeps

\* As long as it does not fail, a drain moves what the test expects from the queue to
\* its count.
LEMMA RunDrainKeeps ==
    ASSUME SuiteInv, NEW k \in Numbers, RunDrain(k)
    PROVE  SuiteInv'
<1>1. /\ Turn(k) /\ stage = "body" /\ DrainStep
      /\ troubled' = IF pc' = "failed" THEN troubled \cup {k} ELSE troubled
      /\ UNCHANGED <<mainVars, result, stage, rows, expects>>
  BY DEF RunDrain
<1>2. DrainInv'
  BY <1>1, ListKeeps, ProcessKeeps, DeleteKeeps, FailKeeps, DeleteFailsKeeps
     DEF DrainStep, SuiteInv
<1>3. /\ enqueued' = enqueued /\ pc' # "idle" /\ pc # "idle"
      /\ pc' # "failed" => processed' + Cardinality(pending') = processed + Cardinality(pending)
  <2>1. Cardinality(pending) \in Nat /\ processed \in Nat
    BY TasksFinite DEF SuiteInv, DrainInv, DrainTypeOK
  <2>2. CASE ListPending
    BY <2>2 DEF ListPending
  <2>3. CASE ProcessTask
    BY <2>3 DEF ProcessTask
  <2>4. CASE DeleteTask
    <3>1. Cardinality(pending') = Cardinality(pending) - 1
      BY <2>4, DeleteKeeps DEF SuiteInv
    <3>2. /\ enqueued' = enqueued /\ pc' # "idle" /\ pc # "idle"
          /\ processed' = processed + 1
      BY <2>4 DEF DeleteTask
    <3> QED
      BY <2>1, <3>1, <3>2
  <2>5. CASE Fail \/ DeleteFails
    BY <2>5 DEF Fail, DeleteFails
  <2> QED
    BY <1>1, <2>2, <2>3, <2>4, <2>5 DEF DrainStep
<1>4. StoresAgree'
  BY <1>1, <1>3 DEF SuiteInv, StoresAgree
<1>5. k \notin troubled' =>
          /\ pc' # "failed"
          /\ expects' = processed' + Cardinality(pending')
  BY <1>1, <1>3 DEF SuiteInv, ExpectsAddUp, Turn, Current
<1>6. /\ rows' \subseteq Tasks /\ expects' \in 0..Cardinality(Tasks) /\ stage' = "body"
      /\ troubled' \subseteq Numbers /\ troubled \subseteq troubled'
  BY <1>1 DEF SuiteInv, SuiteTypeOK
<1> QED
  BY <1>1, <1>2, <1>3, <1>4, <1>5, <1>6, GoOnKeeps

\* A check fails only in a test that something failed in.
LEMMA CheckKeeps ==
    ASSUME SuiteInv, NEW k \in Numbers, Check(k)
    PROVE  SuiteInv'
<1>1. /\ Turn(k) /\ stage = "body" /\ pc = "done" /\ expects' = 0 /\ pc' = "idle"
      /\ UNCHANGED <<mainVars, rows, troubled, enqueued, pending, page, processed, removed,
                     handled, undeleted>>
  BY DEF Check
<1>2. DrainInv'
  BY <1>1, CheckedKeeps DEF SuiteInv
<1>3. pending = {} /\ Cardinality(pending) = 0 /\ processed \in Nat
  <2>1. Cardinality(Tasks) \in Nat
    BY DrainAssumption, FS_CardinalityType
  <2>2. processed \in 0..Cardinality(Tasks)
    BY DEF SuiteInv, DrainInv, DrainTypeOK
  <2>3. pending = {}
    BY <1>1 DEF SuiteInv, DrainInv, PageIsPending
  <2> QED
    BY <2>1, <2>2, <2>3, FS_EmptySet
<1>4. /\ rows' \subseteq Tasks /\ 0 \in 0..Cardinality(Tasks)
      /\ troubled' \subseteq Numbers /\ troubled' = troubled
  BY <1>1, TasksFinite DEF SuiteInv, SuiteTypeOK
<1>5. CASE processed = expects
  <2>1. result' = result /\ stage' = stage
    BY <1>3, <1>5 DEF Check
  <2>2. StoresAgree'
    BY <1>1, <2>1, TasksFinite DEF SuiteInv, StoresAgree, SuiteTypeOK, DrainTypeOK
  <2> QED
    BY <1>1, <1>2, <1>3, <1>4, <2>1, <2>2, GoOnKeeps
<1>6. CASE processed # expects
  <2>1. Ends(k, "failed")
    BY <1>6 DEF Check
  <2>2. k \in troubled
    BY <1>1, <1>3, <1>6 DEF SuiteInv, ExpectsAddUp, Turn, Current
  <2> QED
    BY <1>1, <1>2, <1>4, <2>1, <2>2, EndKeeps
<1> QED
  BY <1>5, <1>6

LEMMA EndingKeeps ==
    ASSUME SuiteInv, NEW k \in Numbers, Skip(k) \/ Pass(k) \/ Trouble(k)
    PROVE  SuiteInv'
<1>1. /\ Turn(k) /\ UNCHANGED <<mainVars, rows, expects, drainVars>>
      /\ troubled' = troubled \/ troubled' = troubled \cup {k}
  BY DEF Skip, Pass, Trouble
<1>2. DrainInv'
  BY <1>1, DrainUntouched DEF SuiteInv
<1>3. \/ Ends(k, "skipped") /\ ~HasConfig
      \/ Ends(k, "passed")
      \/ Ends(k, "failed") /\ k \in troubled'
  BY DEF Skip, Pass, Trouble
<1>4. troubled' \subseteq Numbers /\ troubled \subseteq troubled' /\ enqueued' = enqueued
  BY <1>1 DEF SuiteInv, SuiteTypeOK, drainVars
<1> QED
  BY <1>1, <1>2, <1>3, <1>4, EndKeeps

-----------------------------------------------------------------------------
(* The whole.                                                              *)

LEMMA SuiteInitInv == SuiteInit => SuiteInv
<1> SUFFICES ASSUME SuiteInit PROVE SuiteInv
  OBVIOUS
<1>1. DrainInv
  BY DrainInitInv DEF SuiteInit
<1>2. 0 \in 0..Cardinality(Tasks) /\ Cardinality({}) = 0
  BY TasksFinite, FS_EmptySet
<1>3. SuiteTypeOK
  BY <1>1, <1>2 DEF SuiteInit, SuiteTypeOK, DrainInv
<1>4. Harness /\ GreenIsReal /\ NothingLeftBehind /\ FailureIsOwn
  BY DEF SuiteInit, Harness, GreenIsReal, NothingLeftBehind, FailureIsOwn
<1>5. StoresAgree /\ ExpectsAddUp
  BY <1>2 DEF SuiteInit, DrainInit, StoresAgree, ExpectsAddUp
<1> QED
  BY <1>1, <1>3, <1>4, <1>5 DEF SuiteInv

LEMMA SuiteStepInv ==
    ASSUME SuiteInv, [SuiteNext]_suiteVars
    PROVE  SuiteInv'
<1>1. CASE TestMain
  BY <1>1, MainKeeps
<1>2. ASSUME NEW k \in Numbers, Test(k) PROVE SuiteInv'
  <2>1. ASSUME NEW t \in Tasks, Create(k, t) PROVE SuiteInv'
    BY <2>1, CreateKeeps
  <2>2. CASE Truncate(k) \/ Flush(k)
    BY <2>2, ResetKeeps
  <2>3. CASE StartDrain(k) \/ RunDrain(k)
    BY <2>3, StartDrainKeeps, RunDrainKeeps
  <2>4. CASE Check(k)
    BY <2>4, CheckKeeps
  <2>5. CASE Skip(k) \/ Pass(k) \/ Trouble(k)
    BY <2>5, EndingKeeps
  <2> QED
    BY <1>2, <2>1, <2>2, <2>3, <2>4, <2>5 DEF Test
<1>3. CASE UNCHANGED suiteVars
  <2>1. DrainInv' /\ StoresAgree' /\ ExpectsAddUp' /\ FailureIsOwn'
    BY <1>3, TestsUntouched DEF suiteVars
  <2>2. SuiteTypeOK' /\ Harness' /\ GreenIsReal' /\ NothingLeftBehind'
    BY <1>3, <2>1 DEF suiteVars, mainVars, testVars, SuiteInv, SuiteTypeOK, DrainInv, Harness,
       GreenIsReal, NothingLeftBehind
  <2> QED
    BY <2>1, <2>2 DEF SuiteInv
<1> QED
  BY <1>1, <1>2, <1>3 DEF SuiteNext

\* The inductive invariant holds throughout.
THEOREM SuiteInvariant == SuiteSpec => []SuiteInv
<1>1. SuiteInv /\ [SuiteNext]_suiteVars => SuiteInv'
  BY SuiteStepInv
<1> QED
  BY <1>1, SuiteInitInv, PTL DEF SuiteSpec

\* The state of the test process always has its type; no count outgrows the tasks.
THEOREM SuiteTypeCorrect == SuiteSpec => []SuiteTypeOK
<1>1. SuiteInv => SuiteTypeOK
  BY DEF SuiteInv
<1> QED
  BY <1>1, SuiteInvariant, PTL

\* A task leaves the queue only by being handled.
THEOREM DrainsDropNothing == SuiteSpec => []NothingDropped
<1>1. SuiteInv => NothingDropped
  BY DEF SuiteInv, DrainInv
<1> QED
  BY <1>1, SuiteInvariant, PTL

\* A task is handled twice only if its deletion failed.
THEOREM DrainsHandleOnce == SuiteSpec => []HandledOnceUnlessUndeleted
<1>1. SuiteInv => HandledOnceUnlessUndeleted
  BY DEF SuiteInv, DrainInv
<1> QED
  BY <1>1, SuiteInvariant, PTL

\* A drain counts what it took off the queue, for any page size.
THEOREM DrainsCount == SuiteSpec => []CountIsRemoved
<1>1. SuiteInv => CountIsRemoved
  BY DEF SuiteInv, DrainInv
<1> QED
  BY <1>1, SuiteInvariant, PTL

\* A green run without -short has run all its tests against both containers.
THEOREM GreenIsEarned == SuiteSpec => []GreenIsReal
<1>1. SuiteInv => GreenIsReal
  BY DEF SuiteInv
<1> QED
  BY <1>1, SuiteInvariant, PTL

\* Wherever TestMain gives up, it leaves no container that Docker would have removed.
THEOREM ContainersAreRemoved == SuiteSpec => []NothingLeftBehind
<1>1. SuiteInv => NothingLeftBehind
  BY DEF SuiteInv
<1> QED
  BY <1>1, SuiteInvariant, PTL

\* No test fails for what another one left, for any number of tests.
THEOREM TestsAreIsolated == SuiteSpec => []FailureIsOwn
<1>1. SuiteInv => FailureIsOwn
  BY DEF SuiteInv
<1> QED
  BY <1>1, SuiteInvariant, PTL

=============================================================================
