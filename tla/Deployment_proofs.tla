-------------------------- MODULE Deployment_proofs ---------------------------
(***************************************************************************)
(* What a migration that is recorded guarantees, for any commands of any   *)
(* releases and any requests to the API meanwhile.                         *)
(***************************************************************************)
EXTENDS Deployment, UsersApi_proofs, FiniteSetTheorems, WellFoundedInduction

-----------------------------------------------------------------------------
(* The inductive invariant.                                                *)

\* The shape of what the steps below update: all that most lemmas need of the types.
Typed ==
    /\ step = [r \in Runs |-> step[r]]
    /\ todo = [r \in Runs |-> todo[r]]
    /\ row = [q \in Requests |-> row[q]]
    /\ found = [r \in Runs |-> found[r]]
    /\ visited \subseteq Runs

\* A run is at a migration only if its list has one.
Listed == \A r \in Runs : step[r] \in {"table", "index", "record"} => todo[r] # {}

\* A run that is past CREATE TABLE, or past CREATE UNIQUE INDEX, has what it made:
\* nobody can drop the database under its session.
Underway ==
    \A r \in Runs :
        /\ step[r] \in {"index", "record"} => Current(r) \in tables
        /\ step[r] = "record" => Current(r) \in indexes

\* Rows are in a tracking table, and a run that may write one has seen it or made it.
TrackingFirst ==
    /\ ~tracking => tracked = {}
    /\ \A r \in Runs : step[r] \in {"next", "table", "index", "record"} => tracking

\* The index could be made only without duplicates, and keeps them out.
IndexedIsUnique == CreateUsers \in indexes => UniqueEmail

\* What a run has still to do, or another has recorded, is its whole release, and what
\* it seeded has its tables; and only a migrate_status reads the status.
Advances ==
    /\ \A r \in seeded : registered[r] \subseteq tables
    /\ \A r \in Runs :
           /\ step[r] \in {"status", "readStatus"} => command[r] = "migrate_status"
           /\ r \in visited /\ step[r] \in {"makeTracking", "next", "table", "index", "record"}
                  => registered[r] \subseteq todo[r] \cup tracked
           /\ r \in visited /\ command[r] # "migrate_status"
                           /\ step[r] \in {"reconnect", "seed", "done"}
                  => registered[r] \subseteq tracked

\* As long as nothing was cut short, every table is recorded or has a run that will.
Claimed ==
    ~troubled =>
        \A m \in tables : \/ m \in tracked
                          \/ \E r \in Runs : step[r] \in {"index", "record"} /\ Current(r) = m

\* What migrate_status printed was made from rows that are still there, all of those it
\* was to find unless it could not look; no other command is where it reads them, and it
\* is nowhere else.
Reported ==
    /\ IsFiniteSet(tracked)
    /\ DOMAIN report = Runs
    /\ \A r \in Runs :
           step[r] \in {"look", "makeTracking", "next", "table", "index", "record",
                       "reconnect", "seed"} => command[r] # "migrate_status"
    /\ \A r \in visited :
           /\ step[r] \in {"status", "readStatus"} => found[r] \subseteq tracked
           /\ step[r] = "done" /\ command[r] = "migrate_status" =>
                  \E applied \in SUBSET tracked :
                      /\ report[r] = Statuses(registered[r], applied)
                      /\ r \notin blind => found[r] \subseteq applied

DeploymentInv ==
    /\ TypeOK
    /\ RequestsInv
    /\ Listed
    /\ Underway
    /\ TrackingFirst
    /\ TrackedIsApplied
    /\ IndexedIsUnique
    /\ Advances
    /\ Claimed
    /\ Reported

-----------------------------------------------------------------------------
(* The operators on IDs.                                                   *)

\* Some migration on a list that is not empty is the oldest: of the initial segments
\* that its members have, which are finite, the least.
LEMMA OldestExists ==
    ASSUME NEW S \in SUBSET Nat, S # {}
    PROVE  \E m \in S : \A n \in S : m <= n
<1> DEFINE Segments == {0..n : n \in S}
           R == StrictSubsetOrdering(Nat)
<1>1. \A n \in S : IsFiniteSet(0..n) /\ 0..n \in SUBSET Nat
  BY FS_Interval
<1>2. Segments \subseteq FiniteSubsetsOf(Nat)
  BY <1>1 DEF FiniteSubsetsOf
<1>3. IsWellFoundedOn(R, FiniteSubsetsOf(Nat))
  BY FS_StrictSubsetOrderingWellFounded
<1>4. Segments # {}
  OBVIOUS
<1>5. PICK least \in Segments : \A other \in Segments : ~(<<other, least>> \in R)
  <2> HIDE DEF Segments, R
  <2> QED
    BY <1>2, <1>3, <1>4, WFMin
<1>6. PICK m \in S : least = 0..m
  OBVIOUS
<1>7. ASSUME NEW n \in S, n < m PROVE FALSE
  <2>1. 0..n \subseteq 0..m /\ 0..n # 0..m
    <3>1. m \in 0..m /\ m \notin 0..n
      BY <1>7
    <3> QED
      BY <1>7, <3>1
  <2>2. <<0..n, 0..m>> \in R
    BY <1>1, <2>1 DEF StrictSubsetOrdering
  <2> QED
    BY <1>5, <1>6, <2>2
<1> QED
  BY <1>7

\* A run comes to a migration of its list, if it has one.
LEMMA CurrentIsListed ==
    ASSUME NEW r, todo[r] \in SUBSET Nat, todo[r] # {}
    PROVE  Current(r) \in todo[r]
<1>1. \E m \in todo[r] : \A n \in todo[r] : m <= n
  BY OldestExists
<1> QED
  BY <1>1 DEF Current

\* A finite set of IDs can be sorted: every ID goes where as many are not above it.
LEMMA AscendingSorts ==
    ASSUME NEW S \in SUBSET Nat, IsFiniteSet(S)
    PROVE  /\ Cardinality(S) \in Nat
           /\ Ascending(S) \in [1..Cardinality(S) -> S]
           /\ \A i, j \in 1..Cardinality(S) : i < j => Ascending(S)[i] < Ascending(S)[j]
           /\ \A m \in S : \E i \in 1..Cardinality(S) : Ascending(S)[i] = m
<1> DEFINE size == Cardinality(S)
           UpTo(m) == {k \in S : k <= m}
           rank == [m \in S |-> Cardinality(UpTo(m))]
           Sorts(s) == \A i, j \in DOMAIN s : i < j => s[i] < s[j]
<1>1. size \in Nat
  BY FS_CardinalityType
<1>2. \A m \in S : IsFiniteSet(UpTo(m)) /\ Cardinality(UpTo(m)) \in 1..size
  <2> SUFFICES ASSUME NEW m \in S
               PROVE  IsFiniteSet(UpTo(m)) /\ Cardinality(UpTo(m)) \in 1..size
    OBVIOUS
  <2>1. IsFiniteSet(UpTo(m)) /\ Cardinality(UpTo(m)) <= size
    BY FS_Subset
  <2>2. m \in UpTo(m)
    OBVIOUS
  <2>3. Cardinality(UpTo(m)) \in Nat /\ Cardinality(UpTo(m)) # 0
    BY <2>1, <2>2, FS_CardinalityType, FS_EmptySet
  <2> HIDE DEF UpTo
  <2> QED
    BY <1>1, <2>1, <2>3
<1>3. ASSUME NEW m \in S, NEW n \in S, m < n PROVE rank[m] < rank[n]
  <2>1. UpTo(m) \subseteq UpTo(n) /\ n \in UpTo(n) /\ n \notin UpTo(m)
    <3>1. m \in Nat /\ n \in Nat /\ \A k \in S : k \in Nat
      OBVIOUS
    <3>2. \A k \in S : k <= m => k <= n
      BY <1>3, <3>1
    <3>3. n <= n /\ ~(n <= m)
      BY <1>3, <3>1
    <3> QED
      BY <3>2, <3>3, Zenon
  <2>2. Cardinality(UpTo(m)) <= Cardinality(UpTo(n))
        /\ Cardinality(UpTo(m)) # Cardinality(UpTo(n))
    <3> HIDE DEF UpTo
    <3> QED
      BY <1>2, <2>1, FS_Subset
  <2> HIDE DEF UpTo
  <2> QED
    BY <1>1, <1>2, <2>2
<1>4. rank \in [S -> 1..size]
  <2> HIDE DEF UpTo
  <2> QED
    BY <1>2
<1> HIDE DEF rank
<1>5. rank \in Surjection(S, 1..size)
  <2>1. \A m, n \in S : rank[m] = rank[n] => m = n
    <3> SUFFICES ASSUME NEW m \in S, NEW n \in S, rank[m] = rank[n], m # n PROVE FALSE
      OBVIOUS
    <3>1. m < n \/ n < m
      OBVIOUS
    <3>2. rank[m] \in Int /\ rank[n] \in Int
      BY <1>4
    <3> QED
      BY <1>3, <3>1, <3>2
  <2>2. rank \in Injection(S, 1..size)
    BY <1>4, <2>1 DEF Injection, IsInjective
  <2>3. IsFiniteSet(1..size) /\ Cardinality(1..size) = size
    BY <1>1, FS_Interval
  <2> QED
    BY <2>2, <2>3, FS_Injection
<1>6. \A i \in 1..size : \E m \in S : rank[m] = i
  BY <1>5 DEF Surjection
<1> DEFINE at == [i \in 1..size |-> CHOOSE m \in S : rank[m] = i]
<1>7. \A i \in 1..size : at[i] \in S /\ rank[at[i]] = i
  BY <1>6
<1>8. at \in [1..size -> S] /\ DOMAIN at = 1..size
  BY <1>7
<1> HIDE DEF at
<1>9. Sorts(at)
  <2> SUFFICES ASSUME NEW i \in 1..size, NEW j \in 1..size, i < j PROVE at[i] < at[j]
    BY <1>8
  <2>1. at[i] \in Nat /\ at[j] \in Nat /\ at[i] \in S /\ at[j] \in S
    BY <1>7
  <2>2. at[j] < at[i] => j < i
    BY <1>3, <1>7, <2>1
  <2>3. at[i] # at[j]
    BY <1>7
  <2> QED
    BY <2>1, <2>2, <2>3
<1>10. Ascending(S) \in [1..size -> S] /\ Sorts(Ascending(S))
  BY <1>8, <1>9, Zenon DEF Ascending
<1> DEFINE sorted == Ascending(S)
<1>11. \A i, j \in 1..size : i < j => sorted[i] < sorted[j]
  BY <1>10
<1> HIDE DEF sorted, Sorts
<1>12. sorted \in Injection(1..size, S)
  <2>1. \A i \in 1..size : sorted[i] \in Nat
    BY <1>10 DEF sorted
  <2>2. \A i, j \in 1..size : sorted[i] = sorted[j] => i = j
    BY <1>1, <1>11, <2>1
  <2> QED
    BY <1>10, <2>2 DEF Injection, IsInjective, sorted
<1>13. sorted \in Surjection(1..size, S)
  <2>1. IsFiniteSet(1..size) /\ Cardinality(1..size) = size
    BY <1>1, FS_Interval
  <2> QED
    BY <1>12, <2>1, FS_Injection
<1> QED
  BY <1>1, <1>10, <1>11, <1>13 DEF Surjection, sorted

\* The report on what is known and what is applied: every ID of either kind has a line,
\* every line says of its ID what holds, orphans are last, and each group is sorted.
LEMMA StatusesAreRight ==
    ASSUME NEW known \in SUBSET Nat, IsFiniteSet(known),
           NEW applied \in SUBSET Nat, IsFiniteSet(applied),
           NEW lines, lines = Statuses(known, applied)
    PROVE  /\ \A m \in known \cup applied : \E i \in DOMAIN lines : lines[i].id = m
           /\ \A i \in DOMAIN lines :
                  /\ lines[i].applied = (lines[i].id \in applied)
                  /\ lines[i].orphan = (lines[i].id \notin known)
                  /\ lines[i].orphan => lines[i].applied
           /\ \A i, j \in DOMAIN lines : i < j =>
                  \/ ~lines[i].orphan /\ lines[j].orphan
                  \/ lines[i].orphan = lines[j].orphan /\ lines[i].id < lines[j].id
<1> DEFINE orphans == applied \ known
           ks == Ascending(known)
           os == Ascending(orphans)
           k == Cardinality(known)
           o == Cardinality(orphans)
           ids == ks \o os
<1>1. /\ k \in Nat /\ ks \in [1..k -> known]
      /\ \A i, j \in 1..k : i < j => ks[i] < ks[j]
      /\ \A m \in known : \E i \in 1..k : ks[i] = m
  BY AscendingSorts
<1>2. /\ o \in Nat /\ os \in [1..o -> orphans]
      /\ \A i, j \in 1..o : i < j => os[i] < os[j]
      /\ \A m \in orphans : \E i \in 1..o : os[i] = m
  <2>1. orphans \in SUBSET Nat /\ IsFiniteSet(orphans)
    BY FS_Subset
  <2> HIDE DEF orphans
  <2> QED
    BY <2>1, AscendingSorts
<1>3. lines = [i \in DOMAIN ids |->
                  [id |-> ids[i], applied |-> ids[i] \in applied, orphan |-> ids[i] \notin known]]
  BY DEF Statuses
<1>4. ks \in Seq(Nat) /\ os \in Seq(Nat) /\ Len(ks) = k /\ Len(os) = o
  <2>1. ks \in [1..k -> Nat] /\ os \in [1..o -> Nat]
    BY <1>1, <1>2
  <2> HIDE DEF ks, os, k, o
  <2> QED
    BY <1>1, <1>2, <2>1
<1> HIDE DEF ks, os, k, o
<1>5. /\ DOMAIN ids = 1..(k + o)
      /\ \A i \in 1..(k + o) : ids[i] = IF i <= k THEN ks[i] ELSE os[i - k]
  <2>1. /\ ids \in Seq(Nat) /\ Len(ids) = k + o
        /\ \A i \in 1..(k + o) : ids[i] = IF i <= k THEN ks[i] ELSE os[i - k]
    BY <1>4, ConcatProperties
  <2> QED
    BY <2>1, LenProperties
<1> HIDE DEF ids
<1>6. /\ DOMAIN lines = 1..(k + o)
      /\ \A i \in 1..(k + o) :
             /\ lines[i].id = ids[i]
             /\ lines[i].applied = (ids[i] \in applied)
             /\ lines[i].orphan = (ids[i] \notin known)
  BY <1>3, <1>5
<1>7. /\ \A i \in 1..k : ids[i] = ks[i] /\ ids[i] \in known
      /\ \A i \in (k + 1)..(k + o) :
             /\ i - k \in 1..o
             /\ ids[i] = os[i - k] /\ ids[i] \in applied /\ ids[i] \notin known
  BY <1>1, <1>2, <1>5
<1>8. \A m \in known \cup applied : \E i \in DOMAIN lines : lines[i].id = m
  <2> SUFFICES ASSUME NEW m \in known \cup applied
               PROVE  \E i \in 1..(k + o) : ids[i] = m
    BY <1>6
  <2>1. CASE m \in known
    <3>1. PICK i \in 1..k : ks[i] = m
      BY <1>1, <2>1
    <3> QED
      BY <1>1, <1>2, <1>7, <3>1
  <2>2. CASE m \in orphans
    <3>1. PICK i \in 1..o : os[i] = m
      BY <1>2, <2>2
    <3>2. k + i \in (k + 1)..(k + o) /\ k + i \in 1..(k + o) /\ (k + i) - k = i
      BY <1>1, <1>2
    <3>3. ids[k + i] = os[(k + i) - k]
      BY <1>7, <3>2
    <3> QED
      BY <3>1, <3>2, <3>3
  <2> QED
    BY <2>1, <2>2
<1>9. \A i \in DOMAIN lines :
          /\ lines[i].applied = (lines[i].id \in applied)
          /\ lines[i].orphan = (lines[i].id \notin known)
          /\ lines[i].orphan => lines[i].applied
  <2> SUFFICES ASSUME NEW i \in 1..(k + o) PROVE ids[i] \notin known => ids[i] \in applied
    BY <1>6
  <2>1. i \in 1..k \/ i \in (k + 1)..(k + o)
    BY <1>1, <1>2
  <2> QED
    BY <1>7, <2>1
<1>10. ASSUME NEW i \in DOMAIN lines, NEW j \in DOMAIN lines, i < j
       PROVE  \/ ~lines[i].orphan /\ lines[j].orphan
              \/ lines[i].orphan = lines[j].orphan /\ lines[i].id < lines[j].id
  <2>1. i \in 1..(k + o) /\ j \in 1..(k + o)
    BY <1>6
  <2>2. CASE i \in 1..k /\ j \in 1..k
    BY <1>1, <1>6, <1>7, <1>10, <2>1, <2>2
  <2>3. CASE i \in 1..k /\ j \in (k + 1)..(k + o)
    BY <1>6, <1>7, <2>1, <2>3
  <2>4. CASE i \in (k + 1)..(k + o) /\ j \in (k + 1)..(k + o)
    <3>1. i - k \in 1..o /\ j - k \in 1..o /\ i - k < j - k
      BY <1>1, <1>7, <1>10, <2>4
    <3>2. ids[i] < ids[j]
      BY <1>2, <1>7, <2>4, <3>1
    <3> QED
      BY <1>6, <1>7, <2>1, <2>4, <3>2
  <2> QED
    BY <1>1, <1>2, <1>10, <2>1, <2>2, <2>3, <2>4
<1>11. \A i, j \in DOMAIN lines : i < j =>
           \/ ~lines[i].orphan /\ lines[j].orphan
           \/ lines[i].orphan = lines[j].orphan /\ lines[i].id < lines[j].id
  BY <1>10, Zenon
<1> QED
  BY <1>8, <1>9, <1>11, Zenon

-----------------------------------------------------------------------------
\* An initial database has nothing in it.
LEMMA DeploymentInitInv == DeploymentInit => DeploymentInv
<1>1. FirstStep("migrate") = "connect" /\ FirstStep("migrate_status") = "connect"
  BY Zenon DEF FirstStep
<1>2. FirstStep("db_setup") = "check" /\ FirstStep("db_reset") = "drop"
  BY Zenon DEF FirstStep
<1>3. \A c \in Commands : FirstStep(c) \in {"connect", "check", "drop"}
  BY <1>1, <1>2 DEF Commands
<1> SUFFICES ASSUME DeploymentInit PROVE DeploymentInv
  OBVIOUS
<1>4. TypeOK
  BY <1>3 DEF DeploymentInit, Init, TypeOK
<1>5. RequestsInv
  BY ApiInitInv DEF DeploymentInit, ApiInv
<1>6. Listed /\ Underway /\ TrackingFirst /\ TrackedIsApplied /\ Advances /\ Claimed
  BY <1>3 DEF DeploymentInit, Init, Listed, Underway, TrackingFirst, TrackedIsApplied,
     Advances, Claimed
<1>7. IndexedIsUnique
  BY DEF DeploymentInit, Init, IndexedIsUnique
<1>8. Reported
  BY <1>3, FS_EmptySet DEF DeploymentInit, Init, Reported
<1> QED
  BY <1>4, <1>5, <1>6, <1>7, <1>8 DEF DeploymentInv

\* The steps that make nothing and bring no run between a table and its record.
LEMMA QuietStep ==
    ASSUME Typed, Underway, TrackedIsApplied,
           NEW r \in Runs, NEW from, NEW to, GoesTo(r, from, to),
           to \notin {"index", "record"},
           todo' = todo \/ (\E list : todo' = [todo EXCEPT ![r] = list]),
           tables' = tables, indexes' = indexes, tracked' = tracked
    PROVE  Underway' /\ TrackedIsApplied'
<1>1. /\ step'[r] = to
      /\ \A q \in Runs \ {r} : step'[q] = step[q] /\ todo'[q] = todo[q]
  BY DEF Typed, GoesTo
<1>2. \A q \in Runs \ {r} : Current(q)' = Current(q)
  BY <1>1 DEF Current
<1>3. Underway'
  BY <1>1, <1>2 DEF Underway
<1> QED
  BY <1>1, <1>3 DEF TrackedIsApplied

-----------------------------------------------------------------------------
(* Every step of a command.                                                *)

\* A command's step keeps what it has recorded applied.
LEMMA RunStepKeeps ==
    ASSUME Typed, Underway, TrackedIsApplied, NEW r \in Runs, RunStep(r)
    PROVE  Underway' /\ TrackedIsApplied'
<1>1. CASE DropDatabase(r)
  <2>1. CASE GoesTo(r, "drop", "check") /\ ~InUse /\ todo' = todo /\ tracked' = {}
    <3>1. \A q \in Runs : step[q] \notin {"index", "record"}
      BY <2>1 DEF InUse, Session
    <3>2. \A q \in Runs : step'[q] \notin {"index", "record"}
      BY <2>1, <3>1 DEF GoesTo, Typed
    <3> QED
      BY <2>1, <3>2 DEF Underway, TrackedIsApplied
  <2>2. CASE GoesTo(r, "drop", "failed") /\ UNCHANGED <<schemaVars, todo>>
    BY <2>2, QuietStep DEF schemaVars
  <2> QED
    BY <1>1, <2>1, <2>2 DEF DropDatabase
<1>2. CASE CheckDatabase(r)
  BY <1>2, QuietStep DEF CheckDatabase, schemaVars
<1>3. CASE CreateDatabase(r)
  BY <1>3, QuietStep DEF CreateDatabase
<1>4. CASE Connect(r)
  BY <1>4, QuietStep DEF Connect, schemaVars
<1>5. CASE LookForTracking(r)
  BY <1>5, QuietStep DEF LookForTracking, schemaVars
<1>6. CASE MakeTracking(r)
  BY <1>6, QuietStep DEF MakeTracking
<1>7. CASE NextMigration(r)
  BY <1>7, QuietStep DEF NextMigration, schemaVars
<1>8. CASE CreateTable(r)
  <2>1. /\ todo' = todo /\ step'[r] \in {"failed", "index"}
        /\ \A q \in Runs \ {r} : step'[q] = step[q]
        /\ tables' = tables \cup {Current(r)} /\ indexes' = indexes /\ tracked' = tracked
    BY <1>8 DEF CreateTable, GoesTo, Typed
  <2>2. \A q \in Runs : Current(q)' = Current(q)
    BY <2>1 DEF Current
  <2> QED
    BY <2>1, <2>2 DEF Underway, TrackedIsApplied
<1>9. CASE CreateIndex(r)
  <2>1. /\ todo' = todo /\ step[r] = "index" /\ step'[r] = "record"
        /\ \A q \in Runs \ {r} : step'[q] = step[q]
        /\ tables' = tables /\ indexes' = indexes \cup {Current(r)} /\ tracked' = tracked
    BY <1>9 DEF CreateIndex, GoesTo, Typed
  <2>2. \A q \in Runs : Current(q)' = Current(q)
    BY <2>1 DEF Current
  <2> QED
    BY <2>1, <2>2 DEF Underway, TrackedIsApplied
<1>10. CASE RecordMigration(r)
  <2>1. /\ step[r] = "record" /\ step'[r] \in {"failed", "next"}
        /\ \A q \in Runs \ {r} : step'[q] = step[q] /\ todo'[q] = todo[q]
        /\ tables' = tables /\ indexes' = indexes /\ tracked' = tracked \cup {Current(r)}
    BY <1>10 DEF RecordMigration, GoesTo, Typed
  <2>2. \A q \in Runs \ {r} : Current(q)' = Current(q)
    BY <2>1 DEF Current
  <2> QED
    BY <2>1, <2>2 DEF Underway, TrackedIsApplied
<1>11. CASE MigrateReturns(r)
  BY <1>11, QuietStep DEF MigrateReturns, schemaVars
<1>12. CASE ConnectSeeders(r)
  BY <1>12, QuietStep DEF ConnectSeeders, schemaVars
<1>13. CASE Seed(r)
  BY <1>13, QuietStep DEF Seed, schemaVars
<1>14. CASE LookForStatus(r)
  BY <1>14, QuietStep DEF LookForStatus, schemaVars
<1>15. CASE ReadStatus(r)
  BY <1>15, QuietStep DEF ReadStatus, schemaVars
<1>16. CASE CutShort(r)
  BY <1>16, QuietStep DEF CutShort, GoesTo, schemaVars
<1> QED
  BY <1>1, <1>2, <1>3, <1>4, <1>5, <1>6, <1>7, <1>8, <1>9, <1>10, <1>11, <1>12, <1>13,
     <1>14, <1>15, <1>16 DEF RunStep

\* It keeps the types, and comes only to migrations that are on its list.
LEMMA RunStepTypes ==
    ASSUME TypeOK, Listed, NEW r \in Runs, Command(r)
    PROVE  TypeOK' /\ Listed'
<1> USE DEF TypeOK, Listed, GoesTo, runVars, schemaVars, history
<1>1. todo[r] \in SUBSET Nat /\ registered[r] \subseteq AllMigrations
  BY ReleasesAssumption DEF AllMigrations
<1>2. step[r] \in {"table", "index", "record"} => Current(r) \in AllMigrations
  BY <1>1, CurrentIsListed
<1>3. pool' = pool /\ RunStep(r)
  BY DEF Command
<1>4. CASE DropDatabase(r)
  BY <1>3, <1>4 DEF DropDatabase
<1>5. CASE CheckDatabase(r) \/ CreateDatabase(r)
  BY <1>3, <1>5 DEF CheckDatabase, CreateDatabase
<1>6. CASE Connect(r)
  BY <1>3, <1>6 DEF Connect
<1>7. CASE LookForTracking(r)
  BY <1>1, <1>3, <1>7 DEF LookForTracking
<1>8. CASE MakeTracking(r)
  BY <1>3, <1>8 DEF MakeTracking
<1>9. CASE NextMigration(r)
  BY <1>3, <1>9 DEF NextMigration
<1>10. CASE CreateTable(r)
  BY <1>2, <1>3, <1>10 DEF CreateTable
<1>11. CASE CreateIndex(r)
  BY <1>2, <1>3, <1>11 DEF CreateIndex
<1>12. CASE RecordMigration(r)
  BY <1>2, <1>3, <1>12 DEF RecordMigration
<1>13. CASE MigrateReturns(r) \/ ConnectSeeders(r) \/ Seed(r)
  BY <1>3, <1>13 DEF MigrateReturns, ConnectSeeders, Seed
<1>14. CASE LookForStatus(r) \/ ReadStatus(r)
  BY <1>3, <1>14 DEF LookForStatus, ReadStatus
<1>15. CASE CutShort(r)
  BY <1>3, <1>15 DEF CutShort
<1> QED
  BY <1>3, <1>4, <1>5, <1>6, <1>7, <1>8, <1>9, <1>10, <1>11, <1>12, <1>13, <1>14, <1>15
  DEF RunStep

\* It records nothing without a tracking table.
LEMMA RunStepTracks ==
    ASSUME Typed, TrackingFirst, NEW r \in Runs, RunStep(r)
    PROVE  TrackingFirst'
<1> USE DEF Typed, TrackingFirst, GoesTo, schemaVars
<1>1. CASE DropDatabase(r)
  BY <1>1 DEF DropDatabase, InUse, Session
<1>2. CASE CheckDatabase(r) \/ CreateDatabase(r) \/ Connect(r)
  BY <1>2 DEF CheckDatabase, CreateDatabase, Connect
<1>3. CASE LookForTracking(r) \/ MakeTracking(r)
  BY <1>3 DEF LookForTracking, MakeTracking
<1>4. CASE NextMigration(r) \/ CreateTable(r) \/ CreateIndex(r)
  BY <1>4 DEF NextMigration, CreateTable, CreateIndex
<1>5. CASE RecordMigration(r)
  BY <1>5 DEF RecordMigration
<1>6. CASE MigrateReturns(r) \/ ConnectSeeders(r) \/ Seed(r)
  BY <1>6 DEF MigrateReturns, ConnectSeeders, Seed
<1>7. CASE LookForStatus(r) \/ ReadStatus(r) \/ CutShort(r)
  BY <1>7 DEF LookForStatus, ReadStatus, CutShort
<1> QED
  BY <1>1, <1>2, <1>3, <1>4, <1>5, <1>6, <1>7 DEF RunStep

\* What it reports is there to stay: rows go only with their database, and with it the
\* runs that saw it.
LEMMA RunStepReports ==
    ASSUME Typed, TrackingFirst, Reported, NEW r \in Runs, RunStep(r)
    PROVE  Reported'
<1> USE DEF Typed, Reported, GoesTo, runVars, schemaVars, history
<1>1. CASE DropDatabase(r)
  BY <1>1, FS_EmptySet DEF DropDatabase
<1>2. CASE CheckDatabase(r)
  BY <1>2 DEF CheckDatabase
<1>3. CASE CreateDatabase(r)
  BY <1>3 DEF CreateDatabase
<1>4. CASE Connect(r)
  BY <1>4 DEF Connect
<1>5. CASE LookForTracking(r)
  BY <1>5 DEF LookForTracking
<1>6. CASE MakeTracking(r)
  BY <1>6 DEF MakeTracking
<1>7. CASE NextMigration(r)
  BY <1>7 DEF NextMigration
<1>8. CASE CreateTable(r)
  BY <1>8 DEF CreateTable
<1>9. CASE CreateIndex(r)
  BY <1>9 DEF CreateIndex
<1>10. CASE RecordMigration(r)
  <2>1. IsFiniteSet(tracked') /\ tracked \subseteq tracked'
    BY <1>10, FS_AddElement DEF RecordMigration
  <2> QED
    BY <1>10, <2>1 DEF RecordMigration
<1>11. CASE MigrateReturns(r)
  BY <1>11 DEF MigrateReturns
<1>12. CASE ConnectSeeders(r)
  BY <1>12 DEF ConnectSeeders
<1>13. CASE Seed(r)
  BY <1>13 DEF Seed
<1>14. CASE LookForStatus(r)
  BY <1>14 DEF LookForStatus, TrackingFirst
<1>15. CASE ReadStatus(r)
  BY <1>15 DEF ReadStatus
<1>16. CASE CutShort(r)
  BY <1>16 DEF CutShort
<1> QED
  BY <1>1, <1>2, <1>3, <1>4, <1>5, <1>6, <1>7, <1>8, <1>9, <1>10, <1>11, <1>12, <1>13,
     <1>14, <1>15, <1>16 DEF RunStep

\* It comes nearer to its release: what it takes off its list is recorded.
LEMMA RunStepAdvances ==
    ASSUME Typed, Advances, NEW r \in Runs, RunStep(r)
    PROVE  Advances'
<1> USE DEF Typed, Advances, GoesTo, runVars, schemaVars, history
<1>1. CASE DropDatabase(r)
  BY <1>1 DEF DropDatabase
<1>2. CASE CheckDatabase(r)
  BY <1>2 DEF CheckDatabase
<1>3. CASE CreateDatabase(r)
  BY <1>3 DEF CreateDatabase
<1>4. CASE Connect(r)
  BY <1>4 DEF Connect
<1>5. CASE LookForTracking(r)
  BY <1>5 DEF LookForTracking
<1>6. CASE MakeTracking(r)
  BY <1>6 DEF MakeTracking
<1>7. CASE NextMigration(r)
  BY <1>7 DEF NextMigration
<1>8. CASE CreateTable(r)
  BY <1>8 DEF CreateTable
<1>9. CASE CreateIndex(r)
  BY <1>9 DEF CreateIndex
<1>10. CASE RecordMigration(r)
  BY <1>10 DEF RecordMigration
<1>11. CASE MigrateReturns(r)
  BY <1>11 DEF MigrateReturns
<1>12. CASE ConnectSeeders(r)
  BY <1>12 DEF ConnectSeeders
<1>13. CASE Seed(r)
  BY <1>13 DEF Seed
<1>14. CASE LookForStatus(r)
  BY <1>14 DEF LookForStatus
<1>15. CASE ReadStatus(r)
  BY <1>15 DEF ReadStatus
<1>16. CASE CutShort(r)
  BY <1>16 DEF CutShort
<1> QED
  BY <1>1, <1>2, <1>3, <1>4, <1>5, <1>6, <1>7, <1>8, <1>9, <1>10, <1>11, <1>12, <1>13,
     <1>14, <1>15, <1>16 DEF RunStep

\* A run that stops between a table and its record says so, or another has recorded it.
LEMMA RunStepClaims ==
    ASSUME Typed, Claimed, NEW r \in Runs, RunStep(r)
    PROVE  Claimed'
<1> SUFFICES ASSUME ~troubled', NEW m \in tables'
             PROVE  \/ m \in tracked'
                    \/ \E q \in Runs : step'[q] \in {"index", "record"} /\ Current(q)' = m
  BY DEF Claimed
<1>1. CASE CutShort(r)
  BY <1>1 DEF CutShort
<1>2. CASE DropDatabase(r)
  <2>1. CASE tables' = {}
    BY <2>1
  <2>2. CASE GoesTo(r, "drop", "failed") /\ UNCHANGED <<schemaVars, todo, troubled>>
    BY <2>2 DEF Claimed, Typed, GoesTo, schemaVars, Current
  <2> QED
    BY <1>2, <2>1, <2>2 DEF DropDatabase
<1>3. CASE CreateTable(r)
  <2>1. /\ todo' = todo /\ tracked' = tracked /\ troubled' = troubled
        /\ tables' = tables \cup {Current(r)}
        /\ step[r] = "table"
        /\ Current(r) \notin tables => step'[r] = "index"
        /\ \A q \in Runs \ {r} : step'[q] = step[q]
    BY <1>3 DEF CreateTable, GoesTo, Typed
  <2>2. \A q \in Runs : Current(q)' = Current(q)
    BY <2>1 DEF Current
  <2> QED
    BY <2>1, <2>2 DEF Claimed
<1>4. CASE CreateIndex(r)
  <2>1. /\ todo' = todo /\ tracked' = tracked /\ troubled' = troubled /\ tables' = tables
        /\ step'[r] = "record"
        /\ \A q \in Runs \ {r} : step'[q] = step[q]
    BY <1>4 DEF CreateIndex, GoesTo, Typed
  <2>2. \A q \in Runs : Current(q)' = Current(q)
    BY <2>1 DEF Current
  <2> QED
    BY <2>1, <2>2 DEF Claimed
<1>5. CASE RecordMigration(r)
  <2>1. /\ tracked' = tracked \cup {Current(r)} /\ troubled' = troubled /\ tables' = tables
        /\ \A q \in Runs \ {r} : step'[q] = step[q] /\ todo'[q] = todo[q]
    BY <1>5 DEF RecordMigration, GoesTo, Typed
  <2>2. \A q \in Runs \ {r} : Current(q)' = Current(q)
    BY <2>1 DEF Current
  <2> QED
    BY <2>1, <2>2 DEF Claimed
<1>6. CASE /\ step[r] \notin {"index", "record"} /\ troubled' = troubled
           /\ tables' = tables /\ tracked' = tracked
           /\ \A q \in Runs \ {r} : step'[q] = step[q] /\ todo'[q] = todo[q]
  <2>1. \A q \in Runs \ {r} : Current(q)' = Current(q)
    BY <1>6 DEF Current
  <2> QED
    BY <1>6, <2>1 DEF Claimed
<1>7. CASE CheckDatabase(r) \/ CreateDatabase(r) \/ Connect(r) \/ LookForTracking(r)
  BY <1>6, <1>7 DEF CheckDatabase, CreateDatabase, Connect, LookForTracking, GoesTo, Typed,
     schemaVars
<1>8. CASE MakeTracking(r) \/ NextMigration(r) \/ MigrateReturns(r)
  BY <1>6, <1>8 DEF MakeTracking, NextMigration, MigrateReturns, GoesTo, Typed, schemaVars
<1>9. CASE ConnectSeeders(r) \/ Seed(r) \/ LookForStatus(r) \/ ReadStatus(r)
  BY <1>6, <1>9 DEF ConnectSeeders, Seed, LookForStatus, ReadStatus, GoesTo, Typed, schemaVars
<1> QED
  BY <1>1, <1>2, <1>3, <1>4, <1>5, <1>7, <1>8, <1>9 DEF RunStep

-----------------------------------------------------------------------------
(* What a step does to the rows of the users table.                        *)

\* The unique index of users can be made only on a table without duplicates.
LEMMA OperateKeepsUnique ==
    ASSUME Typed, Underway, IndexedIsUnique, NEW c \in Runs, Operate(c)
    PROVE  IndexedIsUnique'
<1>1. CASE exists /\ ~exists' /\ Truncate
  BY <1>1 DEF Truncate, IndexedIsUnique, UniqueEmail
<1>2. CASE row' = row
  <2>1. UniqueEmail' <=> UniqueEmail
    BY <1>2 DEF UniqueEmail
  <2>2. CASE CreateUsers \in indexes \/ CreateUsers \notin indexes'
    BY <2>1, <2>2 DEF IndexedIsUnique
  <2>3. CASE CreateUsers \notin indexes /\ CreateUsers \in indexes'
    <3>1. indexes' # indexes /\ indexes' # {}
      BY <2>3
    <3>2. CreateIndex(c)
      BY <3>1 DEF Operate, Command, RunStep, DropDatabase, CheckDatabase, CreateDatabase,
         Connect, LookForTracking, MakeTracking, NextMigration, CreateTable, RecordMigration,
         MigrateReturns, ConnectSeeders, Seed, LookForStatus, ReadStatus, CutShort, schemaVars
    <3>3. step[c] = "index" /\ step'[c] = "record" /\ Current(c) = CreateUsers
      BY <2>3, <3>2 DEF CreateIndex, GoesTo, Typed
    <3>4. UsersIndexed \/ ~Duplicated
      BY <3>3 DEF Operate
    <3>5. UniqueEmail
      BY <2>3, <3>4 DEF UsersIndexed, Duplicated, UniqueEmail
    <3> QED
      BY <2>1, <3>5 DEF IndexedIsUnique
  <2> QED
    BY <2>2, <2>3
<1> QED
  BY <1>1, <1>2 DEF Operate, apiVars

\* A request stores nothing that the index of users does not let pass.
LEMMA InsertKeepsUnique ==
    ASSUME Typed, IndexedIsUnique, NEW r \in Requests, Insert(r)
    PROVE  IndexedIsUnique'
<1>1. indexes' = indexes
  BY DEF Insert, vars, schemaVars
<1>2. CASE row' = row
  BY <1>1, <1>2 DEF IndexedIsUnique, UniqueEmail
<1>3. CASE StoreRow(r)
  <2>1. \A q \in Requests \ {r} : /\ row'[q] = row[q]
                                  /\ row[q] # NoRow => row[q].email # row'[r].email
    BY <1>3 DEF StoreRow, EmailIndexed, Typed
  <2> QED
    BY <1>1, <2>1 DEF IndexedIsUnique, UniqueEmail
<1>4. CASE StoreRowUnindexed(r) /\ ~UsersIndexed
  BY <1>1, <1>4 DEF StoreRowUnindexed, UsersIndexed, IndexedIsUnique, Typed
<1> QED
  BY <1>2, <1>3, <1>4 DEF Insert, InsertFails, InsertTaken, InsertCommits, InsertAckLost

-----------------------------------------------------------------------------
(* The whole.                                                              *)

\* A request is answered from the table as it finds it, indexed or not.
LEMMA ServingKeeps ==
    ASSUME RequestsInv, NEW r \in Requests, Insert(r) \/ Attend(r)
    PROVE  RequestsInv'
<1>1. CASE Attend(r)
  BY <1>1, AnswersInv, MoveInv DEF Attend
<1>2. CASE InsertFails(r) \/ InsertTaken(r)
  BY <1>2, AnswersInv
<1>3. CASE InsertCommits(r) \/ InsertAckLost(r)
  BY <1>3, InsertInv DEF InsertCommits, InsertAckLost, StoreRow, StoreRowUnindexed
<1>4. CASE /\ pc[r] = "insert" /\ StoreRowUnindexed(r) /\ body' = body
           /\ \/ pc' = [pc EXCEPT ![r] = "enqueue"] /\ response' = response
              \/ Respond(r, InternalError)
  BY <1>4, InsertInv
<1> QED
  BY <1>1, <1>2, <1>3, <1>4 DEF Insert

\* A step that leaves the requests and their rows alone keeps what is said of them.
LEMMA ApiUntouched == ASSUME RequestsInv, UNCHANGED apiVars PROVE RequestsInv'
<1>1. UNCHANGED <<body, pc, row, committed, response>>
  BY DEF apiVars
<1>2. \A q \in Requests : Minted(q)' = Minted(q) /\ HasUser(q)' = HasUser(q)
  BY <1>1, MintedIsStable
<1> QED
  BY <1>1, <1>2 DEF RequestsInv, ApiTypeOK, Progress, RowsAreMinted, AnswerMatchesStore,
                    ConflictIsReal, StoredUserLoads

\* A step that leaves the schema and the commands alone keeps what is said of them.
LEMMA SchemaUntouched ==
    ASSUME DeploymentInv, pool' \in BOOLEAN,
           UNCHANGED <<runVars, schemaVars, step, todo, report, history, troubled>>
    PROVE  /\ TypeOK' /\ Listed' /\ Underway' /\ TrackingFirst' /\ TrackedIsApplied'
           /\ Advances' /\ Claimed' /\ Reported'
<1>1. /\ command' = command /\ registered' = registered /\ exists' = exists
      /\ tables' = tables /\ indexes' = indexes /\ tracking' = tracking
      /\ tracked' = tracked /\ step' = step /\ todo' = todo /\ report' = report
      /\ visited' = visited /\ seeded' = seeded /\ found' = found /\ blind' = blind
      /\ troubled' = troubled
  BY DEF runVars, schemaVars, history
<1>2. \A q \in Runs : Current(q)' = Current(q)
  BY <1>1 DEF Current
<1>3. TypeOK' /\ Listed' /\ Reported'
  BY <1>1 DEF DeploymentInv, TypeOK, Listed, Reported
<1> QED
  BY <1>1, <1>2, <1>3
  DEF DeploymentInv, Underway, TrackingFirst, TrackedIsApplied, Advances, Claimed

LEMMA DeploymentStepInv ==
    ASSUME DeploymentInv, [DeploymentNext]_deploymentVars
    PROVE  DeploymentInv'
<1> USE DEF DeploymentInv
<1>1. Typed
  BY DEF Typed, TypeOK, RequestsInv, ApiTypeOK
<1>2. ASSUME NEW c \in Runs, Operate(c) PROVE DeploymentInv'
  <2>1. Command(c) /\ RunStep(c)
    BY <1>2 DEF Operate, Command
  <2>2. TypeOK' /\ Listed'
    BY <2>1, RunStepTypes
  <2>3. Underway' /\ TrackingFirst' /\ TrackedIsApplied'
    BY <1>1, <2>1, RunStepKeeps, RunStepTracks
  <2>4. Advances' /\ Claimed' /\ Reported'
    BY <1>1, <2>1, RunStepAdvances, RunStepClaims, RunStepReports
  <2>5. IndexedIsUnique'
    BY <1>1, <1>2, OperateKeepsUnique
  <2>6. RequestsInv'
    BY <1>2, OtherWritesInv, ApiUntouched DEF Operate
  <2> QED
    BY <2>2, <2>3, <2>4, <2>5, <2>6
<1>3. ASSUME NEW r \in Requests, Insert(r) PROVE DeploymentInv'
  <2>1. UNCHANGED vars
    BY <1>3 DEF Insert
  <2>2. IndexedIsUnique'
    BY <1>1, <1>3, InsertKeepsUnique
  <2>3. RequestsInv'
    BY <1>3, ServingKeeps
  <2> QED
    BY <2>1, <2>2, <2>3, SchemaUntouched DEF vars, TypeOK
<1>4. ASSUME row' = row, RequestsInv', pool' \in BOOLEAN,
             UNCHANGED <<runVars, schemaVars, step, todo, report, history, troubled>>
      PROVE  DeploymentInv'
  <2>1. IndexedIsUnique'
    BY <1>4 DEF IndexedIsUnique, UniqueEmail, schemaVars
  <2> QED
    BY <1>4, <2>1, SchemaUntouched
<1>5. ASSUME NEW r \in Requests, Attend(r) PROVE DeploymentInv'
  <2>1. RequestsInv'
    BY <1>5, ServingKeeps
  <2> QED
    BY <1>4, <1>5, <2>1 DEF Attend, RejectBody, RejectUser, AcceptUser, EnqueueReturns,
       ReplyCreated, vars, TypeOK
<1>6. CASE Connections
  <2>1. RequestsInv'
    BY <1>6, ApiUntouched DEF Connections
  <2> QED
    BY <1>4, <1>6, <2>1 DEF Connections, PoolOpens, PoolCloses, apiVars
<1>7. CASE ApiEnds
  <2>1. RequestsInv'
    BY <1>7, MoveInv DEF ApiEnds
  <2> QED
    BY <1>4, <1>7, <2>1 DEF ApiEnds, ApiDies, PoolCloses, vars, TypeOK
<1>8. CASE UNCHANGED deploymentVars
  <2>1. RequestsInv'
    BY <1>8, ApiUntouched DEF deploymentVars
  <2> QED
    BY <1>4, <1>8, <2>1 DEF deploymentVars, vars, apiVars, TypeOK
<1> QED
  BY <1>2, <1>3, <1>5, <1>6, <1>7, <1>8 DEF DeploymentNext

\* The inductive invariant holds throughout.
THEOREM DeploymentInvariant == DeploymentSpec => []DeploymentInv
<1>1. DeploymentInv /\ [DeploymentNext]_deploymentVars => DeploymentInv'
  BY DeploymentStepInv
<1> QED
  BY <1>1, DeploymentInitInv, PTL DEF DeploymentSpec

\* A recorded migration has its table and its unique index, wherever its run and the
\* others were cut short.
THEOREM RecordsAreApplied == DeploymentSpec => []TrackedIsApplied
<1>1. DeploymentInv => TrackedIsApplied
  BY DEF DeploymentInv
<1> QED
  BY <1>1, DeploymentInvariant, PTL

\* The users table, once recorded, holds no address twice, though the API was served
\* from it before it had its index.
THEOREM RecordedEmailsAreUnique == DeploymentSpec => []RecordedIsUnique
<1>1. DeploymentInv => RecordedIsUnique
  BY DEF DeploymentInv, TrackedIsApplied, IndexedIsUnique, RecordedIsUnique
<1> QED
  BY <1>1, DeploymentInvariant, PTL

\* A command that migrates and succeeds leaves its whole release applied.
THEOREM SuccessIsComplete == DeploymentSpec => []DoneIsMigrated
<1>1. DeploymentInv => DoneIsMigrated
  BY DEF DeploymentInv, TypeOK, Advances, TrackedIsApplied, DoneIsMigrated
<1> QED
  BY <1>1, DeploymentInvariant, PTL

\* Races alone leave a database that can be migrated again.
THEOREM RacesLeaveNoDebris == DeploymentSpec => []RacesAreRepeatable
<1>1. DeploymentInv => RacesAreRepeatable
  BY DEF DeploymentInv, Claimed, RacesAreRepeatable, Repeatable, Session
<1> QED
  BY <1>1, DeploymentInvariant, PTL

\* Every variable of the commands and of the API keeps its type.
THEOREM DeploymentTypeCorrect == DeploymentSpec => []DeploymentTypeOK
<1>1. DeploymentInv => DeploymentTypeOK
  BY DEF DeploymentInv, RequestsInv, DeploymentTypeOK
<1> QED
  BY <1>1, DeploymentInvariant, PTL

\* What migrate_status printed stays true of the database it was printed of: all that
\* its release knows, in order, then the orphans, nothing as applied that is not, and,
\* unless its look for the tracking table failed, nothing as pending that it was to find.
THEOREM StatusReportsAreTrue == DeploymentSpec => []StatusIsTrue
<1>1. DeploymentInv => StatusIsTrue
  <2> SUFFICES ASSUME DeploymentInv, NEW r \in visited,
                      step[r] = "done", command[r] = "migrate_status",
                      NEW lines, lines = report[r]
               PROVE  /\ \A m \in registered[r] : \E i \in DOMAIN lines : lines[i].id = m
                      /\ r \notin blind =>
                            \A m \in found[r] :
                                \E i \in DOMAIN lines : lines[i].id = m /\ lines[i].applied
                      /\ \A i \in DOMAIN lines :
                            /\ lines[i].applied =>
                                   lines[i].id \in tracked \cap tables \cap indexes
                            /\ lines[i].orphan <=> lines[i].id \notin registered[r]
                            /\ lines[i].orphan => lines[i].applied
                      /\ \A i, j \in DOMAIN lines : i < j =>
                            \/ ~lines[i].orphan /\ lines[j].orphan
                            \/ lines[i].orphan = lines[j].orphan /\ lines[i].id < lines[j].id
    BY DEF StatusIsTrue
  <2>1. PICK applied \in SUBSET tracked :
            /\ lines = Statuses(registered[r], applied)
            /\ r \notin blind => found[r] \subseteq applied
    BY DEF DeploymentInv, Reported
  <2>2. registered[r] \in SUBSET Nat /\ IsFiniteSet(registered[r])
    BY ReleasesAssumption DEF DeploymentInv, TypeOK
  <2>3. tracked \in SUBSET Nat
    BY ReleasesAssumption DEF DeploymentInv, TypeOK, AllMigrations
  <2>4. applied \in SUBSET Nat /\ IsFiniteSet(applied)
    BY <2>3, FS_Subset DEF DeploymentInv, Reported
  <2>5. applied \subseteq tracked \cap tables \cap indexes
    BY DEF DeploymentInv, TrackedIsApplied
  <2>6. /\ \A m \in registered[r] \cup applied : \E i \in DOMAIN lines : lines[i].id = m
        /\ \A i \in DOMAIN lines :
               /\ lines[i].applied = (lines[i].id \in applied)
               /\ lines[i].orphan = (lines[i].id \notin registered[r])
               /\ lines[i].orphan => lines[i].applied
        /\ \A i, j \in DOMAIN lines : i < j =>
               \/ ~lines[i].orphan /\ lines[j].orphan
               \/ lines[i].orphan = lines[j].orphan /\ lines[i].id < lines[j].id
    BY <2>1, <2>2, <2>4, StatusesAreRight
  <2>7. ASSUME r \notin blind, NEW m \in found[r]
        PROVE  \E i \in DOMAIN lines : lines[i].id = m /\ lines[i].applied
    <3>1. m \in applied
      BY <2>1, <2>7
    <3>2. PICK i \in DOMAIN lines : lines[i].id = m
      BY <2>6, <3>1
    <3>3. lines[i].applied = (lines[i].id \in applied)
      BY <2>6
    <3>4. lines[i].applied
      BY <3>1, <3>2, <3>3, Zenon
    <3> QED
      BY <3>2, <3>4
  <2> QED
    BY <2>5, <2>6, <2>7
<1> QED
  BY <1>1, DeploymentInvariant, PTL

\* The answers of POST /users stay true while the schema is migrated, reset or not there
\* at all: what is answered needs no unique index.
THEOREM DeployedAnswersAreTrue == DeploymentSpec => []AnswerMatchesStore
<1>1. DeploymentInv => AnswerMatchesStore
  BY DEF DeploymentInv, RequestsInv
<1> QED
  BY <1>1, DeploymentInvariant, PTL

\* So does a 409: it blames an email that another request did commit.
THEOREM DeployedConflictsAreReal == DeploymentSpec => []ConflictIsReal
<1>1. DeploymentInv => ConflictIsReal
  BY DEF DeploymentInv, RequestsInv
<1> QED
  BY <1>1, DeploymentInvariant, PTL

=============================================================================
