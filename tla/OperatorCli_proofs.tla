-------------------------- MODULE OperatorCli_proofs ---------------------------
(***************************************************************************)
(* What seeding and the environment gate guarantee, for any invocations of *)
(* any number of operators, any demo users and any writes next to them.    *)
(***************************************************************************)
EXTENDS OperatorCli, FiniteSetTheorems, SequenceTheorems, TLAPS

-----------------------------------------------------------------------------
(* The inductive invariant.                                                *)

Unconnected == {"start", "reset", "drop", "connect"}

\* A run starts at the first demo user, inserts only at one, and is done past the last;
\* it never counts more rows than the users it has passed.
Positions ==
    \A s \in Seeds :
        /\ pc[s] \in Unconnected => at[s] = 1
        /\ pc[s] = "create" => at[s] <= Len(demoUsers)
        /\ pc[s] = "done" => at[s] = Len(demoUsers) + 1
        /\ n[s] < at[s]

\* What a run inserted are users it has passed; if it failed, perhaps the one it was at.
Insertions ==
    \A s \in Seeds :
        /\ pc[s] \in Unconnected => inserted[s] = {}
        /\ \A e \in inserted[s] : \E i \in 1..Len(demoUsers) :
              /\ e = demoUsers[i] /\ i <= at[s]
              /\ pc[s] # "failed" => i < at[s]

\* An undisturbed run has left every user it passed in the table.
PassedAreStored ==
    \A s \in undisturbed :
        pc[s] \in {"look", "create", "done"} =>
            \A i \in 1..Len(demoUsers) : i < at[s] => row[demoUsers[i]] # NoRow

\* A line that asks for its wipe: what db_reset is, and what seed says.
AsksToWipe(line) ==
    \/ line.command = "db_reset"
    \/ /\ line.command = "seed" /\ line.reset /\ ~line.list
       /\ line.name \in {"", "users"}

\* Whatever has touched the table, or is about to, was invoked in development, and for it.
Gated ==
    \A s \in Seeds :
        /\ pc[s] = "start" => s \notin wiped
        /\ \/ pc[s] \in {"reset", "drop", "connect", "look", "create", "done"}
           \/ s \in wiped
           \/ inserted[s] # {}
           => invocation[s] \in Invocations /\ Env(invocation[s]) = "dev"
        /\ pc[s] \in {"reset", "drop"} \/ s \in wiped => AsksToWipe(invocation[s].line)

CliInv ==
    /\ CliTypeOK
    /\ Positions
    /\ Insertions
    /\ CountIsInserted
    /\ PassedAreStored
    /\ Gated

-----------------------------------------------------------------------------
(* The operators.                                                          *)

\* The demo addresses are there to be indexed, each at one place.
LEMMA DemoUsers ==
    /\ Len(demoUsers) \in Nat
    /\ DOMAIN demoUsers = 1..Len(demoUsers)
    /\ \A i \in 1..Len(demoUsers) : demoUsers[i] \in Emails
    /\ \A e \in Emails : \E i \in 1..Len(demoUsers) : e = demoUsers[i]
    /\ \A i, j \in 1..Len(demoUsers) : demoUsers[i] = demoUsers[j] => i = j
<1>1. demoUsers \in Seq(Emails) /\ \A i, j \in DOMAIN demoUsers : demoUsers[i] = demoUsers[j] => i = j
  BY SeedingAssumption
<1>2. Len(demoUsers) \in Nat /\ DOMAIN demoUsers = 1..Len(demoUsers)
  BY <1>1, LenProperties
<1> QED
  BY <1>1, <1>2 DEF Emails

\* There are finitely many.
LEMMA EmailsFinite == IsFiniteSet(Emails)
<1> DEFINE N == Len(demoUsers)
           f == [i \in 1..N |-> demoUsers[i]]
<1>1. f \in [1..N -> Emails] /\ \A e \in Emails : \E i \in 1..N : f[i] = e
  BY DemoUsers
<1>2. f \in Surjection(1..N, Emails)
  BY <1>1 DEF Surjection
<1>3. IsFiniteSet(1..N)
  BY DemoUsers, FS_Interval
<1> QED
  BY <1>2, <1>3, FS_Surjection

\* What an invocation comes to do to the table, it asks for, and in development.
LEMMA FirstStepIsGated ==
    ASSUME NEW i
    PROVE  /\ FirstStep(i) \in {"reset", "drop", "connect", "ended", "failed"}
           /\ FirstStep(i) \in {"reset", "drop", "connect"} => Env(i) = "dev"
           /\ FirstStep(i) \in {"reset", "drop"} => AsksToWipe(i.line)
<1>1. /\ SeedStep(i.line) \in {"reset", "connect", "ended", "failed"}
      /\ SeedStep(i.line) = "reset" =>
             i.line.reset /\ ~i.line.list /\ i.line.name \in {"", "users"}
  BY DEF SeedStep
<1>2. i.line.command \in Registered(Env(i)) /\ i.line.command \in {"seed", "db_setup", "db_reset"}
          => Env(i) = "dev"
  BY DEF Registered
<1> QED
  BY <1>1, <1>2 DEF FirstStep, AsksToWipe

\* An environment is development only if what counts of its setting says so.
LEMMA DevIsSaid ==
    ASSUME NEW i, Env(i) = "dev"
    PROVE  /\ i.shell["APP_ENV"] \in {Unset, "", "dev"}
           /\ i.shell["APP_ENV"] = Unset => i.file["APP_ENV"] \in {Unset, "", "dev"}
<1>1. Getenv(i, "APP_ENV") \in {Unset, "", "dev"}
  BY DEF Env, parseEnv
<1> QED
  BY <1>1 DEF Getenv

-----------------------------------------------------------------------------
(* The steps of a run of the seeder.                                       *)

\* Of the state of the runs, a step changes one's own.
LEMMA RunMoves ==
    ASSUME CliInv, NEW s \in Seeds, Run(s)
    PROVE  /\ pc' \in [Seeds -> {"start", "reset", "drop", "connect", "look", "create",
                                 "done", "ended", "failed"}]
           /\ inserted' \in [Seeds -> SUBSET Emails]
           /\ \A q \in Seeds \ {s} :
                 pc'[q] = pc[q] /\ at'[q] = at[q] /\ n'[q] = n[q] /\ inserted'[q] = inserted[q]
<1>1. /\ pc \in [Seeds -> {"start", "reset", "drop", "connect", "look", "create",
                           "done", "ended", "failed"}]
      /\ at \in [Seeds -> 1..Len(demoUsers) + 1]
      /\ n \in [Seeds -> 0..Len(demoUsers)]
      /\ inserted \in [Seeds -> SUBSET Emails]
  BY DEF CliInv, CliTypeOK, SeedingTypeOK
<1>2. CASE Reset(s) \/ Connect(s) \/ Finish(s) \/ LookFails(s) \/ Killed(s)
  BY <1>1, <1>2 DEF Reset, Connect, Finish, LookFails, Killed
<1>3. CASE Look(s) \/ CreateTaken(s)
  BY <1>1, <1>3 DEF Look, CreateTaken
<1>4. CASE Create(s) \/ CreateFails(s)
  <2>1. Email(s) \in Emails
    BY <1>1, <1>4, DemoUsers DEF Create, CreateFails, Email, CliInv, Positions
  <2>2. /\ inserted' \in [Seeds -> SUBSET Emails]
        /\ \A q \in Seeds \ {s} : inserted'[q] = inserted[q]
    BY <1>1, <1>4, <2>1 DEF Create, CreateFails, InsertRow
  <2>3. \A q \in Seeds \ {s} : at'[q] = at[q] /\ n'[q] = n[q]
    BY <1>1, <1>4 DEF Create, CreateFails
  <2> QED
    BY <1>1, <1>4, <2>2, <2>3 DEF Create, CreateFails
<1> QED
  BY <1>2, <1>3, <1>4 DEF Run

LEMMA RunKeepsPositions ==
    ASSUME CliInv, NEW s \in Seeds, Run(s)
    PROVE  Positions'
<1>1. /\ pc'[s] \in Unconnected => at'[s] = 1
      /\ pc'[s] = "create" => at'[s] <= Len(demoUsers)
      /\ pc'[s] = "done" => at'[s] = Len(demoUsers) + 1
      /\ n'[s] < at'[s]
  <2> USE DemoUsers DEF CliInv, CliTypeOK, SeedingTypeOK, Positions, Unconnected
  <2>1. CASE Reset(s) \/ Connect(s) \/ Finish(s) \/ LookFails(s) \/ Killed(s)
    BY <2>1 DEF Reset, Connect, Finish, LookFails, Killed
  <2>2. CASE Look(s) \/ CreateTaken(s)
    BY <2>2 DEF Look, CreateTaken
  <2>3. CASE Create(s) \/ CreateFails(s)
    BY <2>3 DEF Create, CreateFails
  <2> QED
    BY <2>1, <2>2, <2>3 DEF Run
<1> QED
  BY <1>1, RunMoves DEF CliInv, Positions

LEMMA RunKeepsInsertions ==
    ASSUME CliInv, NEW s \in Seeds, Run(s)
    PROVE  Insertions' /\ CountIsInserted'
<1> DEFINE Passed(S) == \A e \in S : \E i \in 1..Len(demoUsers) :
                            /\ e = demoUsers[i] /\ i <= at'[s]
                            /\ pc'[s] # "failed" => i < at'[s]
<1>1. /\ at[s] \in 1..Len(demoUsers) + 1 /\ inserted[s] \in SUBSET Emails
      /\ n[s] \in Nat
  BY DemoUsers DEF CliInv, CliTypeOK, SeedingTypeOK
<1>2. IsFiniteSet(inserted[s])
  BY <1>1, EmailsFinite, FS_Subset
<1>3. CASE /\ inserted'[s] = inserted[s] /\ n'[s] = n[s]
           /\ at'[s] = at[s] \/ at'[s] = at[s] + 1
           /\ pc[s] # "failed" /\ pc'[s] \notin {"start", "reset", "drop"}
           /\ pc'[s] = "connect" => pc[s] = "reset"
  <2>1. pc'[s] \in Unconnected => inserted'[s] = {}
    BY <1>3 DEF CliInv, Insertions, Unconnected
  <2>2. Passed(inserted'[s])
    BY <1>1, <1>3, DemoUsers DEF CliInv, Insertions
  <2>3. n'[s] = Cardinality(inserted'[s])
    BY <1>3 DEF CliInv, CountIsInserted
  <2> QED
    BY <2>1, <2>2, <2>3, RunMoves DEF CliInv, Insertions, CountIsInserted
<1>4. CASE pc[s] = "create" /\ InsertRow(s) /\ (Create(s) \/ CreateFails(s))
  <2>1. at[s] \in 1..Len(demoUsers) /\ Email(s) = demoUsers[at[s]]
    BY <1>1, <1>4, DemoUsers DEF CliInv, Positions, Email
  <2>2. inserted'[s] = inserted[s] \cup {Email(s)}
    BY <1>4 DEF InsertRow, CliInv, CliTypeOK, SeedingTypeOK
  <2>3. Email(s) \notin inserted[s]
    BY <1>4, <2>1, DemoUsers DEF CliInv, Insertions
  <2>4. Cardinality(inserted'[s]) = n[s] + 1
    BY <1>2, <1>4, <2>2, <2>3, FS_AddElement DEF CliInv, CountIsInserted
  <2>5. CASE Create(s)
    <3>1. n'[s] = n[s] + 1 /\ at'[s] = at[s] + 1 /\ pc'[s] = "look"
      BY <2>5 DEF Create, CliInv, CliTypeOK, SeedingTypeOK
    <3>2. Passed(inserted'[s])
      BY <1>1, <1>4, <2>1, <2>2, <3>1, DemoUsers DEF CliInv, Insertions
    <3> QED
      BY <2>4, <3>1, <3>2, RunMoves DEF CliInv, Insertions, CountIsInserted, Unconnected
  <2>6. CASE CreateFails(s)
    <3>1. n'[s] = n[s] /\ at'[s] = at[s] /\ pc'[s] = "failed"
      BY <2>6 DEF CreateFails, CliInv, CliTypeOK, SeedingTypeOK
    <3>2. Passed(inserted'[s])
      BY <1>1, <1>4, <2>1, <2>2, <3>1, DemoUsers DEF CliInv, Insertions
    <3> QED
      BY <2>4, <3>1, <3>2, RunMoves DEF CliInv, Insertions, CountIsInserted, Unconnected
  <2> QED
    BY <1>4, <2>5, <2>6
<1>5. CASE Reset(s) \/ Connect(s) \/ Finish(s) \/ LookFails(s) \/ Killed(s)
  BY <1>1, <1>3, <1>5 DEF Reset, Connect, Finish, LookFails, Killed, CliInv, CliTypeOK,
     SeedingTypeOK
<1>6. CASE Look(s) \/ CreateTaken(s)
  BY <1>1, <1>3, <1>6 DEF Look, CreateTaken, CliInv, CliTypeOK, SeedingTypeOK
<1>7. CASE CreateFails(s) /\ inserted' = inserted
  BY <1>1, <1>3, <1>7 DEF CreateFails, CliInv, CliTypeOK, SeedingTypeOK
<1> QED
  BY <1>4, <1>5, <1>6, <1>7 DEF Run, Create, CreateFails

LEMMA RunKeepsTypes ==
    ASSUME CliInv, NEW s \in Seeds, Run(s)
    PROVE  SeedingTypeOK'
<1> USE DemoUsers
<1>1. /\ row \in [Emails -> Seeds \cup {Client, NoRow}]
      /\ drifted \subseteq Emails /\ undisturbed \subseteq Seeds
      /\ at \in [Seeds -> 1..Len(demoUsers) + 1] /\ n \in [Seeds -> 0..Len(demoUsers)]
  BY DEF CliInv, CliTypeOK, SeedingTypeOK
<1>2. CASE Reset(s) \/ Connect(s) \/ Finish(s) \/ LookFails(s) \/ Killed(s)
  <2>1. at' = at /\ n' = n /\ drifted' \subseteq Emails /\ undisturbed' \subseteq Seeds
    BY <1>1, <1>2 DEF Reset, Wipe, Connect, Finish, LookFails, Killed
  <2>2. row' \in [Emails -> Seeds \cup {Client, NoRow}]
    BY <1>1, <1>2 DEF Reset, Wipe, Connect, Finish, LookFails, Killed
  <2> QED
    BY <1>1, <2>1, <2>2, RunMoves DEF SeedingTypeOK
<1>3. CASE Look(s) \/ CreateTaken(s)
  <2>1. at[s] \in 1..Len(demoUsers)
    BY <1>1, <1>3 DEF Look, CreateTaken, CliInv, Positions
  <2>2. at' \in [Seeds -> 1..Len(demoUsers) + 1]
    BY <1>1, <1>3, <2>1 DEF Look, CreateTaken
  <2> QED
    BY <1>1, <1>3, <2>2, RunMoves DEF SeedingTypeOK, Look, CreateTaken
<1>4. CASE Create(s) \/ CreateFails(s)
  <2>1. at[s] \in 1..Len(demoUsers) /\ n[s] \in 0..Len(demoUsers) - 1 /\ Email(s) \in Emails
    BY <1>1, <1>4 DEF Create, CreateFails, CliInv, Positions, Email
  <2>2. row' \in [Emails -> Seeds \cup {Client, NoRow}]
    BY <1>1, <1>4, <2>1 DEF Create, CreateFails, InsertRow
  <2>3. at' \in [Seeds -> 1..Len(demoUsers) + 1]
    BY <1>1, <1>4, <2>1 DEF Create, CreateFails
  <2>4. n' \in [Seeds -> 0..Len(demoUsers)]
    <3>1. n[s] + 1 \in 0..Len(demoUsers)
      BY <2>1
    <3>2. n' = [n EXCEPT ![s] = n[s] + 1] \/ n' = n
      BY <1>4 DEF Create, CreateFails
    <3> QED
      BY <1>1, <3>1, <3>2
  <2> QED
    BY <1>1, <1>4, <2>2, <2>3, <2>4, RunMoves DEF SeedingTypeOK, Create, CreateFails
<1> QED
  BY <1>2, <1>3, <1>4 DEF Run

LEMMA RunKeepsStored ==
    ASSUME CliInv, NEW s \in Seeds, Run(s)
    PROVE  PassedAreStored'
<1> USE DemoUsers
<1>1. /\ row \in [Emails -> Seeds \cup {Client, NoRow}]
      /\ pc \in [Seeds -> {"start", "reset", "drop", "connect", "look", "create",
                           "done", "ended", "failed"}]
      /\ at \in [Seeds -> 1..Len(demoUsers) + 1] /\ undisturbed \subseteq Seeds
  BY DEF CliInv, CliTypeOK, SeedingTypeOK
<1>2. CASE Reset(s)
  <2>1. /\ \A q \in undisturbed' : q \in Seeds /\ pc[q] \in Unconnected
        /\ \A q \in Seeds \ {s} : pc'[q] = pc[q]
        /\ pc'[s] = "connect"
    BY <1>1, <1>2 DEF Reset, Wipe, Unconnected
  <2> QED
    BY <2>1 DEF PassedAreStored, Unconnected
<1>3. CASE /\ undisturbed' = undisturbed
           /\ \A e \in Emails : row[e] # NoRow => row'[e] # NoRow
           /\ pc'[s] \in {"look", "create", "done"} =>
                  \A i \in 1..Len(demoUsers) : i < at'[s] =>
                      \/ i < at[s] /\ pc[s] \in {"look", "create"}
                      \/ row'[demoUsers[i]] # NoRow
  <2> SUFFICES ASSUME NEW q \in undisturbed, pc'[q] \in {"look", "create", "done"},
                      NEW i \in 1..Len(demoUsers), i < at'[q]
               PROVE  row'[demoUsers[i]] # NoRow
    BY <1>3 DEF PassedAreStored
  <2>1. CASE q = s
    BY <1>3, <2>1 DEF CliInv, PassedAreStored
  <2>2. CASE q # s
    BY <1>1, <1>3, <2>2, RunMoves DEF CliInv, PassedAreStored
  <2> QED
    BY <2>1, <2>2
<1>4. CASE Connect(s) \/ Finish(s) \/ LookFails(s) \/ Killed(s)
  BY <1>1, <1>3, <1>4 DEF Connect, Finish, LookFails, Killed, CliInv, Positions, Unconnected
<1>5. CASE Look(s) \/ CreateTaken(s)
  BY <1>1, <1>3, <1>5 DEF Look, CreateTaken, CliInv, Positions, Email
<1>6. CASE Create(s) \/ CreateFails(s)
  <2>1. at[s] \in 1..Len(demoUsers) /\ Email(s) = demoUsers[at[s]]
    BY <1>1, <1>6 DEF Create, CreateFails, CliInv, Positions, Email
  <2>2. /\ undisturbed' = undisturbed
        /\ \A e \in Emails : row[e] # NoRow => row'[e] # NoRow
    BY <1>1, <1>6, <2>1, SeedingAssumption DEF Create, CreateFails, InsertRow
  <2>3. CASE Create(s)
    <3>1. row'[demoUsers[at[s]]] # NoRow /\ at'[s] = at[s] + 1 /\ pc[s] = "create"
      BY <1>1, <2>1, <2>3, SeedingAssumption DEF Create, InsertRow
    <3> QED
      BY <1>1, <1>3, <2>2, <3>1
  <2>4. CASE CreateFails(s)
    BY <1>1, <1>3, <2>2, <2>4 DEF CreateFails
  <2> QED
    BY <1>6, <2>3, <2>4
<1> QED
  BY <1>2, <1>4, <1>5, <1>6 DEF Run

LEMMA RunKeepsGated ==
    ASSUME CliInv, NEW s \in Seeds, RunSeed(s)
    PROVE  Gated' /\ wiped' \subseteq Seeds /\ invocation' = invocation
<1>1. /\ Run(s) /\ invocation' = invocation
      /\ wiped' = wiped \/ (wiped' = wiped \cup {s} /\ pc[s] = "reset" /\ pc'[s] = "connect")
  BY DEF RunSeed, Reset, CliInv, CliTypeOK, SeedingTypeOK
<1>2. /\ pc'[s] \notin {"start", "reset", "drop"}
      /\ \/ pc'[s] \in {"connect", "look", "create", "done"} \/ inserted'[s] # {}
         => pc[s] \in {"reset", "drop", "connect", "look", "create", "done"} \/ inserted[s] # {}
  <2> USE DEF CliInv, CliTypeOK, SeedingTypeOK
  <2>1. CASE Reset(s) \/ Connect(s) \/ Finish(s) \/ LookFails(s) \/ Killed(s)
    BY <2>1 DEF Reset, Connect, Finish, LookFails, Killed
  <2>2. CASE Look(s) \/ CreateTaken(s)
    BY <2>2 DEF Look, CreateTaken
  <2>3. CASE Create(s) \/ CreateFails(s)
    BY <2>3 DEF Create, CreateFails
  <2> QED
    BY <1>1, <2>1, <2>2, <2>3 DEF Run
<1>3. \A q \in Seeds \ {s} : pc'[q] = pc[q] /\ inserted'[q] = inserted[q]
  BY <1>1, RunMoves
<1>4. wiped' \subseteq Seeds
  BY <1>1 DEF CliInv, CliTypeOK
<1> QED
  BY <1>1, <1>2, <1>3, <1>4 DEF CliInv, Gated

-----------------------------------------------------------------------------
(* The other steps, and the whole.                                         *)

LEMMA CliInitInv == CliInit => CliInv
<1> SUFFICES ASSUME CliInit PROVE CliInv
  OBVIOUS
<1>1. CliTypeOK
  BY DemoUsers DEF CliInit, SeedingInit, CliTypeOK, SeedingTypeOK
<1>2. Positions /\ Insertions /\ PassedAreStored /\ Gated
  BY DEF CliInit, SeedingInit, Positions, Insertions, PassedAreStored, Gated
<1>3. CountIsInserted
  BY FS_EmptySet DEF CliInit, SeedingInit, CountIsInserted
<1> QED
  BY <1>1, <1>2, <1>3 DEF CliInv

\* An invocation that is let through has what it needs to touch the table.
LEMMA InvokeKeeps ==
    ASSUME CliInv, NEW s \in Seeds, Invoke(s)
    PROVE  CliInv'
<1>1. PICK i \in Invocations : /\ invocation' = [invocation EXCEPT ![s] = i]
                               /\ pc' = [pc EXCEPT ![s] = FirstStep(i)]
  BY DEF Invoke
<1>2. /\ pc[s] = "start" /\ at[s] = 1 /\ inserted[s] = {} /\ s \notin wiped
      /\ UNCHANGED <<row, drifted, at, n, inserted, undisturbed, wiped>>
  BY DEF Invoke, CliInv, Positions, Insertions, Gated, Unconnected
<1>3. /\ pc \in [Seeds -> {"start", "reset", "drop", "connect", "look", "create",
                           "done", "ended", "failed"}]
      /\ invocation \in [Seeds -> Invocations \cup {NoInvocation}]
  BY DEF CliInv, CliTypeOK, SeedingTypeOK
<1>4. /\ FirstStep(i) \in {"reset", "drop", "connect", "ended", "failed"}
      /\ FirstStep(i) \in {"reset", "drop", "connect"} => Env(i) = "dev"
      /\ FirstStep(i) \in {"reset", "drop"} => AsksToWipe(i.line)
  BY FirstStepIsGated
<1>5. CliTypeOK'
  BY <1>1, <1>2, <1>3, <1>4 DEF CliInv, CliTypeOK, SeedingTypeOK
<1>6. /\ pc'[s] = FirstStep(i) /\ invocation'[s] = i
      /\ \A q \in Seeds \ {s} : pc'[q] = pc[q] /\ invocation'[q] = invocation[q]
  BY <1>1, <1>3
<1>7. Positions'
  BY <1>2, <1>4, <1>6 DEF CliInv, Positions, Unconnected
<1>8. Insertions' /\ CountIsInserted'
  BY <1>2, <1>4, <1>6 DEF CliInv, Insertions, CountIsInserted, Unconnected
<1>9. PassedAreStored'
  BY <1>2, <1>4, <1>6 DEF CliInv, CliTypeOK, SeedingTypeOK, PassedAreStored
<1>10. Gated'
  BY <1>2, <1>4, <1>6 DEF CliInv, Gated
<1> QED
  BY <1>5, <1>7, <1>8, <1>9, <1>10 DEF CliInv

\* The rows go, and with them the promise to whoever has connected before.
LEMMA DropKeeps ==
    ASSUME CliInv, NEW s \in Seeds, DropDatabase(s)
    PROVE  CliInv'
<1>1. /\ pc[s] = "drop" /\ pc' = [pc EXCEPT ![s] = "connect"]
      /\ wiped' = wiped \cup {s} /\ UNCHANGED <<at, n, inserted, invocation>>
      /\ row' = [e \in Emails |-> NoRow] /\ drifted' = {}
      /\ undisturbed' = {q \in undisturbed : pc[q] \in Unconnected}
  BY DEF DropDatabase, Wipe, Unconnected
<1>2. pc \in [Seeds -> {"start", "reset", "drop", "connect", "look", "create",
                        "done", "ended", "failed"}]
  BY DEF CliInv, CliTypeOK, SeedingTypeOK
<1>3. pc'[s] = "connect" /\ \A q \in Seeds \ {s} : pc'[q] = pc[q]
  BY <1>1, <1>2
<1>4. CliTypeOK'
  BY <1>1, <1>2 DEF CliInv, CliTypeOK, SeedingTypeOK
<1>5. Positions'
  BY <1>1, <1>3 DEF CliInv, Positions, Unconnected
<1>6. Insertions' /\ CountIsInserted'
  BY <1>1, <1>3 DEF CliInv, Insertions, CountIsInserted, Unconnected
<1>7. PassedAreStored'
  BY <1>1, <1>3, <1>4 DEF CliTypeOK, SeedingTypeOK, PassedAreStored, Unconnected
<1>8. Gated'
  BY <1>1, <1>3 DEF CliInv, Gated
<1> QED
  BY <1>4, <1>5, <1>6, <1>7, <1>8 DEF CliInv

\* The API and whoever writes past it only add rows, and spoil them.
LEMMA OthersKeep ==
    ASSUME CliInv, Others
    PROVE  CliInv'
<1>1. /\ UNCHANGED <<pc, at, n, inserted, undisturbed, invocation, wiped>>
      /\ row' \in [Emails -> Seeds \cup {Client, NoRow}] /\ drifted' \subseteq Emails
      /\ \A e \in Emails : row[e] # NoRow => row'[e] # NoRow
  BY SeedingAssumption DEF Others, SeedingEnvironment, ClientCreates, Drift, CliInv, CliTypeOK,
     SeedingTypeOK
<1>2. CliTypeOK'
  BY <1>1 DEF CliInv, CliTypeOK, SeedingTypeOK
<1>3. PassedAreStored'
  BY <1>1, DemoUsers DEF CliInv, PassedAreStored
<1>4. Positions' /\ Insertions' /\ CountIsInserted' /\ Gated'
  BY <1>1 DEF CliInv, Positions, Insertions, CountIsInserted, Gated
<1> QED
  BY <1>2, <1>3, <1>4 DEF CliInv

LEMMA CliStepInv ==
    ASSUME CliInv, [CliNext]_cliVars
    PROVE  CliInv'
<1>1. ASSUME NEW s \in Seeds, Invoke(s) PROVE CliInv'
  BY <1>1, InvokeKeeps
<1>2. ASSUME NEW s \in Seeds, DropDatabase(s) PROVE CliInv'
  BY <1>2, DropKeeps
<1>3. ASSUME NEW s \in Seeds, RunSeed(s) PROVE CliInv'
  <2>1. Run(s)
    BY <1>3 DEF RunSeed
  <2>2. Gated' /\ wiped' \subseteq Seeds /\ invocation' = invocation
    BY <1>3, RunKeepsGated
  <2>3. SeedingTypeOK' /\ Positions' /\ PassedAreStored'
    BY <2>1, RunKeepsTypes, RunKeepsPositions, RunKeepsStored
  <2>4. Insertions' /\ CountIsInserted'
    BY <2>1, RunKeepsInsertions
  <2> QED
    BY <2>2, <2>3, <2>4 DEF CliInv, CliTypeOK
<1>4. CASE Others
  BY <1>4, OthersKeep
<1>5. CASE UNCHANGED cliVars
  BY <1>5 DEF cliVars, seedingVars, CliInv, CliTypeOK, SeedingTypeOK, Positions, Insertions,
     CountIsInserted, PassedAreStored, Gated
<1> QED
  BY <1>1, <1>2, <1>3, <1>4, <1>5 DEF CliNext

\* The inductive invariant holds throughout.
THEOREM CliInvariant == CliSpec => []CliInv
<1>1. CliInv /\ [CliNext]_cliVars => CliInv'
  BY CliStepInv
<1> QED
  BY <1>1, CliInitInv, PTL DEF CliSpec

\* The state of the invocations and of the seeder always has its type.
THEOREM CliTypeCorrect == CliSpec => []CliTypeOK
<1>1. CliInv => CliTypeOK
  BY DEF CliInv
<1> QED
  BY <1>1, CliInvariant, PTL

\* A seeder that succeeds leaves every demo user in the table, whoever raced with it,
\* unless the table was wiped under it.
THEOREM SeedingIsComplete == CliSpec => []DoneIsSeeded
<1>1. CliInv => DoneIsSeeded
  <2> SUFFICES ASSUME CliInv, NEW s \in undisturbed, pc[s] = "done", NEW e \in Emails
               PROVE  row[e] # NoRow
    BY DEF DoneIsSeeded
  <2>1. PICK i \in 1..Len(demoUsers) : e = demoUsers[i]
    BY DemoUsers
  <2>2. at[s] = Len(demoUsers) + 1
    BY DEF CliInv, CliTypeOK, SeedingTypeOK, Positions
  <2>3. i < at[s]
    BY <2>2, DemoUsers
  <2> QED
    BY <2>1, <2>3 DEF CliInv, PassedAreStored
<1> QED
  BY <1>1, CliInvariant, PTL

\* The seeder's count is that of the rows it inserted.
THEOREM SeedingIsCounted == CliSpec => []CountIsInserted
<1>1. CliInv => CountIsInserted
  BY DEF CliInv
<1> QED
  BY <1>1, CliInvariant, PTL

\* Outside development nothing is wiped or seeded, whatever a .env file says.
THEOREM ProductionIsSafe == CliSpec => []DestructionIsDevOnly
<1>1. CliInv => DestructionIsDevOnly
  <2> SUFFICES ASSUME CliInv, NEW s \in Seeds, s \in wiped \/ inserted[s] # {}
               PROVE  LET i == invocation[s] IN
                      /\ i.shell["APP_ENV"] \in {Unset, "", "dev"}
                      /\ i.shell["APP_ENV"] = Unset => i.file["APP_ENV"] \in {Unset, "", "dev"}
    BY DEF DestructionIsDevOnly
  <2>1. Env(invocation[s]) = "dev"
    BY DEF CliInv, Gated
  <2> QED
    BY <2>1, DevIsSaid
<1> QED
  BY <1>1, CliInvariant, PTL

\* What wipes the table was asked to, on a line that it could carry out.
THEOREM WipesAreAskedFor == CliSpec => []WipesAreMeant
<1>1. CliInv => WipesAreMeant
  BY DEF CliInv, CliTypeOK, Gated, AsksToWipe, WipesAreMeant
<1> QED
  BY <1>1, CliInvariant, PTL

=============================================================================
