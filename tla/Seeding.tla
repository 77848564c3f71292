------------------------------- MODULE Seeding --------------------------------
(***************************************************************************)
(* Runs of the "users" seeder, side by side and next to the API, which may *)
(* create the same addresses.  A row of the users table is named by its    *)
(* address and holds who inserted it.  The seeder looks first and inserts  *)
(* on a miss; what settles a race is the unique index.  Which invocation   *)
(* of the CLI comes to seed, and how, is OperatorCli's.                    *)
(***************************************************************************)
EXTENDS Naturals, Sequences, FiniteSets

CONSTANTS
    Seeds,          \* the invocations of the CLI, which may run the seeder
    demoUsers,      \* the demo addresses, in order
    Client,         \* any client of POST /users
    NoRow           \* no row with this address

Emails == {demoUsers[i] : i \in DOMAIN demoUsers}

ASSUME SeedingAssumption ==
    /\ NoRow \notin Seeds \cup {Client} /\ Client \notin Seeds
    /\ demoUsers \in Seq(Emails)
    /\ \A i, j \in DOMAIN demoUsers : demoUsers[i] = demoUsers[j] => i = j

VARIABLES
    row,            \* row[e]: who inserted the row with address e, or NoRow
    drifted,        \* addresses whose row the domain refuses to load
    pc,             \* pc[s]: the next step of s
    at,             \* at[s]: the demo user s is at
    n,              \* n[s]: the insertions s has counted
    inserted,       \* history: inserted[s]: the rows that s committed
    undisturbed     \* history: those since whose connecting nothing was wiped

seedingVars == <<row, drifted, pc, at, n, inserted, undisturbed>>

-----------------------------------------------------------------------------
\* The session of runSeeders is open.
Session(s) == pc[s] \in {"look", "create"}

Email(s) == demoUsers[at[s]]

SeedingInit ==
    /\ row = [e \in Emails |-> NoRow]
    /\ drifted = {}
    /\ pc = [s \in Seeds |-> "start"]
    /\ at = [s \in Seeds |-> 1]
    /\ n = [s \in Seeds |-> 0]
    /\ inserted = [s \in Seeds |-> {}]
    /\ undisturbed = Seeds

\* Every row is gone; only what has not connected yet is none the worse for it.
Wipe ==
    /\ row' = [e \in Emails |-> NoRow]
    /\ drifted' = {}
    /\ undisturbed' = {q \in undisturbed : pc[q] \in {"start", "reset", "drop", "connect"}}

\* TruncateTables, in a session of its own, for the tables of the targeted
\* seeders: users.
Reset(s) ==
    /\ pc[s] = "reset"
    /\ pc' = [pc EXCEPT ![s] = "connect"]
    /\ Wipe
    /\ UNCHANGED <<at, n, inserted>>

Connect(s) ==
    /\ pc[s] = "connect"
    /\ pc' = [pc EXCEPT ![s] = "look"]
    /\ UNCHANGED <<row, drifted, at, n, inserted, undisturbed>>

\* The run is past its last demo user.
Finish(s) ==
    /\ pc[s] = "look" /\ at[s] > Len(demoUsers)
    /\ pc' = [pc EXCEPT ![s] = "done"]
    /\ UNCHANGED <<row, drifted, at, n, inserted, undisturbed>>

\* GetByEmail: a user is skipped, ErrUserNotFound is a miss.
Look(s) ==
    /\ pc[s] = "look" /\ at[s] <= Len(demoUsers)
    /\ \/ /\ row[Email(s)] # NoRow /\ Email(s) \notin drifted
          /\ at' = [at EXCEPT ![s] = @ + 1]
          /\ UNCHANGED pc
       \/ /\ row[Email(s)] = NoRow
          /\ pc' = [pc EXCEPT ![s] = "create"]
          /\ UNCHANGED at
    /\ UNCHANGED <<row, drifted, n, inserted, undisturbed>>

\* Mutant of LookFails: a user whose look fails is skipped.
LookFailsSkips(s) ==
    /\ pc[s] = "look" /\ at[s] <= Len(demoUsers)
    /\ at' = [at EXCEPT ![s] = @ + 1]
    /\ UNCHANGED <<row, drifted, pc, n, inserted, undisturbed>>

\* Any other error ends the run; so does a row that does not load.
LookFails(s) ==
    /\ pc[s] = "look" /\ at[s] <= Len(demoUsers)
    /\ pc' = [pc EXCEPT ![s] = "failed"]
    /\ UNCHANGED <<row, drifted, at, n, inserted, undisturbed>>

InsertRow(s) ==
    /\ row[Email(s)] = NoRow
    /\ row' = [row EXCEPT ![Email(s)] = s]
    /\ inserted' = [inserted EXCEPT ![s] = @ \cup {Email(s)}]

Create(s) ==
    /\ pc[s] = "create"
    /\ InsertRow(s)
    /\ n' = [n EXCEPT ![s] = @ + 1]
    /\ at' = [at EXCEPT ![s] = @ + 1]
    /\ pc' = [pc EXCEPT ![s] = "look"]
    /\ UNCHANGED <<drifted, undisturbed>>

\* Mutant of CreateTaken: a user somebody else inserted is counted.
CreateTakenCounted(s) ==
    /\ pc[s] = "create"
    /\ row[Email(s)] # NoRow
    /\ n' = [n EXCEPT ![s] = @ + 1]
    /\ at' = [at EXCEPT ![s] = @ + 1]
    /\ pc' = [pc EXCEPT ![s] = "look"]
    /\ UNCHANGED <<row, drifted, inserted, undisturbed>>

\* ErrUserEmailTaken: somebody inserted it since the look.
CreateTaken(s) ==
    /\ pc[s] = "create"
    /\ row[Email(s)] # NoRow
    /\ at' = [at EXCEPT ![s] = @ + 1]
    /\ pc' = [pc EXCEPT ![s] = "look"]
    /\ UNCHANGED <<row, drifted, n, inserted, undisturbed>>

\* Mutant of CreateFails: the row is taken off a count it was never put on.
CreateFailsUncounts(s) ==
    /\ pc[s] = "create"
    /\ pc' = [pc EXCEPT ![s] = "failed"]
    /\ n' = [n EXCEPT ![s] = @ - 1]
    /\ UNCHANGED <<row, drifted, at, inserted, undisturbed>>

\* Any other error ends the run, whether the row was committed or not.
CreateFails(s) ==
    /\ pc[s] = "create"
    /\ InsertRow(s) \/ UNCHANGED <<row, inserted>>
    /\ pc' = [pc EXCEPT ![s] = "failed"]
    /\ UNCHANGED <<drifted, at, n, undisturbed>>

\* The command is killed, or cannot connect or truncate.
Killed(s) ==
    /\ pc[s] \notin {"start", "done", "ended", "failed"}
    /\ pc' = [pc EXCEPT ![s] = "failed"]
    /\ UNCHANGED <<row, drifted, at, n, inserted, undisturbed>>

-----------------------------------------------------------------------------
\* POST /users with a demo address.
ClientCreates(e) ==
    /\ row[e] = NoRow
    /\ row' = [row EXCEPT ![e] = Client]
    /\ UNCHANGED <<drifted, pc, at, n, inserted, undisturbed>>

\* An out-of-band write that the domain refuses to load.
Drift(e) ==
    /\ row[e] # NoRow
    /\ drifted' = drifted \cup {e}
    /\ UNCHANGED <<row, pc, at, n, inserted, undisturbed>>

Run(s) ==
    \/ Reset(s) \/ Connect(s) \/ Look(s) \/ LookFails(s) \/ Create(s) \/ CreateTaken(s)
    \/ CreateFails(s) \/ Killed(s) \/ Finish(s)

SeedingEnvironment == \E e \in Emails : ClientCreates(e) \/ Drift(e)

-----------------------------------------------------------------------------
\* Type invariant of the seeders' state.
SeedingTypeOK ==
    /\ row \in [Emails -> Seeds \cup {Client, NoRow}]
    /\ drifted \subseteq Emails
    /\ pc \in [Seeds -> {"start", "reset", "drop", "connect", "look", "create",
                         "done", "ended", "failed"}]
    /\ at \in [Seeds -> 1..Len(demoUsers) + 1]
    /\ n \in [Seeds -> 0..Len(demoUsers)]
    /\ inserted \in [Seeds -> SUBSET Emails]
    /\ undisturbed \subseteq Seeds

\* A run that succeeds leaves every demo address in the table, whoever inserted
\* it and whatever raced with it, unless the table was wiped since
\* (seeds/users.go:30-53, cli/seed.go:60-68).
DoneIsSeeded ==
    \A s \in undisturbed : pc[s] = "done" => \A e \in Emails : row[e] # NoRow

\* A run that succeeds reports exactly the rows it inserted itself; one that
\* fails counts at most one less than it committed (seeds.go:20-27).
CountIsInserted ==
    \A s \in Seeds :
        \/ n[s] = Cardinality(inserted[s])
        \/ pc[s] = "failed" /\ n[s] + 1 = Cardinality(inserted[s])

=============================================================================
