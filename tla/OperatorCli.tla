------------------------------ MODULE OperatorCli ------------------------------
(***************************************************************************)
(* Invocations of cmd/cli by operators, each in an environment of its own, *)
(* against one database: from the configuration it loads and the commands  *)
(* that main registers for it to what it does to the rows of the users     *)
(* table (Seeding).  The tables themselves are Migrations's.               *)
(*                                                                         *)
(* A setting comes from the process's environment, or from the .env file   *)
(* if the environment does not have it, be it empty there.                 *)
(***************************************************************************)
EXTENDS Seeding

CONSTANTS
    Required,       \* the settings that must be there: DB_NAME and its like
    Unset,          \* the value of a setting that is nowhere
    Invocations,    \* what operators do: an environment, a .env file, a line
    NoInvocation    \* nothing has been invoked yet

ASSUME InvocationsAssumption ==
    /\ NoInvocation \notin Invocations
    /\ \A i \in Invocations : {"APP_ENV"} \cup Required = DOMAIN i.shell
                              /\ DOMAIN i.file = DOMAIN i.shell

VARIABLES
    invocation,     \* invocation[s]: what s was invoked as
    wiped           \* history: those that truncated or dropped the users table

cliVars == <<seedingVars, invocation, wiped>>

-----------------------------------------------------------------------------
(* config.Load.                                                            *)

\* Mutant of Getenv: the file overrides the environment.
GetenvOverload(i, key) == IF i.file[key] # Unset THEN i.file[key] ELSE i.shell[key]

\* os.LookupEnv, after godotenv.Load.
Getenv(i, key) == IF i.shell[key] # Unset THEN i.shell[key] ELSE i.file[key]

parseEnv(v) ==
    CASE v \in {Unset, "", "dev"} -> "dev"
      [] v \in {"prod", "test"}   -> v
      [] OTHER                    -> "invalid"

Env(i) == parseEnv(Getenv(i, "APP_ENV"))

\* log.Fatal on an unknown environment, or a required setting that is empty.
Loads(i) ==
    /\ Env(i) # "invalid"
    /\ \A key \in Required : Getenv(i, key) \notin {Unset, ""}

-----------------------------------------------------------------------------
(* main and the seed command, up to the first thing they do to the table.  *)

\* Every environment has the first two; the others are for development.
Registered(env) ==
    {"migrate", "migrate_status"} \cup
    (IF env = "dev" THEN {"db_setup", "db_reset", "generate_migration", "seed"} ELSE {})

\* Mutant of SeedStep: the tables are truncated before the name is looked up.
SeedStepResetFirst(line) ==
    CASE line.list -> "ended"
      [] ~line.list /\ line.reset -> "reset"
      [] ~line.list /\ ~line.reset /\ line.name \notin {"", "users"} -> "failed"
      [] OTHER -> "connect"

\* `seed [name] [--list] [--reset]`; without a name it is all seeders, which is
\* the one.
SeedStep(line) ==
    CASE line.list -> "ended"
      [] ~line.list /\ line.name \notin {"", "users"} -> "failed"
      [] ~line.list /\ line.name \in {"", "users"} /\ line.reset -> "reset"
      [] OTHER -> "connect"

\* Of db_setup and db_reset only what concerns the rows is left: the seeders,
\* and the drop before them.
FirstStep(i) ==
    IF ~Loads(i) \/ i.line.command \notin Registered(Env(i)) THEN "failed"
    ELSE CASE i.line.command = "seed"     -> SeedStep(i.line)
           [] i.line.command = "db_setup" -> "connect"
           [] i.line.command = "db_reset" -> "drop"
           [] OTHER                       -> "ended"

-----------------------------------------------------------------------------
CliInit ==
    /\ SeedingInit
    /\ invocation = [s \in Seeds |-> NoInvocation]
    /\ wiped = {}

Invoke(s) ==
    /\ pc[s] = "start"
    /\ \E i \in Invocations :
          /\ invocation' = [invocation EXCEPT ![s] = i]
          /\ pc' = [pc EXCEPT ![s] = FirstStep(i)]
    /\ UNCHANGED <<row, drifted, at, n, inserted, undisturbed, wiped>>

\* DROP DATABASE, which fails while anybody is connected; the database is there
\* again, and migrated, when the seeders connect.
DropDatabase(s) ==
    /\ pc[s] = "drop" /\ \A q \in Seeds : ~Session(q)
    /\ pc' = [pc EXCEPT ![s] = "connect"]
    /\ Wipe
    /\ wiped' = wiped \cup {s}
    /\ UNCHANGED <<at, n, inserted, invocation>>

RunSeed(s) ==
    /\ Run(s)
    /\ wiped' = IF Reset(s) THEN wiped \cup {s} ELSE wiped
    /\ UNCHANGED invocation

Others == SeedingEnvironment /\ UNCHANGED <<invocation, wiped>>

CliNext == (\E s \in Seeds : Invoke(s) \/ DropDatabase(s) \/ RunSeed(s)) \/ Others

CliSpec == CliInit /\ [][CliNext]_cliVars

-----------------------------------------------------------------------------
\* Type invariant.
CliTypeOK ==
    /\ SeedingTypeOK
    /\ invocation \in [Seeds -> Invocations \cup {NoInvocation}]
    /\ wiped \subseteq Seeds

\* An environment that says prod or test is never wiped or seeded from, whatever
\* a .env file next to it says; nor is one that leaves it to a file that does
\* (config.go:76-95, cmd/cli/main.go:64-75, README.md:137-139).
DestructionIsDevOnly ==
    \A s \in Seeds : s \in wiped \/ inserted[s] # {} =>
        LET i == invocation[s] IN
        /\ i.shell["APP_ENV"] \in {Unset, "", "dev"}
        /\ i.shell["APP_ENV"] = Unset => i.file["APP_ENV"] \in {Unset, "", "dev"}

\* Nothing is wiped by an invocation that does not ask for it, or that cannot go
\* on to seed what it wiped because of a name that is not a seeder's
\* (cli/seed.go:39-66).
WipesAreMeant ==
    \A s \in wiped :
        LET line == invocation[s].line IN
        \/ line.command = "db_reset"
        \/ /\ line.command = "seed" /\ line.reset /\ ~line.list
           /\ line.name \in {"", "users"}

=============================================================================
