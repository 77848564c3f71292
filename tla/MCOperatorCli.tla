----------------------------- MODULE MCOperatorCli -----------------------------
(* The three demo users, and one environment, file and line of every kind    *)
(* that main tells apart.                                                    *)
EXTENDS OperatorCli, TLC

CONSTANTS alice, bob, carol

MCDemoUsers == <<alice, bob, carol>>

Settings(env, db) == [APP_ENV |-> env, DB_NAME |-> db]

MCShells == { Settings(Unset, Unset), Settings("", Unset), Settings("prod", Unset),
              Settings("prd", "app"), Settings("dev", "") }
MCFiles  == { Settings("dev", "app"), Settings("test", "app") }

Line(c, name, list, reset) ==
    [command |-> c, name |-> name, list |-> list, reset |-> reset]

MCLines == { Line("migrate", "", FALSE, FALSE), Line("db_setup", "", FALSE, FALSE),
             Line("db_reset", "", FALSE, FALSE), Line("seed", "users", FALSE, TRUE),
             Line("seed", "usres", FALSE, TRUE), Line("seed", "", TRUE, TRUE) }

MCInvocations == [shell : MCShells, file : MCFiles, line : MCLines]

MCSymmetry == Permutations(Seeds)
=============================================================================
