----------------------------- MODULE MCMigrations -----------------------------
(* Two migrations, and releases that know one of them, the other or both: a  *)
(* branch with the older timestamp may be merged last.                       *)
EXTENDS Migrations, TLC

MCReleases == {{1}, {1, 2}, {2}}

MCSymmetry == Permutations(Runs)
=============================================================================
