----------------------------- MODULE MCDeployment -----------------------------
(* Two commands of releases that know one of two migrations or both -- a     *)
(* branch with the older timestamp may be merged last -- and requests that   *)
(* all send the same address.                                                *)
EXTENDS Deployment, TLC

CONSTANT a1

MCReleases == {{1}, {1, 2}, {2}}

MCBodies == { [email |-> [kind |-> a1, padded |-> FALSE],
               name |-> [kind |-> "plain", padded |-> FALSE]] }

MCSymmetry == Permutations(Runs) \cup Permutations(Requests)
=============================================================================
