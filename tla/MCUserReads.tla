----------------------------- MODULE MCUserReads ------------------------------
(* Two users whose times may fall in the same unit of the column or not.     *)
EXTENDS UserReads, TLC

MCSymmetry == Permutations(Users) \cup Permutations(Lists)
=============================================================================
