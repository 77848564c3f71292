--------------------------- MODULE MCWelcomeService ---------------------------
(* Requests for one address or for two, and every kind of table row.         *)
EXTENDS WelcomeService, TLC

CONSTANTS a1, a2

Plain(e, n) == [email |-> [kind |-> e, padded |-> FALSE],
                name |-> [kind |-> n, padded |-> FALSE]]

MCBodies  == {Plain(a1, "plain"), Plain(a2, "plain")}
MCDrifted == {Plain(a1, "blank")}

MCSymmetry == Permutations(Requests)
=============================================================================
