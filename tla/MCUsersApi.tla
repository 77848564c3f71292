------------------------------ MODULE MCUsersApi ------------------------------
(* Three requests over two addresses and one body of every kind that the     *)
(* handler treats differently.                                               *)
EXTENDS UsersApi, TLC

CONSTANTS a1, a2

Text(k, p) == [kind |-> k, padded |-> p]

MCBodies ==
    { [email |-> Text(a1, FALSE), name |-> Text("plain", FALSE)],
      [email |-> Text(a1, FALSE), name |-> Text("plain", TRUE)],
      [email |-> Text(a2, FALSE), name |-> Text("plain", FALSE)],
      [email |-> Text(a2, FALSE), name |-> Text("blank", TRUE)],
      [email |-> Text(a1, TRUE), name |-> Text("blank", FALSE)],
      [email |-> Text("quoted", FALSE), name |-> Text("blank", TRUE)],
      [email |-> Text("malformed", FALSE), name |-> Text("plain", FALSE)],
      [email |-> Text("malformed", FALSE), name |-> Text("blank", TRUE)],
      NotJSON }

MCDrifted == { [email |-> Text("malformed", FALSE), name |-> Text("plain", FALSE)],
               [email |-> Text(a1, FALSE), name |-> Text("blank", FALSE)] }

MCSymmetry == Permutations(Requests)
=============================================================================
