---------------------------- MODULE WelcomePromise ----------------------------
(***************************************************************************)
(* What POST /users promises about an account and its welcome email, seen  *)
(* from outside the process: the email is owed only once the account is    *)
(* committed, and once owed it is sent or given up, for good.  It may be   *)
(* that no email is ever owed: the enqueue is best effort.  An email that  *)
(* is sent again is not told from one that is sent.                        *)
(***************************************************************************)
CONSTANT Accounts

VARIABLES
    created,        \* the accounts that were committed
    mail            \* mail[a]: what became of the welcome email of a

promiseVars == <<created, mail>>

PromiseInit ==
    /\ created = {}
    /\ mail = [a \in Accounts |-> "none"]

Create(a) ==
    /\ a \notin created
    /\ created' = created \cup {a}
    /\ UNCHANGED mail

MailGoesTo(a, from, to) ==
    /\ mail[a] = from
    /\ mail' = [mail EXCEPT ![a] = to]
    /\ UNCHANGED created

Owe(a)     == a \in created /\ MailGoesTo(a, "none", "owed")
Deliver(a) == MailGoesTo(a, "owed", "sent")

\* The end of a process can settle several at once.
GiveUp(lost) ==
    /\ \A a \in lost : mail[a] = "owed"
    /\ mail' = [a \in Accounts |-> IF a \in lost THEN "givenUp" ELSE mail[a]]
    /\ UNCHANGED created

PromiseNext ==
    \/ \E a \in Accounts : Create(a) \/ Owe(a) \/ Deliver(a)
    \/ \E lost \in SUBSET Accounts : GiveUp(lost)

PromiseSpec == PromiseInit /\ [][PromiseNext]_promiseVars

=============================================================================
