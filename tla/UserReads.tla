------------------------------- MODULE UserReads -------------------------------
(***************************************************************************)
(* GET /users and GET /users/:id next to the writes that change what they  *)
(* read: users are minted and inserted in two steps, wiped by a truncate,  *)
(* spoilt by out-of-band writes and repaired.                              *)
(*                                                                         *)
(* A user is its identity.  Of a row only what reading it depends on is    *)
(* kept: created_at, and whether the domain loads it.  The clock of the    *)
(* process is finer than the column: Resolution ticks are one unit of it.  *)
(* A 201 shows the time that was minted.                                   *)
(***************************************************************************)
EXTENDS Naturals, Sequences, FiniteSets

CONSTANTS
    Users,          \* the identities that POST /users mints
    Unparsable,     \* path segments that are no UUID
    Lists,          \* the GET /users requests
    Gets,           \* the GET /users/:id requests
    Resolution,     \* clock ticks to one unit of the timestamp column
    MaxClock,       \* bound: the clock stops here
    NoTime          \* no such time

ASSUME ReadsAssumption ==
    /\ Users \cap Unparsable = {} /\ Lists \cap Gets = {}
    /\ Resolution \in Nat \ {0}
    /\ MaxClock \in Nat
    /\ NoTime \notin Nat

VARIABLES
    clock,
    minted,         \* minted[u]: the time NewUser gave u, or NoTime
    inserted,       \* the users whose INSERT was committed
    table,          \* the rows: created_at of each user's, or NoTime, and
                    \* the users whose row the domain refuses to load
    asked,          \* asked[g]: the path segment of get g
    reply,          \* reply[x]: the status of read x, and the users it shows: each
                    \* one's identity and created_at
    saw             \* history: saw[x]: the table that read x got from its query

readsVars == <<clock, minted, inserted, table, asked, reply, saw>>

-----------------------------------------------------------------------------
NoReply     == [status |-> 0, users |-> <<>>]
NothingRead == [createdAt |-> <<>>, drifted |-> {}]

Rows(t) == {u \in Users : t.createdAt[u] # NoTime}

\* Mutant of OrderedRows: no ORDER BY.
UnorderedRows(t) ==
    { s \in [1..Cardinality(Rows(t)) -> Rows(t)] :
        \A i, j \in DOMAIN s : i < j => s[i] # s[j] }

\* ORDER BY created_at: rows of the same time come in any order.
OrderedRows(t) ==
    { s \in [1..Cardinality(Rows(t)) -> Rows(t)] :
        \A i, j \in DOMAIN s :
            i < j => s[i] # s[j] /\ t.createdAt[s[i]] <= t.createdAt[s[j]] }

Init ==
    /\ clock = 0
    /\ minted = [u \in Users |-> NoTime]
    /\ inserted = {}
    /\ table = [createdAt |-> minted, drifted |-> {}]
    /\ asked \in [Gets -> Users \cup Unparsable]
    /\ reply = [x \in Lists \cup Gets |-> NoReply]
    /\ saw = [x \in Lists \cup Gets |-> NothingRead]

-----------------------------------------------------------------------------
Tick ==
    /\ clock < MaxClock
    /\ clock' = clock + 1
    /\ UNCHANGED <<minted, inserted, table, asked, reply, saw>>

\* NewUser reads the clock some time before its row is there.
Mint(u) ==
    /\ minted[u] = NoTime
    /\ minted' = [minted EXCEPT ![u] = clock]
    /\ UNCHANGED <<clock, inserted, table, asked, reply, saw>>

\* Mutant of Insert: created_at is the time of the INSERT.
InsertStamped(u) ==
    /\ minted[u] # NoTime /\ u \notin inserted
    /\ inserted' = inserted \cup {u}
    /\ table' = [table EXCEPT !.createdAt[u] = clock \div Resolution]
    /\ UNCHANGED <<clock, minted, asked, reply, saw>>

\* The column drops what it cannot hold of the time that the 201 shows.
Insert(u) ==
    /\ minted[u] # NoTime /\ u \notin inserted
    /\ inserted' = inserted \cup {u}
    /\ table' = [table EXCEPT !.createdAt[u] = minted[u] \div Resolution]
    /\ UNCHANGED <<clock, minted, asked, reply, saw>>

\* TRUNCATE.
Wipe ==
    /\ table' = [createdAt |-> [u \in Users |-> NoTime], drifted |-> {}]
    /\ UNCHANGED <<clock, minted, inserted, asked, reply, saw>>

\* An out-of-band write that the domain refuses to load, or its repair.
Drift(u) ==
    /\ u \in Rows(table)
    /\ \/ table' = [table EXCEPT !.drifted = @ \cup {u}]
       \/ table' = [table EXCEPT !.drifted = @ \ {u}]
    /\ UNCHANGED <<clock, minted, inserted, asked, reply, saw>>

-----------------------------------------------------------------------------
Reply(x, status, users) ==
    /\ reply[x] = NoReply
    /\ reply' = [reply EXCEPT ![x] = [status |-> status, users |-> users]]
    /\ UNCHANGED <<clock, minted, inserted, table, asked>>

\* The query returned: the answer is made from the table of that moment, each user's
\* from its row (toDomain, ReconstituteUser, toResponse).
Answer(x, status, users) ==
    /\ Reply(x, status, [i \in DOMAIN users |->
                            [id |-> users[i], createdAt |-> table.createdAt[users[i]]]])
    /\ saw' = [saw EXCEPT ![x] = table]

\* Mutant of List: rows that do not load are left out.
ListLoadable(l) ==
    LET loadable == [u \in Users |-> IF u \in table.drifted
                                     THEN NoTime ELSE table.createdAt[u]]
    IN  \E s \in OrderedRows([table EXCEPT !.createdAt = loadable]) : Answer(l, 200, s)

\* One SELECT; then every row of it is loaded, or none is returned.
List(l) ==
    \/ Rows(table) \cap table.drifted = {}
       /\ \E s \in OrderedRows(table) : Answer(l, 200, s)
    \/ Rows(table) \cap table.drifted # {} /\ Answer(l, 500, <<>>)

\* Mutant of Get: a status the API does not have.
GetGone(g) == asked[g] \in Users \ Rows(table) /\ Answer(g, 410, <<>>)

\* First finds the row, or ErrRecordNotFound; then it is loaded.
Get(g) ==
    \/ asked[g] \in Unparsable /\ Reply(g, 400, <<>>) /\ UNCHANGED saw
    \/ asked[g] \in Users \ Rows(table) /\ Answer(g, 404, <<>>)
    \/ asked[g] \in Rows(table) \cap table.drifted /\ Answer(g, 500, <<>>)
    \/ asked[g] \in Rows(table) \ table.drifted /\ Answer(g, 200, <<asked[g]>>)

\* The query fails.
ReadFails(x) ==
    /\ x \in Gets => asked[x] \in Users
    /\ Reply(x, 500, <<>>)
    /\ UNCHANGED saw

Next ==
    \/ Tick \/ Wipe
    \/ \E u \in Users : Mint(u) \/ Insert(u) \/ Drift(u)
    \/ \E l \in Lists : List(l)
    \/ \E g \in Gets : Get(g)
    \/ \E x \in Lists \cup Gets : ReadFails(x)

Spec == Init /\ [][Next]_readsVars

-----------------------------------------------------------------------------
Tables == [createdAt : [Users -> 0..MaxClock \cup {NoTime}],
           drifted : SUBSET Users]

\* Type invariant.
ReadsTypeOK ==
    /\ clock \in 0..MaxClock
    /\ minted \in [Users -> 0..MaxClock \cup {NoTime}]
    /\ inserted \subseteq Users
    /\ table \in Tables
    /\ asked \in [Gets -> Users \cup Unparsable]
    /\ \A x \in Lists \cup Gets :
          /\ reply[x].status \in {0, 200, 400, 404, 500}
          /\ \A i \in DOMAIN reply[x].users :
                reply[x].users[i] \in [id : Users, createdAt : 0..MaxClock]
    /\ saw \in [Lists \cup Gets -> Tables \cup {NothingRead}]

Shown(l) == {reply[l].users[i].id : i \in DOMAIN reply[l].users}

Before(l, u, v) ==
    \E i, j \in DOMAIN reply[l].users :
        i < j /\ reply[l].users[i].id = u /\ reply[l].users[j].id = v

\* A list is all or nothing: with a 200 it shows every user that is stored, and
\* when its query worked but it is a 500 there is one whose row does not load,
\* which a get over the same table refuses too (user_repository.go:28-59).
ListIsWhole ==
    \A l \in Lists :
        /\ reply[l].status = 200 => Shown(l) = Rows(saw[l])
        /\ reply[l].status = 500 /\ saw[l] # NothingRead =>
               \E u \in Rows(saw[l]) : \A g \in Gets :
                   asked[g] = u /\ reply[g] # NoReply /\ saw[g] = saw[l]
                       => reply[g].status = 500

\* Whatever happens between the two, a read shows the created_at of the 201 cut to the
\* column's unit: two reads never differ, and the 201 is less than a unit ahead of them
\* (user_repository.go:85-86).
ReadsShowTheCreates ==
    \A x \in Lists \cup Gets : \A i \in DOMAIN reply[x].users :
        LET shown == reply[x].users[i] IN
        shown.createdAt = minted[shown.id] \div Resolution

\* Two users minted a column unit or more apart are in the same order in every
\* list that shows both, the order they were minted in, whichever was inserted
\* first and whenever the lists were read (user_repository.go:32).
ListsAgree ==
    \A l \in Lists : \A u, v \in Shown(l) :
        minted[u] \div Resolution < minted[v] \div Resolution => Before(l, u, v)

=============================================================================
