---------------------------- MODULE UserReads_proofs ----------------------------
(***************************************************************************)
(* What GET /users and GET /users/:id guarantee, for any users, requests   *)
(* and any resolution of the timestamp column.                             *)
(***************************************************************************)
EXTENDS UserReads, FiniteSetTheorems, TLAPS

-----------------------------------------------------------------------------
(* The inductive invariant.                                                *)

\* A row holds what the column keeps of its user's time, which is minted once; there
\* are finitely many.
RowsAreStamped ==
    /\ IsFiniteSet(inserted)
    /\ \A u \in inserted : minted[u] # NoTime
    /\ \A u \in Rows(table) : /\ u \in inserted
                              /\ table.createdAt[u] = minted[u] \div Resolution

\* Every user that was shown had been minted.
ShownAreMinted ==
    \A x \in Lists \cup Gets : \A i \in DOMAIN reply[x].users :
        minted[reply[x].users[i].id] # NoTime

OldestFirst(users) ==
    /\ DOMAIN users \subseteq Nat
    /\ \A i, j \in DOMAIN users : i < j => users[i].createdAt <= users[j].createdAt

\* Every request has its reply, and a list that was given is oldest first.
ListsAreSorted ==
    /\ DOMAIN reply = Lists \cup Gets
    /\ \A l \in Lists : OldestFirst(reply[l].users)

\* What was answered from a table, it justifies.
AnswersAreJustified ==
    /\ \A x \in Lists \cup Gets : reply[x] = NoReply => saw[x] = NothingRead
    /\ \A l \in Lists :
          /\ reply[l].status = 200 => Shown(l) = Rows(saw[l])
          /\ reply[l].status = 500 /\ saw[l] # NothingRead =>
                 \E u \in Rows(saw[l]) : u \in saw[l].drifted
    /\ \A g \in Gets :
          reply[g] # NoReply /\ saw[g] # NothingRead
          /\ asked[g] \in Rows(saw[g]) /\ asked[g] \in saw[g].drifted
              => reply[g].status = 500

ReadsInv ==
    /\ ReadsTypeOK
    /\ RowsAreStamped
    /\ ShownAreMinted
    /\ ReadsShowTheCreates
    /\ ListsAreSorted
    /\ AnswersAreJustified

-----------------------------------------------------------------------------
(* The operators.                                                          *)

\* What the column keeps of a time is a time, and not a later one.
LEMMA TimeFits ==
    ASSUME NEW a \in 0..MaxClock
    PROVE  a \div Resolution \in 0..MaxClock
<1>1. a \in Nat /\ Resolution \in Nat /\ Resolution > 0 /\ MaxClock \in Nat /\ a <= MaxClock
  BY ReadsAssumption
<1> DEFINE q == a \div Resolution
<1>2. q \in Int /\ Resolution * q <= a /\ a < Resolution * (q + 1)
  BY <1>1, Z3
<1>3. q >= 0
  BY <1>1, <1>2, Z3
<1>4. q <= a
  BY <1>1, <1>2, <1>3, Z3
<1> QED
  BY <1>1, <1>2, <1>3, <1>4

\* A result of the SELECT has every row, and the rows by their time.
LEMMA OrderedRowsAreAll ==
    ASSUME NEW t, IsFiniteSet(Rows(t)), NEW s \in OrderedRows(t)
    PROVE  /\ DOMAIN s \subseteq Nat /\ {s[i] : i \in DOMAIN s} = Rows(t)
           /\ \A i, j \in DOMAIN s : i < j => t.createdAt[s[i]] <= t.createdAt[s[j]]
<1> DEFINE size == Cardinality(Rows(t))
<1>1. size \in Nat
  BY FS_CardinalityType
<1>2. /\ s \in [1..size -> Rows(t)]
      /\ \A i, j \in 1..size :
             i < j => s[i] # s[j] /\ t.createdAt[s[i]] <= t.createdAt[s[j]]
  BY DEF OrderedRows
<1>3. s \in Injection(1..size, Rows(t))
  <2>1. \A i, j \in 1..size : s[i] = s[j] => i = j
    BY <1>1, <1>2
  <2> QED
    BY <1>2, <2>1 DEF Injection, IsInjective
<1>4. Cardinality(1..size) = size
  BY <1>1, FS_Interval
<1>5. s \in Surjection(1..size, Rows(t))
  BY <1>3, <1>4, FS_Injection
<1>6. \A u \in Rows(t) : \E i \in 1..size : s[i] = u
  BY <1>5 DEF Surjection
<1> QED
  BY <1>1, <1>2, <1>6

-----------------------------------------------------------------------------
(* The initial states and the steps.                                       *)

LEMMA InitReads == Init => ReadsInv
<1> SUFFICES ASSUME Init PROVE ReadsInv
  OBVIOUS
<1> USE ReadsAssumption DEF Init
<1>1. \A x \in Lists \cup Gets : reply[x].status = 0 /\ DOMAIN reply[x].users = {}
  BY DEF NoReply
<1>2. Rows(table) = {}
  BY DEF Rows
<1>3. ReadsTypeOK
  BY <1>1 DEF ReadsTypeOK, Tables
<1>4. RowsAreStamped
  BY <1>2, FS_EmptySet DEF RowsAreStamped
<1>5. ShownAreMinted /\ ReadsShowTheCreates
  BY <1>1 DEF ShownAreMinted, ReadsShowTheCreates
<1>6. ListsAreSorted
  BY <1>1 DEF ListsAreSorted, OldestFirst
<1>7. AnswersAreJustified
  BY <1>1 DEF AnswersAreJustified
<1> QED
  BY <1>3, <1>4, <1>5, <1>6, <1>7 DEF ReadsInv

\* What a reader sees depends on its reply, on what was read, and on when its users
\* were minted.
LEMMA ReadersUndisturbed ==
    ASSUME ReadsInv, UNCHANGED <<asked, reply, saw>>,
           \A u \in Users : minted[u] # NoTime => minted'[u] = minted[u]
    PROVE  /\ ShownAreMinted' /\ ReadsShowTheCreates'
           /\ ListsAreSorted' /\ AnswersAreJustified'
<1> USE DEF ReadsInv
<1>1. \A x \in Lists \cup Gets : \A i \in DOMAIN reply[x].users :
          LET u == reply[x].users[i].id IN minted'[u] = minted[u] /\ minted[u] # NoTime
  BY DEF ReadsTypeOK, ShownAreMinted
<1>2. ShownAreMinted'
  BY <1>1 DEF ShownAreMinted
<1>3. ReadsShowTheCreates'
  BY <1>1 DEF ReadsShowTheCreates
<1>4. ListsAreSorted'
  BY DEF ListsAreSorted
<1>5. AnswersAreJustified'
  BY DEF AnswersAreJustified, Shown
<1> QED
  BY <1>2, <1>3, <1>4, <1>5

LEMMA TickKeeps == ASSUME ReadsInv, Tick PROVE ReadsInv'
<1>1. ReadsTypeOK'
  BY ReadsAssumption DEF ReadsInv, ReadsTypeOK, Tick
<1>2. RowsAreStamped'
  BY DEF ReadsInv, RowsAreStamped, Tick
<1> QED
  BY <1>1, <1>2, ReadersUndisturbed DEF ReadsInv, Tick

LEMMA MintKeeps == ASSUME ReadsInv, NEW u \in Users, Mint(u) PROVE ReadsInv'
<1>1. \A v \in Users : minted[v] # NoTime => minted'[v] = minted[v]
  BY DEF ReadsInv, ReadsTypeOK, Mint
<1>2. ReadsTypeOK'
  BY DEF ReadsInv, ReadsTypeOK, Mint
<1>3. RowsAreStamped'
  <2>1. inserted \subseteq Users /\ Rows(table) \subseteq Users
    BY DEF ReadsInv, ReadsTypeOK, Rows
  <2> QED
    BY <1>1, <2>1 DEF ReadsInv, RowsAreStamped, Mint
<1> QED
  BY <1>1, <1>2, <1>3, ReadersUndisturbed DEF ReadsInv, Mint

LEMMA InsertKeeps == ASSUME ReadsInv, NEW u \in Users, Insert(u) PROVE ReadsInv'
<1> USE DEF ReadsInv, Insert
<1>1. minted[u] \in 0..MaxClock
  BY DEF ReadsTypeOK
<1>2. minted[u] \div Resolution \in 0..MaxClock
  BY <1>1, TimeFits
<1>3. ReadsTypeOK'
  BY <1>2 DEF ReadsTypeOK, Tables
<1>4. table'.createdAt = [table.createdAt EXCEPT ![u] = minted[u] \div Resolution]
  BY DEF ReadsTypeOK, Tables
<1>5. RowsAreStamped'
  <2>1. \A v \in Users : table'.createdAt[v] = IF v = u THEN minted[u] \div Resolution
                                                      ELSE table.createdAt[v]
    BY <1>4 DEF ReadsTypeOK, Tables
  <2>2. Rows(table)' \subseteq Rows(table) \cup {u}
    BY <2>1 DEF Rows
  <2>3. \A v \in Rows(table)' : v \in Users
    BY DEF Rows
  <2>4. IsFiniteSet(inserted')
    BY FS_AddElement DEF RowsAreStamped
  <2>5. \A v \in inserted' : minted'[v] # NoTime
    BY DEF RowsAreStamped
  <2>6. \A v \in Rows(table)' : v \in inserted'
                                /\ table'.createdAt[v] = minted'[v] \div Resolution
    BY <2>1, <2>2, <2>3 DEF RowsAreStamped
  <2> QED
    BY <2>4, <2>5, <2>6 DEF RowsAreStamped
<1> QED
  BY <1>3, <1>5, ReadersUndisturbed

LEMMA WipeKeeps == ASSUME ReadsInv, Wipe PROVE ReadsInv'
<1>1. ReadsTypeOK'
  BY DEF ReadsInv, ReadsTypeOK, Wipe, Tables
<1>2. RowsAreStamped'
  <2>1. Rows(table)' = {}
    BY DEF Wipe, Rows
  <2> QED
    BY <2>1 DEF ReadsInv, RowsAreStamped, Wipe
<1> QED
  BY <1>1, <1>2, ReadersUndisturbed DEF ReadsInv, Wipe

LEMMA DriftKeeps == ASSUME ReadsInv, NEW u \in Users, Drift(u) PROVE ReadsInv'
<1>1. ReadsTypeOK'
  BY DEF ReadsInv, ReadsTypeOK, Drift, Tables
<1>2. RowsAreStamped'
  <2>1. table'.createdAt = table.createdAt
    BY DEF ReadsInv, ReadsTypeOK, Drift, Tables
  <2>2. Rows(table)' = Rows(table)
    BY <2>1 DEF Rows
  <2> QED
    BY <2>1, <2>2 DEF ReadsInv, RowsAreStamped, Drift
<1> QED
  BY <1>1, <1>2, ReadersUndisturbed DEF ReadsInv, Drift

-----------------------------------------------------------------------------
(* The answers.                                                            *)

\* These users are shown as the rows of the table have them.
FromRows(users) ==
    \A i \in DOMAIN users :
        /\ users[i] \in [id : Rows(table), createdAt : 0..MaxClock]
        /\ users[i].createdAt = table.createdAt[users[i].id]

\* A list of these users, and a get, with this status is what the table t allows.
ListFits(status, users, t) ==
    /\ status = 200 => {users[i].id : i \in DOMAIN users} = Rows(t)
    /\ status = 500 /\ t # NothingRead => \E u \in Rows(t) : u \in t.drifted

GetFits(g, status, t) ==
    t # NothingRead /\ asked[g] \in Rows(t) /\ asked[g] \in t.drifted => status = 500

\* x gets this reply, and nothing else changes but what it saw.
Gives(x, status, users) ==
    /\ reply' = [reply EXCEPT ![x] = [status |-> status, users |-> users]]
    /\ saw' = saw \/ saw' = [saw EXCEPT ![x] = table]
    /\ UNCHANGED <<clock, minted, inserted, table, asked>>

\* The reply to a read keeps the invariant if what it shows are rows of the table,
\* oldest first in a list, and it fits what the read saw.
LEMMA Answered ==
    ASSUME ReadsInv,
           NEW x \in Lists \cup Gets, NEW status \in {200, 400, 404, 500}, NEW users,
           Gives(x, status, users), FromRows(users),
           x \in Lists => OldestFirst(users) /\ ListFits(status, users, saw'[x]),
           x \in Gets => GetFits(x, status, saw'[x])
    PROVE  ReadsInv'
<1> USE DEF ReadsInv, Gives
<1>1. /\ DOMAIN reply' = Lists \cup Gets
      /\ reply'[x].status = status /\ reply'[x].users = users
      /\ \A y \in Lists \cup Gets : y # x => reply'[y] = reply[y] /\ saw'[y] = saw[y]
  BY DEF ListsAreSorted, ReadsTypeOK
<1>2. \A i \in DOMAIN users :
          /\ users[i] \in [id : Users, createdAt : 0..MaxClock]
          /\ minted[users[i].id] # NoTime
          /\ users[i].createdAt = minted[users[i].id] \div Resolution
  BY DEF FromRows, RowsAreStamped, Rows
<1>3. reply'[x] # NoReply
  BY <1>1 DEF NoReply
<1>4. ReadsTypeOK'
  <2>1. \A y \in Lists \cup Gets :
            /\ reply'[y].status \in {0, 200, 400, 404, 500}
            /\ \A i \in DOMAIN reply'[y].users :
                   reply'[y].users[i] \in [id : Users, createdAt : 0..MaxClock]
    BY <1>1, <1>2 DEF ReadsTypeOK
  <2>2. saw' \in [Lists \cup Gets -> Tables \cup {NothingRead}]
    BY DEF ReadsTypeOK
  <2> QED
    BY <2>1, <2>2 DEF ReadsTypeOK
<1>5. RowsAreStamped'
  <2>1. Rows(table)' = Rows(table)
    BY DEF Rows
  <2> QED
    BY <2>1 DEF RowsAreStamped
<1>6. ShownAreMinted'
  BY <1>1, <1>2 DEF ShownAreMinted
<1>7. ReadsShowTheCreates'
  BY <1>1, <1>2 DEF ReadsShowTheCreates
<1>8. ListsAreSorted'
  BY <1>1 DEF ListsAreSorted
<1>9. AnswersAreJustified'
  <2>1. ASSUME NEW y \in Lists \cup Gets, reply'[y] = NoReply
        PROVE  saw'[y] = NothingRead
    BY <1>1, <1>3, <2>1 DEF AnswersAreJustified
  <2>2. ASSUME NEW l \in Lists
        PROVE  /\ reply'[l].status = 200 => Shown(l)' = Rows(saw'[l])
               /\ reply'[l].status = 500 /\ saw'[l] # NothingRead =>
                      \E u \in Rows(saw'[l]) : u \in saw'[l].drifted
    <3>1. CASE l = x
      <4>1. Shown(l)' = {users[i].id : i \in DOMAIN users}
        BY <1>1, <3>1 DEF Shown
      <4> QED
        BY <1>1, <3>1, <4>1 DEF ListFits
    <3>2. CASE l # x
      <4>1. Shown(l)' = Shown(l) /\ reply'[l] = reply[l] /\ saw'[l] = saw[l]
        BY <1>1, <3>2 DEF Shown
      <4> QED
        BY <4>1 DEF AnswersAreJustified
    <3> QED
      BY <3>1, <3>2
  <2>3. ASSUME NEW g \in Gets, reply'[g] # NoReply, saw'[g] # NothingRead,
               asked'[g] \in Rows(saw'[g]), asked'[g] \in saw'[g].drifted
        PROVE  reply'[g].status = 500
    BY <1>1, <2>3 DEF AnswersAreJustified, GetFits
  <2> QED
    BY <2>1, <2>2, <2>3 DEF AnswersAreJustified
<1> QED
  BY <1>4, <1>5, <1>6, <1>7, <1>8, <1>9

\* A read that shows nobody, and saw nothing or only what its status says.
LEMMA AnsweredEmpty ==
    ASSUME ReadsInv,
           NEW x \in Lists \cup Gets, NEW status \in {400, 404, 500},
           reply[x] = NoReply, Gives(x, status, <<>>),
           \/ saw' = saw
           \/ /\ x \in Lists => status = 500 /\ Rows(table) \cap table.drifted # {}
              /\ x \in Gets => GetFits(x, status, table)
    PROVE  ReadsInv'
<1>1. saw[x] = NothingRead /\ x \in DOMAIN saw
  BY DEF ReadsInv, AnswersAreJustified, ReadsTypeOK
<1>2. FromRows(<<>>) /\ OldestFirst(<<>>)
  BY DEF FromRows, OldestFirst
<1>3. CASE saw' = saw
  <2>1. ListFits(status, <<>>, saw'[x]) /\ GetFits(x, status, saw'[x])
    BY <1>1, <1>3 DEF ListFits, GetFits
  <2> QED
    BY <1>2, <2>1, Answered
<1>4. CASE /\ saw' # saw
           /\ x \in Lists => status = 500 /\ Rows(table) \cap table.drifted # {}
           /\ x \in Gets => GetFits(x, status, table)
  <2>1. saw'[x] = table
    BY <1>1, <1>4 DEF Gives
  <2>2. x \in Lists => ListFits(status, <<>>, saw'[x])
    BY <1>4, <2>1 DEF ListFits
  <2>3. x \in Gets => GetFits(x, status, saw'[x])
    BY <1>4, <2>1
  <2> QED
    BY <1>2, <2>2, <2>3, Answered
<1> QED
  BY <1>3, <1>4

\* The answers without a user.
LEMMA AnswerGives ==
    ASSUME NEW x, NEW status
    PROVE  /\ Reply(x, status, <<>>) /\ UNCHANGED saw => Gives(x, status, <<>>)
           /\ Answer(x, status, <<>>) => Gives(x, status, <<>>)
           /\ Reply(x, status, <<>>) \/ Answer(x, status, <<>>) => reply[x] = NoReply
<1>1. [i \in DOMAIN <<>> |-> [id |-> <<>>[i], createdAt |-> table.createdAt[<<>>[i]]]] = <<>>
  OBVIOUS
<1> QED
  BY <1>1 DEF Reply, Answer, Gives

LEMMA ListKeeps == ASSUME ReadsInv, NEW l \in Lists, List(l) PROVE ReadsInv'
<1> l \notin Gets
  BY ReadsAssumption
<1>1. ASSUME NEW s \in OrderedRows(table), Answer(l, 200, s) PROVE ReadsInv'
  <2>1. IsFiniteSet(Rows(table))
    <3>1. Rows(table) \subseteq inserted
      BY DEF ReadsInv, RowsAreStamped
    <3> QED
      BY <3>1, FS_Subset DEF ReadsInv, RowsAreStamped
  <2>2. /\ DOMAIN s \subseteq Nat /\ {s[i] : i \in DOMAIN s} = Rows(table)
        /\ \A i, j \in DOMAIN s :
               i < j => table.createdAt[s[i]] <= table.createdAt[s[j]]
    BY <2>1, OrderedRowsAreAll
  <2> DEFINE users == [i \in DOMAIN s |->
                          [id |-> s[i], createdAt |-> table.createdAt[s[i]]]]
  <2>3. Gives(l, 200, users)
    BY <1>1 DEF Answer, Reply, Gives
  <2>4. saw'[l] = table
    BY <1>1 DEF ReadsInv, ReadsTypeOK, Answer
  <2>5. /\ DOMAIN users = DOMAIN s
        /\ \A i \in DOMAIN s :
               users[i] = [id |-> s[i], createdAt |-> table.createdAt[s[i]]]
    OBVIOUS
  <2> HIDE DEF users
  <2>6. FromRows(users)
    <3>1. \A u \in Rows(table) : table.createdAt[u] \in 0..MaxClock
      BY DEF ReadsInv, ReadsTypeOK, Tables, Rows
    <3> QED
      BY <2>2, <2>5, <3>1 DEF FromRows
  <2>7. OldestFirst(users)
    BY <2>2, <2>5 DEF OldestFirst
  <2>8. ListFits(200, users, saw'[l])
    <3>1. {users[i].id : i \in DOMAIN users} = {s[i] : i \in DOMAIN s}
      BY <2>5
    <3> QED
      BY <2>2, <2>4, <3>1 DEF ListFits
  <2> QED
    BY <2>3, <2>6, <2>7, <2>8, Answered
<1>2. ASSUME Rows(table) \cap table.drifted # {}, Answer(l, 500, <<>>) PROVE ReadsInv'
  BY <1>2, AnswerGives, AnsweredEmpty
<1> QED
  BY <1>1, <1>2 DEF List

LEMMA GetKeeps == ASSUME ReadsInv, NEW g \in Gets, Get(g) PROVE ReadsInv'
<1> g \notin Lists
  BY ReadsAssumption
<1>1. CASE asked[g] \in Unparsable /\ Reply(g, 400, <<>>) /\ UNCHANGED saw
  BY <1>1, AnswerGives, AnsweredEmpty
<1>2. CASE asked[g] \in Users \ Rows(table) /\ Answer(g, 404, <<>>)
  <2>1. GetFits(g, 404, table)
    BY <1>2 DEF GetFits
  <2> QED
    BY <1>2, <2>1, AnswerGives, AnsweredEmpty
<1>3. CASE asked[g] \in Rows(table) \cap table.drifted /\ Answer(g, 500, <<>>)
  <2>1. GetFits(g, 500, table)
    BY DEF GetFits
  <2> QED
    BY <1>3, <2>1, AnswerGives, AnsweredEmpty
<1>4. CASE asked[g] \in Rows(table) \ table.drifted /\ Answer(g, 200, <<asked[g]>>)
  <2> DEFINE u == asked[g]
             users == [i \in DOMAIN <<u>> |->
                          [id |-> <<u>>[i], createdAt |-> table.createdAt[<<u>>[i]]]]
  <2>1. Gives(g, 200, users)
    BY <1>4 DEF Answer, Reply, Gives
  <2>2. saw'[g] = table
    BY <1>4 DEF ReadsInv, ReadsTypeOK, Answer
  <2>3. /\ DOMAIN users = {1}
        /\ users[1] = [id |-> u, createdAt |-> table.createdAt[u]]
    OBVIOUS
  <2>4. table.createdAt[u] \in 0..MaxClock
    BY <1>4 DEF ReadsInv, ReadsTypeOK, Tables, Rows
  <2> HIDE DEF users
  <2>5. FromRows(users)
    BY <1>4, <2>3, <2>4 DEF FromRows
  <2>6. GetFits(g, 200, saw'[g])
    BY <1>4, <2>2 DEF GetFits
  <2> QED
    BY <2>1, <2>5, <2>6, Answered
<1> QED
  BY <1>1, <1>2, <1>3, <1>4 DEF Get

LEMMA ReadFailsKeeps ==
    ASSUME ReadsInv, NEW x \in Lists \cup Gets, ReadFails(x) PROVE ReadsInv'
  BY AnswerGives, AnsweredEmpty DEF ReadFails

LEMMA StepReads == ReadsInv /\ [Next]_readsVars => ReadsInv'
<1> SUFFICES ASSUME ReadsInv, [Next]_readsVars PROVE ReadsInv'
  OBVIOUS
<1>1. CASE UNCHANGED readsVars
  BY <1>1 DEF readsVars, ReadsInv, ReadsTypeOK, RowsAreStamped, Rows, ShownAreMinted,
              ReadsShowTheCreates, ListsAreSorted, AnswersAreJustified, Shown
<1>2. CASE Tick
  BY <1>2, TickKeeps
<1>3. CASE Wipe
  BY <1>3, WipeKeeps
<1>4. ASSUME NEW u \in Users, Mint(u) \/ Insert(u) \/ Drift(u) PROVE ReadsInv'
  BY <1>4, MintKeeps, InsertKeeps, DriftKeeps
<1>5. ASSUME NEW l \in Lists, List(l) PROVE ReadsInv'
  BY <1>5, ListKeeps
<1>6. ASSUME NEW g \in Gets, Get(g) PROVE ReadsInv'
  BY <1>6, GetKeeps
<1>7. ASSUME NEW x \in Lists \cup Gets, ReadFails(x) PROVE ReadsInv'
  BY <1>7, ReadFailsKeeps
<1> QED
  BY <1>1, <1>2, <1>3, <1>4, <1>5, <1>6, <1>7 DEF Next

-----------------------------------------------------------------------------
\* The inductive invariant holds in every reachable state.
THEOREM ReadsInvariant == Spec => []ReadsInv
  BY InitReads, StepReads, PTL DEF Spec

\* Every variable keeps its type; a read answers with a status the API has, and shows
\* identities with times.
THEOREM ReadsTypeCorrect == Spec => []ReadsTypeOK
<1>1. ReadsInv => ReadsTypeOK
  BY DEF ReadsInv
<1> QED
  BY <1>1, ReadsInvariant, PTL

\* List answers with every row its SELECT returned or with none, and a list that was
\* refused for a row is matched by the refusal of that row's get.
THEOREM ListsAreWhole == Spec => []ListIsWhole
<1>1. ReadsInv => ListIsWhole
  BY DEF ReadsInv, AnswersAreJustified, ListIsWhole
<1> QED
  BY <1>1, ReadsInvariant, PTL

\* What a read shows as created_at is the time the 201 showed, cut to the column's
\* unit, whatever was written, wiped or repaired in between.
THEOREM ReadsAreFaithful == Spec => []ReadsShowTheCreates
<1>1. ReadsInv => ReadsShowTheCreates
  BY DEF ReadsInv
<1> QED
  BY <1>1, ReadsInvariant, PTL

\* ORDER BY created_at: lists given at any two times show two users whose stamps
\* differ in the same order.
THEOREM ListsAreStable == Spec => []ListsAgree
<1>1. ReadsInv => ListsAgree
  <2> SUFFICES ASSUME ReadsInv, NEW l \in Lists,
                      NEW i \in DOMAIN reply[l].users, NEW j \in DOMAIN reply[l].users,
                      minted[reply[l].users[i].id] \div Resolution
                          < minted[reply[l].users[j].id] \div Resolution
               PROVE  i < j
    BY DEF ListsAgree, Before, Shown
  <2>1. i \in Nat /\ j \in Nat
    BY DEF ReadsInv, ListsAreSorted, OldestFirst
  <2>2. /\ reply[l].users[i].createdAt \in Nat /\ reply[l].users[j].createdAt \in Nat
        /\ reply[l].users[i].createdAt < reply[l].users[j].createdAt
    BY DEF ReadsInv, ReadsTypeOK, ReadsShowTheCreates
  <2>3. j < i => reply[l].users[j].createdAt <= reply[l].users[i].createdAt
    BY DEF ReadsInv, ListsAreSorted, OldestFirst
  <2>4. i # j
    BY <2>2
  <2> QED
    BY <2>1, <2>2, <2>3, <2>4
<1> QED
  BY <1>1, ReadsInvariant, PTL

=============================================================================
