------------------------------ MODULE Deployment ------------------------------
(***************************************************************************)
(* The API (UsersApi) serving POST /users from the database that operators *)
(* migrate, set up and reset meanwhile (Migrations).  Nothing in the API   *)
(* looks whether its schema is there: an INSERT finds out.  The users      *)
(* table stands between two statements of the migration -- CREATE TABLE    *)
(* and CREATE UNIQUE INDEX -- and the API may write to it there.  The rows *)
(* that seeders write are left out.                                        *)
(***************************************************************************)
EXTENDS Migrations, UsersApi

CONSTANT CreateUsers        \* the migration that creates the users table

ASSUME CreateUsersAssumption == CreateUsers \in UNION Releases

deploymentVars == <<vars, apiVars>>

-----------------------------------------------------------------------------
UsersTable   == exists /\ CreateUsers \in tables
UsersIndexed == CreateUsers \in indexes

\* Two rows share an email.
Duplicated ==
    \E p, q \in Requests :
        p # q /\ row[p] # NoRow /\ row[q] # NoRow /\ row[p].email = row[q].email

DeploymentInit == Init /\ ApiInit

\* Mutant of Operate: the index the migration creates is not unique.
OperatePlainIndex(c) ==
    /\ Command(c)
    /\ IF exists /\ ~exists' THEN Truncate ELSE UNCHANGED apiVars

\* A command, seen from the users table: DROP DATABASE takes the rows along, and
\* CREATE UNIQUE INDEX fails -- no step but CutShort is left -- on a table that
\* holds duplicates, unless the index is there.
Operate(c) ==
    /\ Command(c)
    /\ step[c] = "index" /\ step'[c] = "record" /\ Current(c) = CreateUsers =>
           UsersIndexed \/ ~Duplicated
    /\ IF exists /\ ~exists' THEN Truncate ELSE UNCHANGED apiVars

\* The API's connections, and the end of its process with all it has.
Connections == (PoolOpens \/ PoolCloses) /\ UNCHANGED apiVars

ApiEnds == ApiDies /\ (PoolCloses \/ (~pool /\ UNCHANGED vars))

\* The INSERT needs a connection and the table; without the unique index nothing
\* is ever a duplicate.
Insert(r) ==
    /\ \/ InsertFails(r)
       \/ /\ pool /\ UsersTable /\ UsersIndexed
          /\ InsertTaken(r) \/ InsertCommits(r) \/ InsertAckLost(r)
       \/ /\ pool /\ UsersTable /\ ~UsersIndexed
          /\ pc[r] = "insert"
          /\ StoreRowUnindexed(r)
          /\ \/ pc' = [pc EXCEPT ![r] = "enqueue"] /\ UNCHANGED response
             \/ Respond(r, InternalError)
          /\ UNCHANGED body
    /\ UNCHANGED vars

Attend(r) ==
    /\ RejectBody(r) \/ RejectUser(r) \/ AcceptUser(r)
       \/ EnqueueReturns(r) \/ ReplyCreated(r)
    /\ UNCHANGED vars

DeploymentNext ==
    \/ \E c \in Runs : Operate(c)
    \/ \E r \in Requests : Insert(r) \/ Attend(r)
    \/ Connections \/ ApiEnds

DeploymentSpec == DeploymentInit /\ [][DeploymentNext]_deploymentVars

-----------------------------------------------------------------------------
\* Type invariant of both parts.
DeploymentTypeOK == TypeOK /\ ApiTypeOK

\* Once a database is recorded as migrated its emails are unique, whatever the
\* API wrote to the table before it had its index (create_users.go:20).
RecordedIsUnique == CreateUsers \in tracked => UniqueEmail

=============================================================================
