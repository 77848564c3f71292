------------------------------- MODULE UsersApi -------------------------------
(***************************************************************************)
(* POST /users from the request body to the response: the handler, the     *)
(* use case and the Postgres repository, for many requests at once against *)
(* one "users" table.  The steps of a request are the ones other requests  *)
(* and other processes can fall between: reading the body, the INSERT, the *)
(* enqueue of the welcome email, the response.                             *)
(*                                                                         *)
(* uuid.New() mints a fresh identity in every call, so the user that a     *)
(* request creates is named by the request.  What the enqueue does to the  *)
(* queue is WelcomeService's: here it returns, and whether it failed makes *)
(* no difference to the request.                                           *)
(***************************************************************************)
EXTENDS UserDomain

CONSTANTS
    Requests,       \* the POST /users requests
    Bodies,         \* the JSON bodies clients send
    NotJSON,        \* a body that is not a JSON object
    DriftedUsers,   \* rows that only an out-of-band UPDATE can leave behind
    NoRow,          \* no row under this identity
    NoResponse      \* nothing has been sent yet

ASSUME BodiesAssumption ==
    /\ Bodies \subseteq User \cup {NotJSON}
    /\ NotJSON \notin User

\* Out-of-band writes that matter are those the domain refuses to load.
ASSUME DriftedUsersAssumption ==
    /\ DriftedUsers \subseteq User
    /\ \A u \in DriftedUsers : ReconstituteUser(u) # <<>>

ASSUME NoRowAssumption == NoRow \notin User

VARIABLES
    body,       \* body[r]: the body of request r, fixed by its client
    pc,         \* pc[r]: where the goroutine serving r is
    row,        \* row[r]: the row of the users table that r inserted
    committed,  \* history: the requests whose INSERT was ever committed
    response    \* response[r]: what the handler wrote for r

apiVars == <<body, pc, row, committed, response>>

-----------------------------------------------------------------------------
(* Binding and responses.                                                  *)

\* The "required,email" and "required" tags of createUserRequest: required
\* refuses only the zero value "", the email tag all that is no plain address.
BindViolations(b) ==
    LET empty == [kind |-> "blank", padded |-> FALSE]
        email == CASE b.email = empty -> <<FieldViolation("email", "required")>>
                   [] b.email.padded \/ b.email.kind \in {"local", "malformed"} ->
                          <<FieldViolation("email", "invalid")>>
                   [] OTHER -> <<>>
        name  == IF b.name = empty
                 THEN <<FieldViolation("name", "required")>> ELSE <<>>
    IN  email \o name

\* The envelopes Create writes: the status, and the field details of a 400.
Created            == [status |-> 201, details |-> <<>>]
\* Mutant of InvalidBody: a status the API does not have.
Unprocessable(fails) == [status |-> 422, details |-> fails]

InvalidBody(fails) == [status |-> 400, details |-> fails]
EmailTaken         == [status |-> 409, details |-> <<>>]
InternalError      == [status |-> 500, details |-> <<>>]

Violations == [field : {"email", "name"}, message : {"required", "invalid"}]
Envelopes  == [status : {201, 400, 409, 500}, details : Seq(Violations)]

\* What uc.Create gets from the factory for the body of r.
Minted(r) == NewUser(body[r].email, body[r].name)

\* The unique index on users.email already holds this address.
EmailIndexed(email) == \E q \in Requests : row[q] # NoRow /\ row[q].email = email

\* The handler is still running for r.
InFlight(r) == pc[r] \in {"insert", "enqueue", "reply"}

-----------------------------------------------------------------------------
(* Every request starts unread; the table is empty.                        *)
ApiInit ==
    /\ body \in [Requests -> Bodies]
    /\ pc = [r \in Requests |-> "unread"]
    /\ row = [r \in Requests |-> NoRow]
    /\ committed = {}
    /\ response = [r \in Requests |-> NoResponse]

\* The handler writes its envelope for r and returns.
Respond(r, envelope) ==
    /\ pc' = [pc EXCEPT ![r] = "done"]
    /\ response' = [response EXCEPT ![r] = envelope]

\* ShouldBindJSON fails.  Details are nil when the body is not even JSON.
RejectBody(r) ==
    /\ pc[r] = "unread"
    /\ \/ body[r] = NotJSON /\ Respond(r, InvalidBody(<<>>))
       \/ /\ body[r] # NotJSON
          /\ BindViolations(body[r]) # <<>>
          /\ Respond(r, InvalidBody(BindViolations(body[r])))
    /\ UNCHANGED <<body, row, committed>>

\* Binding accepts what the domain's factory then refuses.
RejectUser(r) ==
    /\ pc[r] = "unread"
    /\ body[r] # NotJSON
    /\ BindViolations(body[r]) = <<>>
    /\ Minted(r).violations # <<>>
    /\ Respond(r, InvalidBody(Minted(r).violations))
    /\ UNCHANGED <<body, row, committed>>

\* The user is minted; the next thing the use case does is the INSERT.
AcceptUser(r) ==
    /\ pc[r] = "unread"
    /\ body[r] # NotJSON
    /\ BindViolations(body[r]) = <<>>
    /\ Minted(r).violations = <<>>
    /\ pc' = [pc EXCEPT ![r] = "insert"]
    /\ UNCHANGED <<body, row, committed, response>>

\* Mutant of InsertTaken: every error of the INSERT is taken for a duplicate.
InsertErrorIsTaken(r) ==
    /\ pc[r] = "insert"
    /\ Respond(r, EmailTaken)
    /\ UNCHANGED <<body, row, committed>>

\* Postgres reports 23505: ErrUserEmailTaken, a 409.
InsertTaken(r) ==
    /\ pc[r] = "insert"
    /\ EmailIndexed(Minted(r).user.email)
    /\ Respond(r, EmailTaken)
    /\ UNCHANGED <<body, row, committed>>

\* The row of r goes into a table without a unique index: a mutant of StoreRow, and
\* what Deployment's table is for a while.
StoreRowUnindexed(r) ==
    /\ row' = [row EXCEPT ![r] = Minted(r).user]
    /\ committed' = committed \cup {r}

\* The row of r goes into the table, which no unique index forbids.
StoreRow(r) ==
    /\ ~EmailIndexed(Minted(r).user.email)
    /\ row' = [row EXCEPT ![r] = Minted(r).user]
    /\ committed' = committed \cup {r}

InsertCommits(r) ==
    /\ pc[r] = "insert"
    /\ StoreRow(r)
    /\ pc' = [pc EXCEPT ![r] = "enqueue"]
    /\ UNCHANGED <<body, response>>

\* Mutant of InsertFails: the use case goes on after the error.
InsertErrorIgnored(r) ==
    /\ pc[r] = "insert"
    /\ pc' = [pc EXCEPT ![r] = "enqueue"]
    /\ UNCHANGED <<body, row, committed, response>>

\* Any other database error is a 500.  The transaction may have rolled back...
InsertFails(r) ==
    /\ pc[r] = "insert"
    /\ Respond(r, InternalError)
    /\ UNCHANGED <<body, row, committed>>

\* Mutant of InsertAckLost: the INSERT is retried, and meets its own row.
InsertAckLostRetried(r) ==
    /\ pc[r] = "insert"
    /\ StoreRow(r)
    /\ Respond(r, EmailTaken)
    /\ UNCHANGED body

\* ...or committed, when only the acknowledgement of the COMMIT was lost.
InsertAckLost(r) ==
    /\ pc[r] = "insert"
    /\ StoreRow(r)
    /\ Respond(r, InternalError)
    /\ UNCHANGED body

\* EnqueueWelcomeEmail returns, with an error (logged, no more) or without.
EnqueueReturns(r) ==
    /\ pc[r] = "enqueue"
    /\ pc' = [pc EXCEPT ![r] = "reply"]
    /\ UNCHANGED <<body, row, committed, response>>

ReplyCreated(r) ==
    /\ pc[r] = "reply"
    /\ Respond(r, Created)
    /\ UNCHANGED <<body, row, committed>>

\* The process ends, at any moment; its clients see the connection drop.
ApiDies ==
    /\ pc' = [r \in Requests |-> IF InFlight(r) THEN "lost" ELSE pc[r]]
    /\ UNCHANGED <<body, row, committed, response>>

-----------------------------------------------------------------------------
(* What the rest of the world does to the table.                           *)

\* `cli seed --reset` truncates users.
Truncate ==
    /\ row' = [r \in Requests |-> NoRow]
    /\ UNCHANGED <<body, pc, committed, response>>

\* An operator's UPDATE puts a text the domain refuses into a row, and no
\* address into it but the one it has; the unique index holds here too.
OutOfBandWrite(r) ==
    /\ row[r] # NoRow
    /\ \E u \in DriftedUsers :
          /\ u.email = row[r].email \/ EmailViolations(u.email) # <<>>
          /\ \A q \in Requests \ {r} : row[q] # NoRow => row[q].email # u.email
          /\ row' = [row EXCEPT ![r] = u]
    /\ UNCHANGED <<body, pc, committed, response>>

-----------------------------------------------------------------------------
ApiStep(r) ==
    \/ RejectBody(r) \/ RejectUser(r) \/ AcceptUser(r)
    \/ InsertTaken(r) \/ InsertCommits(r) \/ InsertFails(r) \/ InsertAckLost(r)
    \/ EnqueueReturns(r) \/ ReplyCreated(r)

ApiNext ==
    \/ \E r \in Requests : ApiStep(r) \/ OutOfBandWrite(r)
    \/ Truncate
    \/ ApiDies

ApiSpec == ApiInit /\ [][ApiNext]_apiVars

-----------------------------------------------------------------------------
\* Type invariant of the API's state.
ApiTypeOK ==
    /\ body \in [Requests -> Bodies]
    /\ pc \in [Requests -> {"unread", "insert", "enqueue", "reply", "done", "lost"}]
    /\ row \in [Requests -> User \cup {NoRow}]
    /\ committed \subseteq Requests
    /\ response \in [Requests -> Envelopes \cup {NoResponse}]

\* However requests race, two rows never have the same email: the unique index
\* the create_users migration puts on it decides, not the code that looks first
\* (create_users.go:20, user_repository.go:76-88).
UniqueEmail ==
    \A p, q \in Requests :
        row[p] # NoRow /\ row[q] # NoRow /\ row[p].email = row[q].email => p = q

\* What a client is told is what happened to its user: 201 only for one that
\* was committed, 400 and 409 only for one that never was.  A 500 says nothing
\* (handler/users.go:81-104 over user_repository.go:76-88).
AnswerMatchesStore ==
    \A r \in Requests :
        /\ response[r] # NoResponse /\ response[r].status = 201 => r \in committed
        /\ response[r] # NoResponse /\ response[r].status \in {400, 409} =>
               r \notin committed

\* A 409 is never spurious: some other request did store that email, be it one
\* that got no 201 for it (user_repository.go:80-82).
ConflictIsReal ==
    \A r \in Requests :
        response[r] # NoResponse /\ response[r].status = 409 =>
            \E q \in committed \ {r} : Minted(q).user.email = Minted(r).user.email

\* Whatever the API stored it can load again: reconstitution, which does not
\* trim, refuses no row but one that an out-of-band write changed
\* (domain/user.go:43-73).
StoredUserLoads ==
    \A r \in Requests :
        row[r] # NoRow /\ row[r] \notin DriftedUsers => ReconstituteUser(row[r]) = <<>>

\* validation.go:12-13 says of the domain's list of violations that API clients
\* "get the full list rather than one-at-a-time": a 400 for a JSON body names
\* every field the domain would refuse.
FullListReported ==
    \A r \in Requests :
        /\ response[r] # NoResponse /\ response[r].status = 400
        /\ body[r] # NotJSON
        => \A i \in DOMAIN Minted(r).violations :
              \E j \in DOMAIN response[r].details :
                 response[r].details[j].field = Minted(r).violations[i].field

=============================================================================
