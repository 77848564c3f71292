--------------------------- MODULE UsersApi_proofs ----------------------------
(***************************************************************************)
(* The safety of POST /users for any set of requests, bodies and           *)
(* out-of-band writes.                                                     *)
(***************************************************************************)
EXTENDS UsersApi, SequenceTheorems, TLAPS

-----------------------------------------------------------------------------
(* What the validations return.                                            *)

\* Both fields' validations return lists of field violations.
LEMMA FieldViolationLists ==
    ASSUME NEW e, NEW n
    PROVE  EmailViolations(e) \in Seq(Violations) /\ NameViolations(n) \in Seq(Violations)
<1>1. /\ <<>> \in Seq(Violations)
      /\ <<FieldViolation("email", "required")>> \in Seq(Violations)
      /\ <<FieldViolation("email", "invalid")>> \in Seq(Violations)
      /\ <<FieldViolation("name", "required")>> \in Seq(Violations)
  BY DEF FieldViolation, Violations
<1>2. EmailViolations(e) \in {<<FieldViolation("email", "required")>>,
                              <<FieldViolation("email", "invalid")>>, <<>>}
  BY DEF EmailViolations
<1>3. NameViolations(n) \in {<<FieldViolation("name", "required")>>, <<>>}
  BY DEF NameViolations
<1> QED
  BY <1>1, <1>2, <1>3

\* So does the validation of a user, and an empty list has no email violation.
LEMMA ValidateUserList ==
    ASSUME NEW e, NEW n
    PROVE  /\ validateUser(e, n) \in Seq(Violations)
           /\ validateUser(e, n) = <<>> => EmailViolations(e) = <<>>
<1> DEFINE es == EmailViolations(e)
           ns == NameViolations(n)
<1>1. es \in Seq(Violations) /\ ns \in Seq(Violations)
  BY FieldViolationLists
<1> HIDE DEF es, ns
<1>2. es \o ns \in Seq(Violations)
  BY <1>1, ConcatProperties
<1>3. es \o ns = <<>> => es = <<>>
  BY <1>1, ConcatEqualIffEmpty
<1> QED
  BY <1>2, <1>3 DEF validateUser, es, ns

\* Binding reports a list of field violations too.
LEMMA BindViolationsList == ASSUME NEW b PROVE BindViolations(b) \in Seq(Violations)
<1> DEFINE empty == [kind |-> "blank", padded |-> FALSE]
           email == CASE b.email = empty -> <<FieldViolation("email", "required")>>
                      [] b.email.padded \/ b.email.kind \in {"local", "malformed"} ->
                             <<FieldViolation("email", "invalid")>>
                      [] OTHER -> <<>>
           name  == IF b.name = empty
                    THEN <<FieldViolation("name", "required")>> ELSE <<>>
<1>1. /\ <<>> \in Seq(Violations)
      /\ <<FieldViolation("email", "required")>> \in Seq(Violations)
      /\ <<FieldViolation("email", "invalid")>> \in Seq(Violations)
      /\ <<FieldViolation("name", "required")>> \in Seq(Violations)
  BY DEF FieldViolation, Violations
<1>2. email \in {<<FieldViolation("email", "required")>>,
                 <<FieldViolation("email", "invalid")>>, <<>>}
  OBVIOUS
<1>3. name \in {<<FieldViolation("name", "required")>>, <<>>}
  OBVIOUS
<1>4. email \in Seq(Violations) /\ name \in Seq(Violations)
  BY <1>1, <1>2, <1>3
<1>5. BindViolations(b) = email \o name
  BY DEF BindViolations
<1> HIDE DEF email, name
<1> QED
  BY <1>4, <1>5, ConcatProperties

-----------------------------------------------------------------------------
(* What a request mints.                                                   *)

\* The body of r is a JSON object.
HasUser(r) == body[r] # NotJSON

\* The factory makes a user of it, validated as it will be when it is loaded.
LEMMA MintedUser ==
    ASSUME NEW r \in Requests, ApiTypeOK, HasUser(r)
    PROVE  /\ Minted(r).user \in User
           /\ Minted(r).violations \in Seq(Violations)
           /\ ReconstituteUser(Minted(r).user) = Minted(r).violations
           /\ Minted(r).violations = <<>> => EmailViolations(Minted(r).user.email) = <<>>
<1>1. body[r] \in User
  BY BodiesAssumption DEF ApiTypeOK, HasUser
<1> DEFINE e == TrimSpace(body[r].email)
           n == TrimSpace(body[r].name)
<1>2. e \in Email /\ n \in Name
  BY <1>1 DEF User, Email, Name, TrimSpace
<1> HIDE DEF e, n
<1>3. Minted(r) = [user |-> [email |-> e, name |-> n], violations |-> validateUser(e, n)]
  BY DEF Minted, NewUser, e, n
<1> QED
  BY <1>2, <1>3, ValidateUserList DEF User, ReconstituteUser

-----------------------------------------------------------------------------
(* The inductive invariant.                                                *)

\* What the position of a request says of its user and its answer.
Progress ==
    \A r \in Requests :
        /\ pc[r] # "done" => response[r] = NoResponse
        /\ pc[r] \in {"unread", "insert"} => r \notin committed
        /\ pc[r] \in {"enqueue", "reply"} => r \in committed
        /\ pc[r] = "insert" \/ r \in committed =>
               HasUser(r) /\ Minted(r).violations = <<>>

\* A row has the email its request minted, or one that the domain refuses.
RowsAreMinted ==
    \A r \in Requests : row[r] # NoRow =>
        /\ r \in committed
        /\ \/ row[r].email = Minted(r).user.email
           \/ EmailViolations(row[r].email) # <<>>

\* What needs no unique index, and so holds while the table has none yet, too.
RequestsInv ==
    /\ ApiTypeOK
    /\ Progress
    /\ RowsAreMinted
    /\ AnswerMatchesStore
    /\ ConflictIsReal
    /\ StoredUserLoads

ApiInv == RequestsInv /\ UniqueEmail

\* Nothing has been read or stored yet.
LEMMA ApiInitInv == ApiInit => ApiInv
  BY DEF ApiInit, ApiInv, RequestsInv, ApiTypeOK, Progress, RowsAreMinted, UniqueEmail,
         AnswerMatchesStore, ConflictIsReal, StoredUserLoads

\* What r minted depends on its body alone.
LEMMA MintedIsStable ==
    ASSUME NEW r, body' = body PROVE Minted(r)' = Minted(r) /\ HasUser(r)' = HasUser(r)
  BY DEF Minted, HasUser

\* A step that answers r and stores nothing keeps the invariant, if the answer
\* is true to the store.
LEMMA RespondInv ==
    ASSUME RequestsInv, NEW r \in Requests, pc[r] # "done", pc[r] # "lost",
           NEW answer \in Envelopes,
           Respond(r, answer), UNCHANGED <<body, row, committed>>,
           answer.status = 201 => r \in committed,
           answer.status \in {400, 409} => r \notin committed,
           answer.status = 409 =>
               \E q \in committed \ {r} : Minted(q).user.email = Minted(r).user.email
    PROVE  RequestsInv'
<1> USE DEF RequestsInv
<1>1. \A q \in Requests : Minted(q)' = Minted(q) /\ HasUser(q)' = HasUser(q)
  BY MintedIsStable
<1>2. /\ pc' = [pc EXCEPT ![r] = "done"]
      /\ response' = [response EXCEPT ![r] = answer]
  BY DEF Respond
<1>3. ApiTypeOK'
  BY <1>2 DEF ApiTypeOK, Envelopes
<1>4. Progress'
  BY <1>1, <1>2 DEF Progress, ApiTypeOK
<1>5. RowsAreMinted' /\ StoredUserLoads'
  BY <1>1 DEF RowsAreMinted, StoredUserLoads
<1>6. AnswerMatchesStore'
  BY <1>2 DEF AnswerMatchesStore, ApiTypeOK
<1>7. ConflictIsReal'
  BY <1>1, <1>2 DEF ConflictIsReal, ApiTypeOK
<1> QED
  BY <1>3, <1>4, <1>5, <1>6, <1>7

\* Every request that is answered, is answered truly.
LEMMA AnswersInv ==
    ASSUME RequestsInv, NEW r \in Requests,
           RejectBody(r) \/ RejectUser(r) \/ InsertTaken(r) \/ InsertFails(r)
               \/ ReplyCreated(r)
    PROVE  RequestsInv'
<1> USE DEF RequestsInv
<1>1. <<>> \in Seq(Violations)
  OBVIOUS
<1>2. CASE RejectBody(r)
  <2>1. PICK fails \in Seq(Violations) :
            Respond(r, InvalidBody(fails)) /\ pc[r] = "unread"
                /\ UNCHANGED <<body, row, committed>>
    BY <1>1, <1>2, BindViolationsList DEF RejectBody
  <2> QED
    BY <2>1, RespondInv DEF InvalidBody, Envelopes, Progress
<1>3. CASE RejectUser(r)
  <2>1. Minted(r).violations \in Seq(Violations)
    BY <1>3, MintedUser DEF RejectUser, HasUser
  <2> QED
    BY <1>3, <2>1, RespondInv DEF RejectUser, InvalidBody, Envelopes, Progress
<1>4. CASE InsertTaken(r)
  <2>1. r \notin committed /\ HasUser(r) /\ EmailViolations(Minted(r).user.email) = <<>>
    BY <1>4, MintedUser DEF InsertTaken, Progress
  <2>2. PICK q \in Requests : row[q] # NoRow /\ row[q].email = Minted(r).user.email
    BY <1>4 DEF InsertTaken, EmailIndexed
  <2>3. q \in committed \ {r} /\ Minted(q).user.email = Minted(r).user.email
    BY <2>1, <2>2 DEF RowsAreMinted
  <2>4. EmailTaken \in Envelopes /\ EmailTaken.status = 409
    BY <1>1 DEF EmailTaken, Envelopes
  <2>5. Respond(r, EmailTaken) /\ pc[r] = "insert" /\ UNCHANGED <<body, row, committed>>
    BY <1>4 DEF InsertTaken
  <2> QED
    BY <2>1, <2>3, <2>4, <2>5, RespondInv
<1>5. CASE InsertFails(r)
  <2>1. InternalError \in Envelopes /\ InternalError.status = 500
    BY <1>1 DEF InternalError, Envelopes
  <2>2. Respond(r, InternalError) /\ pc[r] = "insert" /\ UNCHANGED <<body, row, committed>>
    BY <1>5 DEF InsertFails
  <2> QED
    BY <2>1, <2>2, RespondInv
<1>6. CASE ReplyCreated(r)
  <2>1. Created \in Envelopes /\ Created.status = 201
    BY <1>1 DEF Created, Envelopes
  <2>2. Respond(r, Created) /\ pc[r] = "reply" /\ UNCHANGED <<body, row, committed>>
    BY <1>6 DEF ReplyCreated
  <2> QED
    BY <2>1, <2>2, RespondInv DEF Progress
<1> QED
  BY <1>2, <1>3, <1>4, <1>5, <1>6

\* The row of r keeps what is said of the table.
LEMMA StoreRowInv ==
    ASSUME RequestsInv, NEW r \in Requests, StoreRowUnindexed(r), body' = body,
           HasUser(r), Minted(r).violations = <<>>
    PROVE  /\ row' \in [Requests -> User \cup {NoRow}]
           /\ RowsAreMinted' /\ StoredUserLoads'
<1> USE DEF RequestsInv
<1>1. \A q \in Requests : Minted(q)' = Minted(q)
  BY MintedIsStable
<1>2. /\ row' = [row EXCEPT ![r] = Minted(r).user]
      /\ committed' = committed \cup {r}
  BY DEF StoreRowUnindexed
<1>3. Minted(r).user \in User /\ ReconstituteUser(Minted(r).user) = <<>>
  BY MintedUser
<1>4. row' \in [Requests -> User \cup {NoRow}]
  BY <1>2, <1>3 DEF ApiTypeOK
<1>5. RowsAreMinted'
  BY <1>1, <1>2 DEF RowsAreMinted, ApiTypeOK
<1>6. StoredUserLoads'
  BY <1>2, <1>3 DEF StoredUserLoads, ApiTypeOK
<1> QED
  BY <1>4, <1>5, <1>6

\* An INSERT that commits keeps the invariant, acknowledged or not.
LEMMA InsertInv ==
    ASSUME RequestsInv, NEW r \in Requests,
           pc[r] = "insert", StoreRowUnindexed(r), body' = body,
           \/ pc' = [pc EXCEPT ![r] = "enqueue"] /\ response' = response
           \/ Respond(r, InternalError)
    PROVE  RequestsInv'
<1> USE DEF RequestsInv
<1>1. \A q \in Requests : Minted(q)' = Minted(q) /\ HasUser(q)' = HasUser(q)
  BY MintedIsStable
<1>2. committed' = committed \cup {r}
  BY DEF StoreRowUnindexed
<1>3. r \notin committed /\ HasUser(r) /\ Minted(r).violations = <<>>
  BY DEF Progress
<1>4. /\ row' \in [Requests -> User \cup {NoRow}]
      /\ RowsAreMinted' /\ StoredUserLoads'
  BY <1>3, StoreRowInv
<1>5. CASE pc' = [pc EXCEPT ![r] = "enqueue"] /\ response' = response
  <2>1. ApiTypeOK'
    BY <1>2, <1>4, <1>5 DEF ApiTypeOK
  <2>2. Progress'
    BY <1>1, <1>2, <1>3, <1>5 DEF Progress, ApiTypeOK
  <2>3. AnswerMatchesStore'
    BY <1>2, <1>5 DEF AnswerMatchesStore, Progress
  <2>4. ConflictIsReal'
    BY <1>1, <1>2, <1>5 DEF ConflictIsReal, ApiTypeOK
  <2> QED
    BY <1>4, <2>1, <2>2, <2>3, <2>4
<1>6. CASE Respond(r, InternalError)
  <2>1. /\ pc' = [pc EXCEPT ![r] = "done"]
        /\ response' = [response EXCEPT ![r] = InternalError]
    BY <1>6 DEF Respond
  <2>2. InternalError \in Envelopes /\ InternalError.status = 500
    BY DEF InternalError, Envelopes
  <2>3. ApiTypeOK'
    BY <1>2, <1>4, <2>1, <2>2 DEF ApiTypeOK
  <2>4. Progress'
    BY <1>1, <1>2, <1>3, <2>1 DEF Progress, ApiTypeOK
  <2>5. AnswerMatchesStore'
    BY <1>2, <2>1, <2>2 DEF AnswerMatchesStore, Progress, ApiTypeOK
  <2>6. ConflictIsReal'
    BY <1>1, <1>2, <2>1, <2>2 DEF ConflictIsReal, ApiTypeOK
  <2> QED
    BY <1>4, <2>3, <2>4, <2>5, <2>6
<1> QED
  BY <1>5, <1>6

\* So do the steps that only move requests on, or lose them.
LEMMA MoveInv ==
    ASSUME RequestsInv, ApiDies \/ \E r \in Requests : AcceptUser(r) \/ EnqueueReturns(r)
    PROVE  RequestsInv'
<1> USE DEF RequestsInv
<1>1. UNCHANGED <<body, row, committed, response>>
  BY DEF ApiDies, AcceptUser, EnqueueReturns
<1>2. \A q \in Requests : Minted(q)' = Minted(q) /\ HasUser(q)' = HasUser(q)
  BY <1>1, MintedIsStable
<1>3. RowsAreMinted' /\ AnswerMatchesStore' /\ ConflictIsReal' /\ StoredUserLoads'
  BY <1>1, <1>2 DEF RowsAreMinted, AnswerMatchesStore, ConflictIsReal, StoredUserLoads,
                    ApiTypeOK
<1>4. CASE ApiDies
  BY <1>1, <1>2, <1>3, <1>4 DEF ApiDies, InFlight, ApiTypeOK, Progress
<1>5. CASE \E r \in Requests : AcceptUser(r)
  BY <1>1, <1>2, <1>3, <1>5 DEF AcceptUser, HasUser, ApiTypeOK, Progress
<1>6. CASE \E r \in Requests : EnqueueReturns(r)
  BY <1>1, <1>2, <1>3, <1>6 DEF EnqueueReturns, ApiTypeOK, Progress
<1> QED
  BY <1>4, <1>5, <1>6

\* And the writes of others: a wiped or spoilt row is loaded as what it now is.
LEMMA OtherWritesInv ==
    ASSUME RequestsInv, Truncate \/ \E r \in Requests : OutOfBandWrite(r)
    PROVE  RequestsInv'
<1> USE DEF RequestsInv
<1>1. UNCHANGED <<body, pc, committed, response>>
  BY DEF Truncate, OutOfBandWrite
<1>2. \A q \in Requests : Minted(q)' = Minted(q) /\ HasUser(q)' = HasUser(q)
  BY <1>1, MintedIsStable
<1>3. Progress' /\ AnswerMatchesStore' /\ ConflictIsReal'
  BY <1>1, <1>2 DEF Progress, AnswerMatchesStore, ConflictIsReal, ApiTypeOK
<1>4. CASE Truncate
  BY <1>1, <1>2, <1>3, <1>4 DEF Truncate, ApiTypeOK, RowsAreMinted, StoredUserLoads
<1>5. ASSUME NEW r \in Requests, OutOfBandWrite(r) PROVE RequestsInv'
  <2>1. PICK u \in DriftedUsers :
            /\ u.email = row[r].email \/ EmailViolations(u.email) # <<>>
            /\ row' = [row EXCEPT ![r] = u]
    BY <1>5 DEF OutOfBandWrite
  <2>2. u \in User /\ row[r] # NoRow
    BY <1>5, <2>1, DriftedUsersAssumption DEF OutOfBandWrite
  <2>3. ApiTypeOK'
    BY <1>1, <2>1, <2>2 DEF ApiTypeOK
  <2>4. RowsAreMinted'
    BY <1>1, <1>2, <2>1, <2>2 DEF RowsAreMinted, ApiTypeOK
  <2>5. StoredUserLoads'
    BY <2>1, <2>2 DEF StoredUserLoads, ApiTypeOK
  <2> QED
    BY <1>3, <2>3, <2>4, <2>5
<1> QED
  BY <1>4, <1>5

\* The unique index: what is stored or changed takes no email that another row has.
LEMMA UniqueInv == ASSUME ApiInv, [ApiNext]_apiVars PROVE UniqueEmail'
<1> USE DEF ApiInv, RequestsInv
<1>1. CASE row' = row
  BY <1>1 DEF UniqueEmail
<1>2. ASSUME NEW r \in Requests, StoreRow(r) PROVE UniqueEmail'
  BY <1>2 DEF StoreRow, UniqueEmail, EmailIndexed, ApiTypeOK
<1>3. CASE Truncate
  BY <1>3 DEF Truncate, UniqueEmail
<1>4. ASSUME NEW r \in Requests, OutOfBandWrite(r) PROVE UniqueEmail'
  BY <1>4 DEF OutOfBandWrite, UniqueEmail, ApiTypeOK
<1> QED
  BY <1>1, <1>2, <1>3, <1>4
  DEF ApiNext, ApiStep, apiVars, RejectBody, RejectUser, AcceptUser, InsertTaken,
      InsertCommits, InsertFails, InsertAckLost, EnqueueReturns, ReplyCreated, ApiDies

\* Every step keeps the invariant.
LEMMA ApiNextInv == ASSUME ApiInv, [ApiNext]_apiVars PROVE ApiInv'
<1>1. CASE UNCHANGED apiVars
  <2>1. UNCHANGED <<body, pc, row, committed, response>>
    BY <1>1 DEF apiVars
  <2>2. \A q \in Requests : Minted(q)' = Minted(q) /\ HasUser(q)' = HasUser(q)
    BY <2>1, MintedIsStable
  <2> QED
    BY <2>1, <2>2 DEF ApiInv, RequestsInv, ApiTypeOK, Progress, RowsAreMinted, UniqueEmail,
                      AnswerMatchesStore, ConflictIsReal, StoredUserLoads
<1>2. ASSUME NEW r \in Requests, InsertCommits(r) \/ InsertAckLost(r) PROVE RequestsInv'
  BY <1>2, InsertInv DEF ApiInv, InsertCommits, InsertAckLost, StoreRow, StoreRowUnindexed
<1>3. CASE ApiNext
  BY <1>2, <1>3, AnswersInv, MoveInv, OtherWritesInv, UniqueInv DEF ApiNext, ApiStep, ApiInv
<1> QED
  BY <1>1, <1>3

\* The invariant holds throughout.
THEOREM ApiInvariant == ApiSpec => []ApiInv
  BY ApiInitInv, ApiNextInv, PTL DEF ApiSpec

\* The API's state always has its type.
THEOREM ApiTypeCorrect == ApiSpec => []ApiTypeOK
  BY ApiInvariant, PTL DEF ApiInv, RequestsInv

\* No two rows ever share an email, however creates race with each other, with
\* wipes, with out-of-band writes and with a dying process (user_repository.go:76-88).
THEOREM EmailsStayUnique == ApiSpec => []UniqueEmail
  BY ApiInvariant, PTL DEF ApiInv, RequestsInv

\* A 201, a 400 and a 409 are true to what was committed (handler/users.go:81-104).
THEOREM AnswersAreTrue == ApiSpec => []AnswerMatchesStore
  BY ApiInvariant, PTL DEF ApiInv, RequestsInv

\* A 409 blames an email that another request did commit, though out-of-band
\* writes may have changed that row since (user_repository.go:80-82).
THEOREM ConflictsAreReal == ApiSpec => []ConflictIsReal
  BY ApiInvariant, PTL DEF ApiInv, RequestsInv

\* The API never stores a user it cannot load (domain/user.go:43-73).
THEOREM StoredUsersLoad == ApiSpec => []StoredUserLoads
  BY ApiInvariant, PTL DEF ApiInv, RequestsInv

=============================================================================
