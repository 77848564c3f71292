------------------------------ MODULE UserDomain ------------------------------
(***************************************************************************)
(* The User entity of internal/domain: which texts make a valid user, what *)
(* the creation factory stores, and what loading a stored row checks.      *)
(*                                                                         *)
(* A text is abstracted to what the code tells apart: its kind once        *)
(* surrounding white space is removed, and whether there was any.  The     *)
(* empty string is the blank kind without padding, "   " the blank kind    *)
(* with it.  The kinds of an email are                                     *)
(*   a member of Addresses   a well-formed address ("alice@example.com")   *)
(*   "local"      net/mail parses it to itself, but it has no top-level    *)
(*                domain, so the validator's email tag refuses it          *)
(*   "quoted"     the email tag accepts it, but net/mail unquotes the      *)
(*                local part: the parsed Address differs from the text     *)
(*   "malformed"  neither accepts it ("foo", "Foo <foo@example.com>")      *)
(*   "blank"      nothing but white space                                  *)
(***************************************************************************)
EXTENDS Sequences

CONSTANT Addresses      \* the well-formed addresses clients use

ASSUME AddressesAssumption ==
    Addresses \cap {"local", "quoted", "malformed", "blank"} = {}

Email == [kind : Addresses \cup {"local", "quoted", "malformed", "blank"},
          padded : BOOLEAN]
Name  == [kind : {"plain", "blank"}, padded : BOOLEAN]
User  == [email : Email, name : Name]

-----------------------------------------------------------------------------
(* The identity and the timestamps of a user are left to the modules that  *)
(* store it: validation does not look at them.                             *)

TrimSpace(text) == [text EXCEPT !.padded = FALSE]

IsBlank(text) == text.kind = "blank"

\* mail.ParseAddress succeeds and yields exactly the text it was given.
ParsesToItself(email) ==
    /\ email.kind \in Addresses \cup {"local"}
    /\ ~email.padded

FieldViolation(field, message) == [field |-> field, message |-> message]

EmailViolations(email) ==
    CASE IsBlank(email) -> <<FieldViolation("email", "required")>>
      [] ~IsBlank(email) /\ ~ParsesToItself(email) ->
             <<FieldViolation("email", "invalid")>>
      [] OTHER -> <<>>

NameViolations(name) ==
    IF IsBlank(name) THEN <<FieldViolation("name", "required")>> ELSE <<>>

\* Every violation of both fields, the email's first; <<>> is the nil error.
validateUser(email, name) == EmailViolations(email) \o NameViolations(name)

\* Mutant of NewUser: the name is left to the binding's "required".
NewUserOfAnyName(email, name) ==
    LET user == [email |-> TrimSpace(email), name |-> TrimSpace(name)]
    IN  [user |-> user, violations |-> EmailViolations(user.email)]

\* The creation factory: the trimmed texts, and the violations they have.
NewUser(email, name) ==
    LET user == [email |-> TrimSpace(email), name |-> TrimSpace(name)]
    IN  [user |-> user, violations |-> validateUser(user.email, user.name)]

\* Loading a stored user: the same invariants on the texts as they are stored.
ReconstituteUser(user) == validateUser(user.email, user.name)

=============================================================================
