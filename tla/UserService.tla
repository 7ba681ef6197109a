----------------------------- MODULE UserService -----------------------------
(***************************************************************************)
(* The handlers behind /register, /login and /users/{id}                   *)
(* (src/src/handlers/register_handler.rs, login_handler.rs and             *)
(* user_handler.rs), as processes that share the MySQL table `users`.      *)
(*                                                                         *)
(* A handler is a sequence of SQL statements with awaits between them and  *)
(* no transaction around them: each statement is atomic, the statements of *)
(* different requests interleave.  A statement whose result never reaches  *)
(* the handler (the connection breaks, or the client leaves and the        *)
(* handler's future is dropped at its await) may take effect at once,      *)
(* later or never.  Names, timestamps and wording are left out.            *)
(***************************************************************************)
EXTENDS Integers, Functions, FiniteSets

CONSTANTS
  Requests,    \* the requests; each is one call of one handler
  Ids,         \* AUTO_INCREMENT values
  Emails,      \* addresses, trimmed and in lower case
  Typed,       \* addresses as a client may type them
  Canonical,   \* Typed -> Emails: `trim().to_lowercase()`
  Passwords,   \* a hash is named by the password it verifies
  WellFormed,  \* the texts that pass the schemas' `validate`
  Absent,      \* a field the payload does not have
  Payloads,    \* what clients may send
  Tables       \* the tables the service may start from

Ops == {"register", "store", "login", "show", "update", "destroy"}

Payload == [op : Ops, id : Ids \cup {Absent}, email : Typed \cup {Absent},
            password : Passwords \cup {Absent}]

Rows == [email : Emails, password : Passwords]

\* The unique index ux_users_email.
UniqueEmails(table) ==
  \A i, j \in DOMAIN table : table[i].email = table[j].email => i = j

ASSUME ServiceAssumption ==
  /\ Canonical \in [Typed -> Emails]
  /\ Absent \notin Ids \cup Emails \cup Typed \cup Passwords
  /\ Payloads \subseteq Payload
  /\ \A q \in Payloads :
       /\ q.op \in {"register", "store", "login"} =>
            q.email # Absent /\ q.password # Absent
       /\ q.op \in {"show", "update", "destroy"} => q.id # Absent
  /\ \A t \in Tables :
       /\ DOMAIN t \subseteq Ids
       /\ t \in [DOMAIN t -> Rows]
       /\ UniqueEmails(t)

VARIABLES
  users,   \* the table: id |-> [email, password]
  spent,   \* the ids AUTO_INCREMENT has given out; it gives none out twice
  asked,   \* request |-> its payload
  at,      \* request |-> the statement it is about to execute
  row,     \* request |-> the id it inserted, or looked up for a login
  secret,  \* request |-> the hash its login read
  status,  \* request |-> the status code it answered, or 0
  carried  \* history: the requests whose write took effect

table == <<users, spent, carried>>
locals == <<row, secret>>
vars == <<table, locals, asked, at, status>>

Unasked == [op |-> "show", id |-> Absent, email |-> Absent, password |-> Absent]

Statements == {"exists", "hash", "insert", "read back", "look up", "verify",
               "select", "update", "delete"}

\* The types of the variables: above all, the table only ever holds addresses in
\* their normalised form, whichever handler wrote them.
TypeOK ==
  /\ spent \subseteq Ids
  /\ DOMAIN users \subseteq spent
  /\ users \in [DOMAIN users -> Rows]
  /\ asked \in [Requests -> Payload]
  /\ at \in [Requests -> Statements \cup {"idle", "adrift", "end"}]
  /\ row \in [Requests -> Ids \cup {Absent}]
  /\ secret \in [Requests -> Passwords \cup {Absent}]
  /\ status \in [Requests -> {0, 200, 201, 400, 401, 404, 409, 500}]
  /\ carried \subseteq Requests

Init ==
  /\ users \in Tables
  /\ spent = DOMAIN users
  /\ asked = [r \in Requests |-> Unasked]
  /\ at = [r \in Requests |-> "idle"]
  /\ row = [r \in Requests |-> Absent]
  /\ secret = [r \in Requests |-> Absent]
  /\ status = [r \in Requests |-> 0]
  /\ carried = {}

-----------------------------------------------------------------------------
(* Helpers                                                                 *)

\* A mutation: addresses are kept and compared as typed.
AsTyped(e) == e

Normalise(e) == Canonical[e]

\* validate_payload(); show and destroy have no payload.
Valid(q) ==
  q.op \in {"show", "destroy"}
  \/ {q.email, q.password} \subseteq WellFormed \cup {Absent}

FirstStatement(op) ==
  CASE op = "register" -> "exists"
    [] op = "store"    -> "hash"
    [] op = "login"    -> "look up"
    [] op = "show"     -> "select"
    [] op = "update"   -> "update"
    [] op = "destroy"  -> "delete"

Moves(r, statement) ==
  /\ at' = [at EXCEPT ![r] = statement]
  /\ UNCHANGED status

Answers(r, code) ==
  /\ at' = [at EXCEPT ![r] = "end"]
  /\ status' = [status EXCEPT ![r] = code]

Holders(e) == {i \in DOMAIN users : users[i].email = e}

\* `email = COALESCE(?, email)`
NewEmail(r) ==
  IF asked[r].email = Absent THEN users[asked[r].id].email
  ELSE Normalise(asked[r].email)

\* The three writes.  The update leaves the password column alone.
InsertRow(r, i) ==
  /\ Holders(Normalise(asked[r].email)) = {}
  /\ i \notin spent
  /\ spent' = spent \cup {i}
  /\ users' = [j \in DOMAIN users \cup {i} |->
                 IF j = i THEN [email |-> Normalise(asked[r].email),
                                password |-> asked[r].password]
                 ELSE users[j]]
  /\ carried' = carried \cup {r}

UpdateRow(r) ==
  /\ asked[r].id \in DOMAIN users
  /\ Holders(NewEmail(r)) \subseteq {asked[r].id}
  /\ users' = [users EXCEPT ![asked[r].id] =
                 [email |-> NewEmail(r), password |-> users[asked[r].id].password]]
  /\ carried' = carried \cup {r}
  /\ UNCHANGED spent

DeleteRow(r) ==
  /\ asked[r].id \in DOMAIN users
  /\ users' = Restrict(users, DOMAIN users \ {asked[r].id})
  /\ carried' = carried \cup {r}
  /\ UNCHANGED spent

Write(r) ==
  \/ /\ asked[r].op \in {"register", "store"}
     /\ \E i \in Ids : InsertRow(r, i)
  \/ asked[r].op = "update" /\ UpdateRow(r)
  \/ asked[r].op = "destroy" /\ DeleteRow(r)

-----------------------------------------------------------------------------
(* A request arrives                                                       *)

Arrives(r, q) ==
  /\ at[r] = "idle"
  /\ asked' = [asked EXCEPT ![r] = q]
  /\ UNCHANGED <<table, locals>>

Reject(r, q) == Arrives(r, q) /\ ~Valid(q) /\ Answers(r, 400)

Accept(r, q) == Arrives(r, q) /\ Valid(q) /\ Moves(r, FirstStatement(q.op))

(* register and store                                                      *)

\* SELECT EXISTS(...)
CheckExists(r) ==
  /\ at[r] = "exists"
  /\ IF Holders(Normalise(asked[r].email)) # {}
     THEN Answers(r, 409) ELSE Moves(r, "hash")
  /\ UNCHANGED <<table, asked, locals>>

Hash(r) ==
  /\ at[r] = "hash"
  /\ Moves(r, "insert")
  /\ UNCHANGED <<table, asked, locals>>

Insert(r) ==
  /\ at[r] = "insert"
  /\ \E i \in Ids : InsertRow(r, i) /\ row' = [row EXCEPT ![r] = i]
  /\ Moves(r, "read back")
  /\ UNCHANGED <<asked, secret>>

\* Error 1062, from the unique index.
InsertDuplicate(r) ==
  /\ at[r] = "insert"
  /\ Holders(Normalise(asked[r].email)) # {}
  /\ Answers(r, 409)
  /\ UNCHANGED <<table, asked, locals>>

\* SELECT ... WHERE id = last_insert_id
ReadBack(r) ==
  /\ at[r] = "read back"
  /\ Answers(r, IF row[r] \in DOMAIN users THEN 201 ELSE 500)
  /\ UNCHANGED <<table, asked, locals>>

(* login                                                                   *)

LookUp(r) ==
  /\ at[r] = "look up"
  /\ \E i \in Holders(Normalise(asked[r].email)) :
       /\ row' = [row EXCEPT ![r] = i]
       /\ secret' = [secret EXCEPT ![r] = users[i].password]
  /\ Moves(r, "verify")
  /\ UNCHANGED <<table, asked>>

LookUpMisses(r) ==
  /\ at[r] = "look up"
  /\ Holders(Normalise(asked[r].email)) = {}
  /\ Answers(r, 401)
  /\ UNCHANGED <<table, asked, locals>>

\* A SELECT that fails is answered like one that finds no user.
LookUpBreaks(r) ==
  /\ at[r] = "look up"
  /\ Answers(r, 401)
  /\ UNCHANGED <<table, asked, locals>>

\* A mutation: the outcome of bcrypt::verify is not looked at.
AnyPassword(r) == TRUE

Matches(r) == asked[r].password = secret[r]

\* bcrypt::verify ended in time.  The token names row[r].
Verified(r) ==
  /\ at[r] = "verify"
  /\ Matches(r)
  /\ Answers(r, 200)
  /\ UNCHANGED <<table, asked, locals>>

Mismatch(r) ==
  /\ at[r] = "verify"
  /\ ~Matches(r)
  /\ Answers(r, 401)
  /\ UNCHANGED <<table, asked, locals>>

\* A mutation: verify_password_blocking waits for its thread without a limit.
NoTimer(r) == FALSE

TimedOut(r) == at[r] = "verify"

\* The thread may still be running; its result goes nowhere.
VerifyTimeout(r) ==
  /\ TimedOut(r)
  /\ Answers(r, 500)
  /\ UNCHANGED <<table, asked, locals>>

(* show, update and destroy                                                *)

Select(r) ==
  /\ at[r] = "select"
  /\ asked[r].id \in DOMAIN users
  /\ Answers(r, 200)
  /\ UNCHANGED <<table, asked, locals>>

\* A mutation: rows_affected() is not looked at.
AlwaysFine(rows) == 200

RowsAnswer(rows) == IF rows = 0 THEN 404 ELSE 200

\* The statement matches no row.
NoRow(r) ==
  /\ at[r] \in {"select", "update", "delete"}
  /\ asked[r].id \notin DOMAIN users
  /\ Answers(r, RowsAnswer(0))
  /\ UNCHANGED <<table, asked, locals>>

Update(r) ==
  /\ at[r] = "update"
  /\ UpdateRow(r)
  /\ Answers(r, RowsAnswer(1))
  /\ UNCHANGED <<asked, locals>>

\* Error 1062 again; update maps every error to 500.
UpdateDuplicate(r) ==
  /\ at[r] = "update"
  /\ asked[r].id \in DOMAIN users
  /\ ~(Holders(NewEmail(r)) \subseteq {asked[r].id})
  /\ Answers(r, 500)
  /\ UNCHANGED <<table, asked, locals>>

Delete(r) ==
  /\ at[r] = "delete"
  /\ DeleteRow(r)
  /\ Answers(r, RowsAnswer(1))
  /\ UNCHANGED <<asked, locals>>

(* What goes wrong                                                         *)

\* A SELECT or the hashing fails, or the token or the reply cannot be built.
Fails(r) ==
  /\ at[r] \in {"exists", "hash", "read back", "verify", "select"}
  /\ Answers(r, 500)
  /\ UNCHANGED <<table, asked, locals>>

\* A write is answered by an error; whether it happens is open.
Breaks(r) ==
  /\ at[r] \in {"insert", "update", "delete"}
  /\ at' = [at EXCEPT ![r] = "adrift"]
  /\ status' = [status EXCEPT ![r] = 500]
  /\ UNCHANGED <<table, asked, locals>>

\* The client leaves: the future is dropped where it waits.
Leaves(r) ==
  /\ at[r] \in Statements
  /\ Moves(r, IF at[r] \in {"insert", "update", "delete"} THEN "adrift" ELSE "end")
  /\ UNCHANGED <<table, asked, locals>>

\* The database carries out a write nobody waits for, or never will.
Settles(r) ==
  /\ at[r] = "adrift"
  /\ Moves(r, "end")
  /\ Write(r) \/ UNCHANGED table
  /\ UNCHANGED <<asked, locals>>

-----------------------------------------------------------------------------

Register(r) ==
  CheckExists(r) \/ Hash(r) \/ Insert(r) \/ InsertDuplicate(r) \/ ReadBack(r)

Login(r) ==
  \/ LookUp(r) \/ LookUpMisses(r) \/ LookUpBreaks(r)
  \/ Verified(r) \/ Mismatch(r) \/ VerifyTimeout(r)

ById(r) ==
  Select(r) \/ NoRow(r) \/ Update(r) \/ UpdateDuplicate(r) \/ Delete(r)

Next ==
  \E r \in Requests :
    \/ \E q \in Payloads : Reject(r, q) \/ Accept(r, q)
    \/ Register(r) \/ Login(r) \/ ById(r)
    \/ Fails(r) \/ Breaks(r) \/ Leaves(r) \/ Settles(r)

Spec == Init /\ [][Next]_vars

\* Every statement is answered at last, and hashing ends; so does the timer of
\* a verification, but the verifying thread need not.
Fairness ==
  \A r \in Requests :
    /\ WF_vars(Register(r))
    /\ WF_vars(LookUp(r) \/ LookUpMisses(r))
    /\ WF_vars(VerifyTimeout(r))
    /\ WF_vars(ById(r))

-----------------------------------------------------------------------------
(* Properties                                                              *)

Does(op) ==
  CASE op \in {"register", "store"} -> "create"
    [] op = "login" -> "enter"
    [] op = "show" -> "look"
    [] op = "update" -> "change"
    [] op = "destroy" -> "remove"

\* The wish behind a payload, for the abstract directory.
Wish(r) ==
  [does  |-> IF at[r] = "idle" THEN "nothing" ELSE Does(asked[r].op),
   id    |-> asked[r].id,
   email |-> IF asked[r].email = Absent THEN Absent ELSE Canonical[asked[r].email]]

Directory ==
  INSTANCE UserDirectory WITH
    holder <- [i \in DOMAIN users |-> users[i].email],
    spent  <- spent,
    ask    <- [r \in Requests |-> Wish(r)],
    done   <- [r \in Requests |-> r \in carried],
    answer <- status

\* Whatever other requests do between a handler's statements, its answer tells
\* the truth about its write: a 2xx means that exactly one write was carried
\* out, a 4xx that none was or will be, and no request writes twice.
AnswersAreTruthful == Directory!Spec

\* Every accepted request leaves its handler, though the verifying thread of a
\* login may never end (verify_password_blocking gives up on it).
EveryRequestEnds ==
  \A r \in Requests : at[r] \in Statements ~> at[r] \in {"adrift", "end"}

\* user_handler.rs: "Update user in the database (only change fields
\* provided)": a password that is provided, and passed validation, is set by an
\* update that reports success.
ProvidedPasswordIsSet ==
  [][\A r \in Requests :
       at[r] = "update" /\ status'[r] = 200 /\ asked[r].password # Absent
         => users'[asked[r].id].password = asked[r].password]_vars
=============================================================================
