--------------------------- MODULE UserServiceProofs ---------------------------
(***************************************************************************)
(* Type correctness of UserService, and that it implements UserDirectory,  *)
(* for any number of requests, any payloads and any initial tables.        *)
(***************************************************************************)
EXTENDS UserService, TLAPS

\* A request is where its operation takes it, with a payload somebody sent.
Placed(r) ==
  /\ at[r] # "idle" => asked[r] \in Payloads
  /\ at[r] \in {"exists", "hash", "insert", "read back"}
       => asked[r].op \in {"register", "store"}
  /\ at[r] \in {"look up", "verify"} => asked[r].op = "login"
  /\ at[r] = "select" => asked[r].op = "show"
  /\ at[r] = "update" => asked[r].op = "update"
  /\ at[r] = "delete" => asked[r].op = "destroy"

ServiceInv ==
  /\ TypeOK
  /\ \A r \in Requests : Placed(r)
  /\ UniqueEmails(users)

\* The table is well-formed: typed, with ids that were given out, and with no
\* address in two rows.
TableOK ==
  /\ spent \subseteq Ids
  /\ DOMAIN users \subseteq spent
  /\ users \in [DOMAIN users -> Rows]
  /\ UniqueEmails(users)
  /\ carried \subseteq Requests

\* Inserting a row keeps the table well-formed.
LEMMA InsertKeepsTable ==
  ASSUME TableOK, NEW r \in Requests, NEW i \in Ids,
         asked[r] \in Payloads, asked[r].op \in {"register", "store"},
         InsertRow(r, i)
  PROVE  TableOK'
<1> DEFINE e == Normalise(asked[r].email)
           new == [email |-> e, password |-> asked[r].password]
<1>1. asked[r].email \in Typed /\ asked[r].password \in Passwords
  BY ServiceAssumption DEF Payload
<1>2. e \in Emails
  BY <1>1, ServiceAssumption DEF Normalise
<1>3. new \in Rows
  BY <1>1, <1>2 DEF Rows
<1>4. users' = [j \in DOMAIN users \cup {i} |-> IF j = i THEN new ELSE users[j]]
  BY DEF InsertRow
<1>5. \A j \in DOMAIN users : users[j].email # e
  BY DEF InsertRow, Holders
<1>6. new.email = e
  OBVIOUS
<1> HIDE DEF new, e
<1>7. users' \in [DOMAIN users' -> Rows]
  BY <1>3, <1>4 DEF TableOK
<1>8. UniqueEmails(users)'
  BY <1>4, <1>5, <1>6 DEF TableOK, UniqueEmails
<1>9. DOMAIN users' \subseteq spent' /\ spent' \subseteq Ids
  BY <1>4 DEF TableOK, InsertRow
<1> QED
  BY <1>7, <1>8, <1>9 DEF TableOK, InsertRow

\* So does updating one.
LEMMA UpdateKeepsTable ==
  ASSUME TableOK, NEW r \in Requests,
         asked[r] \in Payloads, asked[r].op = "update", UpdateRow(r)
  PROVE  TableOK'
<1> DEFINE e == NewEmail(r)
           i == asked[r].id
           new == [email |-> e, password |-> users[i].password]
<1>1. i \in DOMAIN users /\ users[i] \in Rows
  BY DEF UpdateRow, TableOK
<1>2. e \in Emails
  BY <1>1, ServiceAssumption DEF Rows, NewEmail, Normalise, Payload
<1>3. new \in Rows
  BY <1>1, <1>2 DEF Rows
<1>4. users' = [users EXCEPT ![i] = new]
  BY DEF UpdateRow
<1>5. \A j \in DOMAIN users : users[j].email = e => j = i
  BY DEF UpdateRow, Holders
<1>6. new.email = e
  OBVIOUS
<1> HIDE DEF new, e, i
<1>7. users' \in [DOMAIN users' -> Rows] /\ DOMAIN users' = DOMAIN users
  BY <1>1, <1>3, <1>4 DEF TableOK
<1>8. UniqueEmails(users)'
  BY <1>1, <1>4, <1>5, <1>6, <1>7 DEF TableOK, UniqueEmails
<1> QED
  BY <1>7, <1>8 DEF TableOK, UpdateRow

\* So does deleting one.
LEMMA DeleteKeepsTable ==
  ASSUME TableOK, NEW r \in Requests, DeleteRow(r)
  PROVE  TableOK'
<1>1. users' = [j \in DOMAIN users \ {asked[r].id} |-> users[j]]
  BY DEF DeleteRow, Restrict
<1>2. users' \in [DOMAIN users' -> Rows]
  BY <1>1 DEF TableOK
<1>3. UniqueEmails(users)'
  BY <1>1 DEF TableOK, UniqueEmails
<1> QED
  BY <1>1, <1>2, <1>3 DEF TableOK, DeleteRow

\* Whatever the write of a request, the table stays well-formed.
LEMMA WriteKeepsTable ==
  ASSUME TableOK, NEW r \in Requests, asked[r] \in Payloads, Write(r)
  PROVE  TableOK'
BY InsertKeepsTable, UpdateKeepsTable, DeleteKeepsTable DEF Write

\* Where a step other than an arrival may take a request.
Proceeds(r, s) ==
  \/ s \in {"adrift", "end"}
  \/ s \in {"hash", "insert", "read back"} /\ asked[r].op \in {"register", "store"}
  \/ s = "verify" /\ asked[r].op = "login"

\* A request that proceeds stays where its operation takes it.
LEMMA PlacedMoves ==
  ASSUME NEW r \in Requests, NEW s, at[r] # "idle", Placed(r), Proceeds(r, s),
         at'[r] = s, asked'[r] = asked[r]
  PROVE  Placed(r)'
BY DEF Placed, Proceeds

\* So does one whose place and payload do not change.
LEMMA PlacedStays ==
  ASSUME NEW r \in Requests, Placed(r), at'[r] = at[r], asked'[r] = asked[r]
  PROVE  Placed(r)'
BY DEF Placed

\* Moving one request leaves the others where they are.
LEMMA OthersStay ==
  ASSUME at \in [Requests -> Statements \cup {"idle", "adrift", "end"}],
         NEW r \in Requests, NEW s, at' = [at EXCEPT ![r] = s]
  PROVE  \A o \in Requests : at'[o] = IF o = r THEN s ELSE at[o]
OBVIOUS

Codes == {0, 200, 201, 400, 401, 404, 409, 500}

Places == Statements \cup {"adrift", "end"}

\* What the invariant says, variable by variable.
LEMMA InvUnfolds ==
  ASSUME ServiceInv
  PROVE  /\ TableOK
         /\ asked \in [Requests -> Payload]
         /\ at \in [Requests -> Statements \cup {"idle", "adrift", "end"}]
         /\ row \in [Requests -> Ids \cup {Absent}]
         /\ secret \in [Requests -> Passwords \cup {Absent}]
         /\ status \in [Requests -> Codes]
         /\ \A r \in Requests : Placed(r)
BY DEF ServiceInv, TypeOK, TableOK, Codes

\* A step of one request that leaves the table well-formed, keeps the locals
\* typed, and goes where the request's operation may go.
LEMMA RequestStep ==
  ASSUME ServiceInv, NEW r \in Requests, NEW s \in Places, NEW code \in Codes,
         at[r] # "idle", Proceeds(r, s), TableOK', UNCHANGED asked,
         at' = [at EXCEPT ![r] = s], status' = [status EXCEPT ![r] = code],
         row' \in [Requests -> Ids \cup {Absent}],
         secret' \in [Requests -> Passwords \cup {Absent}]
  PROVE  ServiceInv'
<1>1. at' \in [Requests -> Statements \cup {"idle", "adrift", "end"}]
  BY InvUnfolds DEF Places
<1>2. status' \in [Requests -> Codes]
  BY InvUnfolds
<1>3. TypeOK'
  BY <1>1, <1>2, InvUnfolds DEF TypeOK, TableOK, Codes
<1>4. \A o \in Requests : at'[o] = IF o = r THEN s ELSE at[o]
  BY InvUnfolds, OthersStay
<1>5. \A o \in Requests : asked'[o] = asked[o] /\ Placed(o)
  BY InvUnfolds
<1>6. ASSUME NEW o \in Requests
      PROVE  Placed(o)'
  <2>1. CASE o = r
    BY <2>1, <1>4, <1>5, PlacedMoves
  <2>2. CASE o # r
    BY <2>2, <1>4, <1>5, PlacedStays
  <2> QED
    BY <2>1, <2>2
<1> QED
  BY <1>3, <1>6 DEF ServiceInv, TableOK

\* The two ways a step ends: at another statement, or with an answer.
LEMMA MoveStep ==
  ASSUME ServiceInv, NEW r \in Requests, NEW s \in Places, Moves(r, s),
         at[r] # "idle", Proceeds(r, s), TableOK', UNCHANGED asked,
         row' \in [Requests -> Ids \cup {Absent}],
         secret' \in [Requests -> Passwords \cup {Absent}]
  PROVE  ServiceInv'
<1>1. status' = [status EXCEPT ![r] = status[r]] /\ status[r] \in Codes
  BY InvUnfolds DEF Moves
<1> QED
  BY <1>1, RequestStep DEF Moves

\* A request is answered; its payload and locals stay.
LEMMA AnswerStep ==
  ASSUME ServiceInv, NEW r \in Requests, NEW code \in Codes, Answers(r, code),
         at[r] # "idle", TableOK', UNCHANGED <<asked, locals>>
  PROVE  ServiceInv'
<1>1. "end" \in Places /\ Proceeds(r, "end")
  BY DEF Places, Proceeds
<1>2. /\ row' \in [Requests -> Ids \cup {Absent}]
      /\ secret' \in [Requests -> Passwords \cup {Absent}]
  BY InvUnfolds DEF locals
<1> QED
  BY <1>1, <1>2, RequestStep DEF Answers

\* A step that leaves the table alone keeps it well-formed.
LEMMA TableStays == ASSUME TableOK, UNCHANGED table PROVE TableOK'
BY DEF TableOK, table, UniqueEmails

-----------------------------------------------------------------------------
(* One lemma for each group of actions.                                    *)

\* A request arrives: its payload is refused, or its handler starts.
LEMMA ArrivalKeepsInv ==
  ASSUME ServiceInv, NEW r \in Requests, NEW q \in Payloads,
         Reject(r, q) \/ Accept(r, q)
  PROVE  ServiceInv'
<1>1. q \in Payload /\ q.op \in Ops
  BY ServiceAssumption DEF Payload
<1>2. PICK s \in Places :
        /\ at' = [at EXCEPT ![r] = s]
        /\ s = "end" \/ s = FirstStatement(q.op)
  <2>1. "end" \in Places /\ FirstStatement(q.op) \in Places
    BY <1>1 DEF Places, Statements, FirstStatement, Ops
  <2> QED
    BY <2>1 DEF Reject, Accept, Answers, Moves
<1>3. PICK code \in Codes : status' = [status EXCEPT ![r] = code]
  <2>1. 400 \in Codes /\ status[r] \in Codes
    BY InvUnfolds DEF Codes
  <2>2. CASE Reject(r, q)
    BY <2>1, <2>2 DEF Reject, Answers
  <2>3. CASE Accept(r, q)
    BY <2>1, <2>3, InvUnfolds DEF Accept, Moves
  <2> QED
    BY <2>2, <2>3
<1>4. asked' = [asked EXCEPT ![r] = q] /\ UNCHANGED <<table, locals>>
  BY DEF Reject, Accept, Arrives
<1>5. TableOK'
  BY <1>4, TableStays, InvUnfolds
<1>6. at' \in [Requests -> Statements \cup {"idle", "adrift", "end"}]
  BY <1>2, InvUnfolds DEF Places
<1>7. status' \in [Requests -> Codes] /\ asked' \in [Requests -> Payload]
  BY <1>1, <1>3, <1>4, InvUnfolds
<1>8. TypeOK'
  BY <1>4, <1>5, <1>6, <1>7, InvUnfolds DEF TypeOK, TableOK, Codes, locals
<1>9. ASSUME NEW o \in Requests
      PROVE  Placed(o)'
  <2>1. /\ at'[o] = IF o = r THEN s ELSE at[o]
        /\ asked'[o] = IF o = r THEN q ELSE asked[o]
    BY <1>2, <1>4, InvUnfolds, OthersStay
  <2>2. CASE o = r
    BY <2>1, <2>2, <1>1, <1>2 DEF Placed, FirstStatement, Ops
  <2>3. CASE o # r
    BY <2>1, <2>3, InvUnfolds, PlacedStays
  <2> QED
    BY <2>2, <2>3
<1> QED
  BY <1>5, <1>8, <1>9 DEF ServiceInv, TableOK

\* Any statement of register and store.
LEMMA RegisterKeepsInv ==
  ASSUME ServiceInv, NEW r \in Requests, Register(r)
  PROVE  ServiceInv'
<1>1. TableOK /\ asked[r] \in Payload /\ Placed(r)
  BY InvUnfolds
<1>2. 409 \in Codes /\ 201 \in Codes /\ 500 \in Codes
  BY DEF Codes
<1>3. {"hash", "insert", "read back"} \subseteq Places
  BY DEF Places, Statements
<1>4. CASE CheckExists(r)
  <2>1. at[r] = "exists" /\ TableOK' /\ UNCHANGED <<asked, locals>>
    BY <1>1, <1>4, TableStays DEF CheckExists
  <2>2. Answers(r, 409) \/ Moves(r, "hash")
    BY <1>4 DEF CheckExists
  <2>3. at[r] # "idle" /\ Proceeds(r, "hash")
    BY <1>1, <2>1 DEF Placed, Proceeds
  <2>4. CASE Answers(r, 409)
    BY <2>1, <2>3, <2>4, <1>2, AnswerStep
  <2>5. CASE Moves(r, "hash")
    <3>1. /\ row' \in [Requests -> Ids \cup {Absent}]
          /\ secret' \in [Requests -> Passwords \cup {Absent}]
      BY <2>1, InvUnfolds DEF locals
    <3> QED
      BY <2>1, <2>3, <2>5, <3>1, <1>3, MoveStep
  <2> QED
    BY <2>2, <2>4, <2>5
<1>5. CASE Hash(r)
  <2>1. at[r] = "hash" /\ TableOK' /\ UNCHANGED <<asked, locals>>
    BY <1>1, <1>5, TableStays DEF Hash
  <2>2. /\ row' \in [Requests -> Ids \cup {Absent}]
        /\ secret' \in [Requests -> Passwords \cup {Absent}]
    BY <2>1, InvUnfolds DEF locals
  <2>3. at[r] # "idle" /\ Proceeds(r, "insert")
    BY <1>1, <2>1 DEF Placed, Proceeds
  <2> QED
    BY <2>1, <2>2, <2>3, <1>3, <1>5, MoveStep DEF Hash
<1>6. CASE Insert(r)
  <2>1. at[r] = "insert" /\ UNCHANGED asked
    BY <1>6 DEF Insert
  <2>2. /\ at[r] # "idle" /\ Proceeds(r, "read back")
        /\ asked[r] \in Payloads /\ asked[r].op \in {"register", "store"}
    BY <1>1, <2>1 DEF Placed, Proceeds
  <2>3. PICK i \in Ids : InsertRow(r, i) /\ row' = [row EXCEPT ![r] = i]
    BY <1>6 DEF Insert
  <2>4. TableOK'
    BY <1>1, <2>2, <2>3, InsertKeepsTable
  <2>5. /\ row' \in [Requests -> Ids \cup {Absent}]
        /\ secret' \in [Requests -> Passwords \cup {Absent}]
    BY <1>6, <2>3, InvUnfolds DEF Insert
  <2> QED
    BY <2>1, <2>2, <2>4, <2>5, <1>3, <1>6, MoveStep DEF Insert
<1>7. CASE InsertDuplicate(r)
  BY <1>1, <1>2, <1>7, TableStays, AnswerStep DEF InsertDuplicate
<1>8. CASE ReadBack(r)
  <2>1. at[r] # "idle" /\ TableOK' /\ UNCHANGED <<asked, locals>>
    BY <1>1, <1>8, TableStays DEF ReadBack
  <2>2. Answers(r, 201) \/ Answers(r, 500)
    BY <1>8 DEF ReadBack
  <2> QED
    BY <2>1, <2>2, <1>2, AnswerStep
<1> QED
  BY <1>4, <1>5, <1>6, <1>7, <1>8 DEF Register

\* Any step of a login, its look-up failing or its timer included.
LEMMA LoginKeepsInv ==
  ASSUME ServiceInv, NEW r \in Requests, Login(r)
  PROVE  ServiceInv'
<1>1. TableOK /\ Placed(r)
  BY InvUnfolds
<1>2. 200 \in Codes /\ 401 \in Codes /\ 500 \in Codes
  BY DEF Codes
<1>3. CASE LookUp(r)
  <2>1. at[r] = "look up" /\ TableOK' /\ UNCHANGED asked
    BY <1>1, <1>3, TableStays DEF LookUp
  <2>2. at[r] # "idle" /\ Proceeds(r, "verify") /\ "verify" \in Places
    BY <1>1, <2>1 DEF Placed, Proceeds, Places, Statements
  <2>3. PICK i \in DOMAIN users : /\ row' = [row EXCEPT ![r] = i]
                                  /\ secret' = [secret EXCEPT ![r] = users[i].password]
    BY <1>3 DEF LookUp, Holders
  <2>4. i \in Ids /\ users[i].password \in Passwords
    BY <1>1 DEF TableOK, Rows
  <2>5. /\ row' \in [Requests -> Ids \cup {Absent}]
        /\ secret' \in [Requests -> Passwords \cup {Absent}]
    BY <2>3, <2>4, InvUnfolds
  <2> QED
    BY <2>1, <2>2, <2>5, <1>3, MoveStep DEF LookUp
<1>4. CASE LookUpMisses(r)
  BY <1>1, <1>2, <1>4, TableStays, AnswerStep DEF LookUpMisses
<1>5. CASE LookUpBreaks(r)
  BY <1>1, <1>2, <1>5, TableStays, AnswerStep DEF LookUpBreaks
<1>6. CASE Verified(r)
  BY <1>1, <1>2, <1>6, TableStays, AnswerStep DEF Verified
<1>7. CASE Mismatch(r)
  BY <1>1, <1>2, <1>7, TableStays, AnswerStep DEF Mismatch
<1>8. CASE VerifyTimeout(r)
  BY <1>1, <1>2, <1>8, TableStays, AnswerStep DEF VerifyTimeout, TimedOut
<1> QED
  BY <1>3, <1>4, <1>5, <1>6, <1>7, <1>8 DEF Login

\* Any statement of show, update and destroy.
LEMMA ByIdKeepsInv ==
  ASSUME ServiceInv, NEW r \in Requests, ById(r)
  PROVE  ServiceInv'
<1>1. TableOK /\ Placed(r)
  BY InvUnfolds
<1>2. /\ 200 \in Codes /\ 500 \in Codes
      /\ RowsAnswer(0) \in Codes /\ RowsAnswer(1) \in Codes
  BY DEF Codes, RowsAnswer
<1>3. CASE Select(r)
  BY <1>1, <1>2, <1>3, TableStays, AnswerStep DEF Select
<1>4. CASE NoRow(r)
  BY <1>1, <1>2, <1>4, TableStays, AnswerStep DEF NoRow
<1>5. CASE Update(r)
  <2>1. at[r] = "update" /\ UpdateRow(r) /\ UNCHANGED <<asked, locals>>
    BY <1>5 DEF Update
  <2>2. asked[r] \in Payloads /\ asked[r].op = "update"
    BY <1>1, <2>1 DEF Placed
  <2>3. TableOK'
    BY <1>1, <2>1, <2>2, UpdateKeepsTable
  <2> QED
    BY <2>1, <2>3, <1>2, <1>5, AnswerStep DEF Update
<1>6. CASE UpdateDuplicate(r)
  BY <1>1, <1>2, <1>6, TableStays, AnswerStep DEF UpdateDuplicate
<1>7. CASE Delete(r)
  <2>1. at[r] = "delete" /\ DeleteRow(r) /\ UNCHANGED <<asked, locals>>
    BY <1>7 DEF Delete
  <2>2. TableOK'
    BY <1>1, <2>1, DeleteKeepsTable
  <2> QED
    BY <2>1, <2>2, <1>2, <1>7, AnswerStep DEF Delete
<1> QED
  BY <1>3, <1>4, <1>5, <1>6, <1>7 DEF ById

\* A statement fails, a result is lost, a client leaves, a lost write settles.
LEMMA TroubleKeepsInv ==
  ASSUME ServiceInv, NEW r \in Requests,
         Fails(r) \/ Breaks(r) \/ Leaves(r) \/ Settles(r)
  PROVE  ServiceInv'
<1>1. TableOK /\ Placed(r)
  BY InvUnfolds
<1>2. 500 \in Codes /\ "adrift" \in Places /\ "end" \in Places
  BY DEF Codes, Places
<1>3. Proceeds(r, "adrift") /\ Proceeds(r, "end")
  BY DEF Proceeds
<1>4. UNCHANGED <<asked, locals>>
  BY DEF Fails, Breaks, Leaves, Settles
<1>5. /\ row' \in [Requests -> Ids \cup {Absent}]
      /\ secret' \in [Requests -> Passwords \cup {Absent}]
  BY <1>4, InvUnfolds DEF locals
<1>6. CASE Fails(r)
  <2>1. at[r] # "idle" /\ TableOK'
    BY <1>1, <1>6, TableStays DEF Fails
  <2>2. Answers(r, 500)
    BY <1>6 DEF Fails
  <2> QED
    BY <2>1, <2>2, <1>2, <1>4, AnswerStep
<1>7. CASE Breaks(r)
  <2>1. at[r] # "idle" /\ TableOK'
    BY <1>1, <1>7, TableStays DEF Breaks
  <2> QED
    BY <2>1, <1>2, <1>3, <1>4, <1>5, <1>7, RequestStep DEF Breaks
<1>8. CASE Leaves(r)
  <2>1. at[r] # "idle" /\ TableOK'
    BY <1>1, <1>8, TableStays DEF Leaves, Statements
  <2>2. Moves(r, "adrift") \/ Moves(r, "end")
    BY <1>8 DEF Leaves
  <2> QED
    BY <2>1, <2>2, <1>2, <1>3, <1>4, <1>5, MoveStep
<1>9. CASE Settles(r)
  <2>1. at[r] = "adrift" /\ Moves(r, "end")
    BY <1>9 DEF Settles
  <2>2. asked[r] \in Payloads
    BY <1>1, <2>1 DEF Placed
  <2>3. TableOK'
    BY <1>1, <1>9, <2>2, TableStays, WriteKeepsTable DEF Settles
  <2> QED
    BY <2>1, <2>3, <1>2, <1>3, <1>4, <1>5, MoveStep
<1> QED
  BY <1>6, <1>7, <1>8, <1>9

-----------------------------------------------------------------------------

\* The invariant holds of any initial table with unique addresses,
LEMMA ServiceInvInit == Init => ServiceInv
<1> SUFFICES ASSUME Init PROVE ServiceInv
  OBVIOUS
<1>1. Unasked \in Payload
  BY DEF Unasked, Payload, Ops
<1>2. TypeOK
  BY <1>1, ServiceAssumption DEF Init, TypeOK
<1>3. \A r \in Requests : Placed(r)
  BY DEF Init, Placed
<1>4. UniqueEmails(users)
  BY ServiceAssumption DEF Init
<1> QED
  BY <1>2, <1>3, <1>4 DEF ServiceInv

\* and every step of the service preserves it.
LEMMA ServiceInvNext == ServiceInv /\ [Next]_vars => ServiceInv'
<1> SUFFICES ASSUME ServiceInv, [Next]_vars
             PROVE  ServiceInv'
  OBVIOUS
<1>1. CASE Next
  <2>1. PICK r \in Requests :
          \/ \E q \in Payloads : Reject(r, q) \/ Accept(r, q)
          \/ Register(r) \/ Login(r) \/ ById(r)
          \/ Fails(r) \/ Breaks(r) \/ Leaves(r) \/ Settles(r)
    BY <1>1 DEF Next
  <2> QED
    BY <2>1, ArrivalKeepsInv, RegisterKeepsInv, LoginKeepsInv, ByIdKeepsInv,
       TroubleKeepsInv
<1>2. CASE UNCHANGED vars
  <2>1. TypeOK'
    BY <1>2 DEF ServiceInv, TypeOK, vars, table, locals
  <2>2. \A r \in Requests : Placed(r)'
    BY <1>2 DEF ServiceInv, Placed, vars
  <2>3. UniqueEmails(users)'
    BY <1>2 DEF ServiceInv, UniqueEmails, vars, table
  <2> QED
    BY <2>1, <2>2, <2>3 DEF ServiceInv
<1> QED
  BY <1>1, <1>2

(***************************************************************************)
(* The table only holds normalised addresses, whichever handler wrote them *)
(* and however their statements interleave (TypeOK); every variable of the *)
(* user handlers keeps its type.                                           *)
(***************************************************************************)
THEOREM ServiceTypeCorrect == Spec => []TypeOK
<1>1. ServiceInv => TypeOK
  BY DEF ServiceInv
<1> QED
  BY <1>1, ServiceInvInit, ServiceInvNext, PTL DEF Spec

-----------------------------------------------------------------------------
(***************************************************************************)
(* UserService implements UserDirectory.  What a request was answered, and *)
(* whether its write took effect, goes with the statement it is at.        *)
(***************************************************************************)
Accounted(r) ==
  /\ at[r] \in Statements \cup {"idle"} => status[r] = 0
  /\ at[r] = "adrift" => status[r] \in {0, 500}
  /\ r \in carried => at[r] \in {"read back", "end"}
  /\ at[r] = "read back" => r \in carried

AccountInv == ServiceInv /\ \A r \in Requests : Accounted(r)

\* A step of request r, at statement s afterwards: the others are accounted for
\* as before.
LEMMA AccountStep ==
  ASSUME AccountInv, ServiceInv', NEW r \in Requests, NEW s, NEW code,
         at' = [at EXCEPT ![r] = s], status' = [status EXCEPT ![r] = code],
         s \in Statements => code = 0,
         s = "idle" => code = 0,
         s = "adrift" => code \in {0, 500},
         \/ carried' = carried /\ s \notin {"read back"}
                               /\ (r \in carried => s = "end")
         \/ carried' = carried \cup {r} /\ s \in {"read back", "end"}
  PROVE  AccountInv'
<1>1. \A o \in Requests : /\ at'[o] = IF o = r THEN s ELSE at[o]
                          /\ status'[o] = IF o = r THEN code ELSE status[o]
  BY InvUnfolds DEF AccountInv
<1>2. ASSUME NEW o \in Requests PROVE Accounted(o)'
  <2>1. CASE o = r
    <3>1. at'[o] = s /\ status'[o] = code
      BY <1>1, <2>1
    <3>2. o \in carried' => s \in {"read back", "end"}
      BY <2>1
    <3>3. s = "read back" => o \in carried'
      BY <2>1
    <3> QED
      BY <3>1, <3>2, <3>3 DEF Accounted
  <2>2. CASE o # r
    <3>1. at'[o] = at[o] /\ status'[o] = status[o]
      BY <1>1, <2>2
    <3>2. o \in carried' <=> o \in carried
      BY <2>2
    <3>3. Accounted(o)
      BY DEF AccountInv
    <3> QED
      BY <3>1, <3>2, <3>3 DEF Accounted
  <2> QED
    BY <2>1, <2>2
<1> QED
  BY <1>2 DEF AccountInv

\* An answer that comes without a write.
LEMMA AccountAnswer ==
  ASSUME AccountInv, ServiceInv', NEW r \in Requests, NEW code,
         Answers(r, code), UNCHANGED table
  PROVE  AccountInv'
<1>1. carried' = carried
  BY DEF table
<1> QED
  BY <1>1, AccountStep DEF Answers, Statements

\* A step to the next statement without a write.
LEMMA AccountMove ==
  ASSUME AccountInv, ServiceInv', NEW r \in Requests, NEW s, at[r] \in Statements,
         at[r] # "read back", Moves(r, s), s \in Statements \ {"read back"},
         UNCHANGED table
  PROVE  AccountInv'
<1>1. carried' = carried /\ status' = [status EXCEPT ![r] = 0]
  <2>1. status[r] = 0 /\ status \in [Requests -> Codes]
    BY InvUnfolds DEF AccountInv, Accounted
  <2> QED
    BY <2>1 DEF table, Moves
<1>2. r \notin carried
  <2>1. at[r] # "end" /\ at[r] # "read back"
    BY DEF Statements
  <2> QED
    BY <2>1 DEF AccountInv, Accounted
<1>4. s # "read back" /\ s # "adrift" /\ s # "idle"
  BY DEF Statements
<1>3. at' = [at EXCEPT ![r] = s]
  BY DEF Moves
<1> QED
  BY <1>1, <1>2, <1>3, <1>4, AccountStep

\* Every step keeps the accounts.
LEMMA AccountNext == AccountInv /\ [Next]_vars => AccountInv'
<1> SUFFICES ASSUME AccountInv, [Next]_vars PROVE AccountInv'
  OBVIOUS
<1>1. ServiceInv /\ ServiceInv'
  BY ServiceInvNext DEF AccountInv
<1>2. CASE UNCHANGED vars
  BY <1>1, <1>2 DEF AccountInv, Accounted, vars, table
<1>3. ASSUME NEW r \in Requests, NEW q \in Payloads, Reject(r, q) \/ Accept(r, q)
      PROVE  AccountInv'
  <2>1. at[r] = "idle" /\ UNCHANGED table /\ status[r] = 0 /\ r \notin carried
    BY <1>3 DEF Reject, Accept, Arrives, AccountInv, Accounted
  <2>2. CASE Reject(r, q)
    BY <1>1, <2>1, <2>2, AccountAnswer DEF Reject
  <2>3. CASE Accept(r, q)
    <3>1. /\ at' = [at EXCEPT ![r] = FirstStatement(q.op)]
          /\ status' = [status EXCEPT ![r] = 0]
      BY <1>1, <2>1, <2>3, InvUnfolds DEF Accept, Moves
    <3>2. FirstStatement(q.op) \notin {"read back", "adrift"}
      BY ServiceAssumption DEF FirstStatement, Payload, Ops
    <3>3. carried' = carried
      BY <2>1 DEF table
    <3> HIDE DEF FirstStatement
    <3> QED
      BY <1>1, <2>1, <3>1, <3>2, <3>3, AccountStep
  <2> QED
    BY <1>3, <2>2, <2>3
<1>4. ASSUME NEW r \in Requests, Register(r) PROVE AccountInv'
  <2>1. CASE CheckExists(r)
    BY <1>1, <2>1, AccountAnswer, AccountMove DEF CheckExists, Statements
  <2>2. CASE Hash(r)
    BY <1>1, <2>2, AccountMove DEF Hash, Statements
  <2>3. CASE Insert(r)
    <3>1. /\ at' = [at EXCEPT ![r] = "read back"]
          /\ status' = [status EXCEPT ![r] = 0]
          /\ carried' = carried \cup {r}
      <4>1. status[r] = 0 /\ status \in [Requests -> Codes]
        BY <1>1, <2>3, InvUnfolds DEF Insert, AccountInv, Accounted, Statements
      <4> QED
        BY <2>3, <4>1 DEF Insert, Moves, InsertRow
    <3> QED
      BY <1>1, <3>1, AccountStep
  <2>4. CASE InsertDuplicate(r) \/ ReadBack(r)
    BY <1>1, <2>4, AccountAnswer DEF InsertDuplicate, ReadBack
  <2> QED
    BY <1>4, <2>1, <2>2, <2>3, <2>4 DEF Register
<1>5. ASSUME NEW r \in Requests, Login(r) PROVE AccountInv'
  <2>1. CASE LookUp(r)
    BY <1>1, <2>1, AccountMove DEF LookUp, Statements
  <2>2. CASE ~LookUp(r)
    BY <1>1, <1>5, <2>2, AccountAnswer
       DEF Login, LookUpMisses, LookUpBreaks, Verified, Mismatch, VerifyTimeout
  <2> QED
    BY <2>1, <2>2
<1>6. ASSUME NEW r \in Requests, ById(r) PROVE AccountInv'
  <2>1. CASE Update(r) \/ Delete(r)
    <3>1. /\ at' = [at EXCEPT ![r] = "end"]
          /\ status' = [status EXCEPT ![r] = RowsAnswer(1)]
          /\ carried' = carried \cup {r}
      BY <2>1 DEF Update, Delete, Answers, UpdateRow, DeleteRow
    <3> QED
      BY <1>1, <3>1, AccountStep DEF Statements
  <2>2. CASE Select(r) \/ NoRow(r) \/ UpdateDuplicate(r)
    BY <1>1, <2>2, AccountAnswer DEF Select, NoRow, UpdateDuplicate
  <2> QED
    BY <1>6, <2>1, <2>2 DEF ById
<1>7. ASSUME NEW r \in Requests, Fails(r) \/ Breaks(r) \/ Leaves(r)
      PROVE  AccountInv'
  <2>1. CASE Fails(r)
    BY <1>1, <2>1, AccountAnswer DEF Fails
  <2>2. CASE Breaks(r)
    <3>1. /\ at' = [at EXCEPT ![r] = "adrift"]
          /\ status' = [status EXCEPT ![r] = 500]
          /\ carried' = carried /\ r \notin carried
      BY <2>2 DEF Breaks, table, AccountInv, Accounted
    <3> QED
      BY <1>1, <3>1, AccountStep DEF Statements
  <2>3. CASE Leaves(r)
    <3>1. /\ status' = [status EXCEPT ![r] = 0]
          /\ carried' = carried
      <4>1. status[r] = 0 /\ status \in [Requests -> Codes]
        BY <1>1, <2>3, InvUnfolds DEF Leaves, AccountInv, Accounted
      <4> QED
        BY <2>3, <4>1 DEF Leaves, Moves, table
    <3>2. \/ at' = [at EXCEPT ![r] = "adrift"] /\ r \notin carried
          \/ at' = [at EXCEPT ![r] = "end"]
      <4>1. at[r] \in {"insert", "update", "delete"} => r \notin carried
        BY DEF AccountInv, Accounted
      <4> QED
        BY <2>3, <4>1 DEF Leaves, Moves
    <3> QED
      BY <1>1, <3>1, <3>2, AccountStep DEF Statements
  <2> QED
    BY <1>7, <2>1, <2>2, <2>3
<1>8. ASSUME NEW r \in Requests, Settles(r) PROVE AccountInv'
  <2>1. /\ at' = [at EXCEPT ![r] = "end"]
        /\ status' = [status EXCEPT ![r] = status[r]]
    BY <1>1, <1>8, InvUnfolds DEF Settles, Moves
  <2>2. carried' = carried \/ carried' = carried \cup {r}
    BY <1>8 DEF Settles, Write, InsertRow, UpdateRow, DeleteRow, table
  <2> QED
    BY <1>1, <2>1, <2>2, AccountStep DEF Statements
<1> QED
  BY <1>2, <1>3, <1>4, <1>5, <1>6, <1>7, <1>8 DEF Next

\* Nobody is answered at first, and nothing is written.
LEMMA AccountInit == Init => AccountInv
<1> SUFFICES ASSUME Init PROVE AccountInv
  OBVIOUS
<1>1. \A r \in Requests : Accounted(r)
  BY DEF Init, Accounted
<1> QED
  BY <1>1, ServiceInvInit DEF AccountInv

-----------------------------------------------------------------------------
\* What the directory is wished at the moment.
Wished == [r \in Requests |-> Wish(r)]

\* The directory's wishes change only when a request arrives.
LEMMA WishStays ==
  ASSUME UNCHANGED asked, \A r \in Requests : at'[r] = "idle" <=> at[r] = "idle"
  PROVE  Wished' = Wished
<1>1. ASSUME NEW r \in Requests PROVE Wish(r)' = Wish(r)
  <2> DEFINE q == asked[r]
  <2>0. q' = q
    OBVIOUS
  <2> HIDE DEF q
  <2>1. CASE at[r] = "idle" /\ at'[r] = "idle"
    BY <2>0, <2>1 DEF Wish, q
  <2>2. CASE at[r] # "idle" /\ at'[r] # "idle"
    BY <2>0, <2>2 DEF Wish, q
  <2> QED
    BY <1>1, <2>1, <2>2
<1> QED
  BY <1>1 DEF Wished

\* What a request on its way wishes.
LEMMA WishOf ==
  ASSUME ServiceInv, NEW r \in Requests, at[r] # "idle"
  PROVE  /\ Wish(r) = Wished[r]
         /\ asked[r].op \in {"register", "store"} => Wish(r).does = "create"
         /\ asked[r].op = "login" => Wish(r).does = "enter"
         /\ asked[r].op = "show" => Wish(r).does = "look"
         /\ asked[r].op = "update" => Wish(r).does = "change"
         /\ asked[r].op = "destroy" => Wish(r).does = "remove"
         /\ Wish(r).does # "nothing"
         /\ Wish(r).id = asked[r].id
         /\ asked[r].email = Absent => Wish(r).email = Absent
         /\ asked[r].email # Absent => Wish(r).email = Normalise(asked[r].email)
<1>1. asked[r].op \in Ops
  BY InvUnfolds DEF Payload
<1> QED
  BY <1>1 DEF Wish, Does, Wished, Ops, Normalise

\* A request that leaves "idle" behind does not come back to it.
LEMMA IdleStays ==
  ASSUME ServiceInv, NEW r \in Requests, at[r] # "idle", NEW s, s # "idle",
         at' = [at EXCEPT ![r] = s]
  PROVE  \A o \in Requests : at'[o] = "idle" <=> at[o] = "idle"
BY InvUnfolds

\* An answer without a write is one that the directory calls truthful.
LEMMA AnswerRefines ==
  ASSUME AccountInv, NEW r \in Requests, at[r] \in Statements, NEW code, NEW s,
         at' = [at EXCEPT ![r] = s], s # "idle",
         status' = [status EXCEPT ![r] = code],
         UNCHANGED <<table, asked>>, Directory!Truthful(r, code)
  PROVE  Directory!Answer(r)
<1>1. at[r] # "idle" /\ status[r] = 0 /\ ServiceInv
  BY DEF Statements, AccountInv, Accounted
<1>2. Wished' = Wished
  BY <1>1, IdleStays, WishStays
<1>3. Wished[r].does # "nothing"
  BY <1>1, WishOf
<1>4. status'[r] = code
  BY <1>1, InvUnfolds
<1>5. UNCHANGED <<[i \in DOMAIN users |-> users[i].email], spent, Wished,
                  [o \in Requests |-> o \in carried]>>
  BY <1>2 DEF table
<1> QED
  BY <1>1, <1>3, <1>4, <1>5 DEF Directory!Answer, Wished

\* So is the answer a handler ends with.
LEMMA AnswersRefine ==
  ASSUME AccountInv, NEW r \in Requests, at[r] \in Statements, NEW code,
         Answers(r, code), UNCHANGED <<table, asked>>, Directory!Truthful(r, code)
  PROVE  Directory!Answer(r)
BY AnswerRefines DEF Answers

\* A write that takes effect raises the flag of its request.
LEMMA Flagged ==
  ASSUME NEW r \in Requests, carried' = carried \cup {r}
  PROVE  [o \in Requests |-> o \in carried]' =
           [[o \in Requests |-> o \in carried] EXCEPT ![r] = TRUE]
<1>1. \A o \in Requests : (o \in carried') = IF o = r THEN TRUE ELSE o \in carried
  <2> SUFFICES ASSUME NEW o \in Requests
               PROVE  (o \in carried') = IF o = r THEN TRUE ELSE o \in carried
    OBVIOUS
  <2>1. CASE o = r
    BY <2>1
  <2>2. CASE o # r
    BY <2>2
  <2> QED
    BY <2>1, <2>2
<1>2. [o \in Requests |-> o \in carried'] = [o \in Requests |-> IF o = r THEN TRUE ELSE o \in carried]
  BY <1>1, Zenon
<1>3. [[o \in Requests |-> o \in carried] EXCEPT ![r] = TRUE] =
        [o \in Requests |-> IF o = r THEN TRUE ELSE o \in carried]
  BY Zenon
<1> QED
  BY <1>2, <1>3

\* A write, with or without an answer.
LEMMA PerformRefines ==
  ASSUME AccountInv, NEW r \in Requests, at[r] # "idle", r \notin carried,
         status[r] \in {0, 500},
         Directory!Create(r) \/ Directory!Change(r) \/ Directory!Remove(r),
         carried' = carried \cup {r}, UNCHANGED asked, NEW s, s # "idle",
         Moves(r, s) \/ (Answers(r, 200) /\ Wish(r).does # "create")
  PROVE  Directory!Perform(r)
<1>0. /\ \/ at' = [at EXCEPT ![r] = s]
         \/ at' = [at EXCEPT ![r] = "end"]
      /\ \/ UNCHANGED status
         \/ status' = [status EXCEPT ![r] = 200] /\ Wish(r).does # "create"
  BY DEF Moves, Answers
<1>1. Wished' = Wished /\ Wish(r) = Wished[r]
  BY <1>0, IdleStays, WishStays, WishOf DEF AccountInv
<1>2. [o \in Requests |-> o \in carried]' =
        [[o \in Requests |-> o \in carried] EXCEPT ![r] = TRUE]
  BY Flagged
<1>3. status' = [status EXCEPT ![r] = status'[r]]
  BY <1>0, InvUnfolds DEF AccountInv
<1>4. ~[o \in Requests |-> o \in carried][r]
  BY Zenon
<1>5. status'[r] # status[r] =>
        status'[r] \in {500} \cup (IF Wished[r].does = "create" THEN {} ELSE {200})
  BY <1>0, <1>1, InvUnfolds DEF AccountInv
<1> QED
  BY <1>1, <1>2, <1>3, <1>4, <1>5 DEF Directory!Perform, Wished

\* An insertion creates, for a request that wishes it.
LEMMA InsertRefines ==
  ASSUME ServiceInv, NEW r \in Requests, at[r] # "idle",
         asked[r].op \in {"register", "store"}, NEW i \in Ids, InsertRow(r, i)
  PROVE  Directory!Create(r)
<1>1. asked[r] \in Payloads /\ asked[r].email # Absent
  BY ServiceAssumption, InvUnfolds DEF Placed
<1>2. Wished[r].does = "create" /\ Wished[r].email = Normalise(asked[r].email)
  BY <1>1, WishOf
<1>3. \A j \in DOMAIN users : users[j].email # Normalise(asked[r].email)
  BY DEF InsertRow, Holders
<1>4. i \in Ids \ spent /\ spent' = spent \cup {i}
  BY DEF InsertRow
<1>5. /\ DOMAIN users' = DOMAIN users \cup {i}
      /\ \A j \in DOMAIN users' : users'[j].email =
           IF j = i THEN Normalise(asked[r].email) ELSE users[j].email
  BY DEF InsertRow
<1>6. [j \in DOMAIN users |-> users[j].email]' =
        [j \in DOMAIN users \cup {i} |->
           IF j = i THEN Wished[r].email ELSE users[j].email]
  BY <1>2, <1>5
<1>7. [j \in DOMAIN users |-> users[j].email]' =
        [j \in DOMAIN [j \in DOMAIN users |-> users[j].email] \cup {i} |->
           IF j = i THEN Wished[r].email
           ELSE [k \in DOMAIN users |-> users[k].email][j]]
  BY <1>4, <1>6 DEF InsertRow
<1> QED
  BY <1>2, <1>3, <1>4, <1>7 DEF Directory!Create, Wished

\* An update changes the address, or nothing that the directory knows.
LEMMA UpdateRefines ==
  ASSUME ServiceInv, NEW r \in Requests, at[r] # "idle",
         asked[r].op = "update", UpdateRow(r)
  PROVE  Directory!Change(r)
<1> DEFINE i == asked[r].id
           old == [j \in DOMAIN users |-> users[j].email]
<1>1. /\ Wished[r].does = "change" /\ Wished[r].id = i
      /\ asked[r].email = Absent => Wished[r].email = Absent
      /\ asked[r].email # Absent => Wished[r].email = Normalise(asked[r].email)
  BY WishOf
<1>2. asked[r].email # Absent => Normalise(asked[r].email) # Absent
  <2>1. asked[r].email # Absent => Normalise(asked[r].email) \in Emails
    BY ServiceAssumption, InvUnfolds DEF Payload, Normalise
  <2> QED
    BY <2>1, ServiceAssumption
<1>3. /\ i \in DOMAIN users /\ UNCHANGED spent
      /\ \A j \in DOMAIN users : users[j].email = NewEmail(r) => j = i
  BY DEF UpdateRow, Holders
<1>4. /\ DOMAIN users' = DOMAIN users
      /\ \A j \in DOMAIN users :
           users'[j].email = IF j = i THEN NewEmail(r) ELSE users[j].email
  BY <1>3, InvUnfolds DEF UpdateRow, TableOK
<1>5. old' = [old EXCEPT ![i] = NewEmail(r)]
  BY <1>3, <1>4
<1>6. CASE asked[r].email = Absent
  <2>1. NewEmail(r) = users[i].email
    BY <1>6 DEF NewEmail
  <2>2. old' = old
    BY <1>3, <1>5, <2>1
  <2> QED
    BY <1>1, <1>3, <1>6, <2>2 DEF Directory!Change, Wished
<1>7. CASE asked[r].email # Absent
  <2>1. NewEmail(r) = Wished[r].email /\ Wished[r].email # Absent
    BY <1>1, <1>2, <1>7 DEF NewEmail
  <2>2. \A j \in DOMAIN old : old[j] = Wished[r].email => j = i
    BY <1>3, <2>1
  <2>3. i \in DOMAIN old
    BY <1>3
  <2> QED
    BY <1>1, <1>3, <1>5, <2>1, <2>2, <2>3
       DEF Directory!Change, Directory!Free, Wished
<1> QED
  BY <1>6, <1>7

\* A deletion removes.
LEMMA DeleteRefines ==
  ASSUME ServiceInv, NEW r \in Requests, at[r] # "idle",
         asked[r].op = "destroy", DeleteRow(r)
  PROVE  Directory!Remove(r)
<1> DEFINE i == asked[r].id
           old == [j \in DOMAIN users |-> users[j].email]
<1>1. Wished[r].does = "remove" /\ Wished[r].id = i
  BY WishOf
<1>2. i \in DOMAIN users /\ UNCHANGED spent
  BY DEF DeleteRow
<1>3. /\ DOMAIN users' = DOMAIN users \ {i}
      /\ \A j \in DOMAIN users' : users'[j] = users[j]
  BY DEF DeleteRow, Restrict
<1>4. old' = [j \in DOMAIN old \ {i} |-> old[j]]
  BY <1>3
<1>5. i \in DOMAIN old
  BY <1>2
<1> QED
  BY <1>1, <1>2, <1>4, <1>5 DEF Directory!Remove, Wished

-----------------------------------------------------------------------------
\* What the directory calls truthful, in the words of the service.
LEMMA TruthfulHere ==
  ASSUME ServiceInv, NEW r \in Requests, NEW code,
         \/ code = 500
         \/ code = 201 /\ Wish(r).does = "create" /\ r \in carried
         \/ code = 409 /\ Wish(r).does = "create" /\ r \notin carried
              /\ \E j \in DOMAIN users : users[j].email = Wish(r).email
         \/ code = 404 /\ Wish(r).does \in {"change", "remove", "look"}
              /\ r \notin carried /\ Wish(r).id \notin DOMAIN users
         \/ code = 200 /\ Wish(r).does = "look" /\ Wish(r).id \in DOMAIN users
         \/ code \in {200, 401} /\ Wish(r).does = "enter"
  PROVE  Directory!Truthful(r, code)
<1>1. [o \in Requests |-> Wish(o)][r] = Wish(r)
  OBVIOUS
<1>2. [o \in Requests |-> o \in carried][r] <=> r \in carried
  BY Zenon
<1>3. DOMAIN [j \in DOMAIN users |-> users[j].email] = DOMAIN users
  OBVIOUS
<1>4. \A j \in DOMAIN users :
        [k \in DOMAIN users |-> users[k].email][j] = users[j].email
  OBVIOUS
<1> QED
  BY <1>1, <1>2, <1>3, <1>4 DEF Directory!Truthful

\* A step that the directory does not notice.
LEMMA DirectoryStutters ==
  ASSUME AccountInv, NEW r \in Requests, at[r] # "idle", NEW s, s # "idle",
         at' = [at EXCEPT ![r] = s], UNCHANGED <<table, asked, status>>
  PROVE  UNCHANGED Directory!directory
<1>1. Wished' = Wished
  BY IdleStays, WishStays DEF AccountInv
<1> QED
  BY <1>1 DEF Directory!directory, Wished, table

\* A request that arrives asks the directory.
LEMMA ArrivalRefines ==
  ASSUME AccountInv, NEW r \in Requests, NEW q \in Payloads,
         Reject(r, q) \/ Accept(r, q)
  PROVE  Directory!Ask(r)
<1>1. /\ at[r] = "idle" /\ status[r] = 0 /\ status \in [Requests -> Codes]
      /\ at \in [Requests -> Statements \cup {"idle", "adrift", "end"}]
      /\ asked \in [Requests -> Payload] /\ q \in Payload
  BY ServiceAssumption, InvUnfolds
     DEF Reject, Accept, Arrives, AccountInv, Accounted
<1>2. PICK s, code : /\ at' = [at EXCEPT ![r] = s] /\ s # "idle"
                     /\ status' = [status EXCEPT ![r] = code]
                     /\ code \in {0, 400}
  <2>1. FirstStatement(q.op) # "idle"
    BY <1>1 DEF FirstStatement, Payload, Ops
  <2>2. CASE Reject(r, q)
    BY <2>2 DEF Reject, Answers
  <2>3. CASE Accept(r, q)
    <3>1. status' = [status EXCEPT ![r] = 0]
      BY <1>1, <2>3 DEF Accept, Moves
    <3> HIDE DEF FirstStatement
    <3> QED
      BY <2>1, <2>3, <3>1 DEF Accept, Moves
  <2> QED
    BY <2>2, <2>3
<1>3. asked' = [asked EXCEPT ![r] = q] /\ UNCHANGED <<table, locals>>
  BY DEF Reject, Accept, Arrives
<1>4. \A o \in Requests \ {r} : Wish(o)' = Wish(o)
  <2> SUFFICES ASSUME NEW o \in Requests \ {r} PROVE Wish(o)' = Wish(o)
    OBVIOUS
  <2>1. at'[o] = at[o] /\ asked'[o] = asked[o]
    BY <1>1, <1>2, <1>3
  <2> QED
    BY <2>1 DEF Wish
<1>5. Wish(r)' \in Directory!Wishes
  <2>1. at'[r] # "idle" /\ asked'[r] = q
    BY <1>1, <1>2, <1>3
  <2>2. q.op \in Ops /\ q.id \in Ids \cup {Absent} /\ q.email \in Typed \cup {Absent}
    BY <1>1 DEF Payload
  <2>3. Wish(r)'.does \in {"create", "change", "remove", "look", "enter"}
    BY <2>1, <2>2 DEF Wish, Does, Ops
  <2>4. Wish(r)'.id = q.id
    BY <2>1 DEF Wish
  <2>5. Wish(r)'.email \in Emails \cup {Absent}
    BY <2>1, <2>2, ServiceAssumption DEF Wish
  <2>6. PICK d, i, e : Wish(r)' = [does |-> d, id |-> i, email |-> e]
    BY Zenon DEF Wish
  <2>7. d = Wish(r)'.does /\ i = Wish(r)'.id /\ e = Wish(r)'.email
    BY <2>6
  <2> QED
    BY <2>2, <2>3, <2>4, <2>5, <2>6, <2>7 DEF Directory!Wishes
<1>6. Wished' = [Wished EXCEPT ![r] = Wished'[r]] /\ Wished'[r] = Wish(r)'
  BY <1>4 DEF Wished
<1>7. Wished[r].does = "nothing"
  BY <1>1 DEF Wished, Wish
<1>8. status' = [status EXCEPT ![r] = status'[r]] /\ status'[r] \in {0, 400}
  BY <1>1, <1>2
<1>9. UNCHANGED <<[i \in DOMAIN users |-> users[i].email], spent,
                  [o \in Requests |-> o \in carried]>>
  BY <1>3 DEF table
<1> HIDE DEF Directory!Wishes
<1> QED
  BY <1>5, <1>6, <1>7, <1>8, <1>9 DEF Directory!Ask, Wished

\* The directory is in an initial state when the service is.
LEMMA DirectoryInit == Init => Directory!Init
<1> SUFFICES ASSUME Init PROVE Directory!Init
  OBVIOUS
<1> DEFINE held == [i \in DOMAIN users |-> users[i].email]
<1>1. ServiceInv
  BY ServiceInvInit
<1>2. spent \in SUBSET Ids /\ DOMAIN users \subseteq spent
  BY <1>1, InvUnfolds DEF TableOK
<1>3. held \in [DOMAIN users -> Emails] /\ DOMAIN users \in SUBSET spent
  BY <1>1, <1>2, InvUnfolds DEF TableOK, Rows
<1>4. \A i \in DOMAIN held : \A j \in DOMAIN held : held[j] = held[i] => j = i
  BY <1>1 DEF ServiceInv, UniqueEmails
<1>5. Wished = [r \in Requests |->
                  [does |-> "nothing", id |-> Absent, email |-> Absent]]
  <2>1. ASSUME NEW r \in Requests
        PROVE  Wish(r) = [does |-> "nothing", id |-> Absent, email |-> Absent]
    <3>1. at[r] = "idle" /\ asked[r].id = Absent /\ asked[r].email = Absent
      BY DEF Init, Unasked
    <3> QED
      BY <3>1 DEF Wish
  <2> QED
    BY <2>1 DEF Wished
<1>6. [r \in Requests |-> r \in carried] = [r \in Requests |-> FALSE]
  <2>1. \A r \in Requests : (r \in carried) = FALSE
    BY DEF Init
  <2> QED
    BY <2>1, Zenon
<1>7. status = [r \in Requests |-> 0]
  BY DEF Init
<1> QED
  BY <1>2, <1>3, <1>4, <1>5, <1>6, <1>7 DEF Directory!Init, Directory!Free, Wished

\* Every step of the service is a step of the directory, or one it does not
\* notice.
LEMMA DirectoryNext ==
  AccountInv /\ [Next]_vars => [Directory!Next]_(Directory!directory)
<1> SUFFICES ASSUME AccountInv, [Next]_vars
             PROVE  Directory!Next \/ UNCHANGED Directory!directory
  BY DEF Directory!Next
<1> HIDE DEF Directory!directory
<1>1. ServiceInv
  BY DEF AccountInv
<1>2. CASE UNCHANGED vars
  BY <1>2 DEF vars, table, Wish, Directory!directory
<1>3. ASSUME NEW r \in Requests, NEW q \in Payloads, Reject(r, q) \/ Accept(r, q)
      PROVE  Directory!Ask(r)
  BY <1>3, ArrivalRefines
<1>4. ASSUME NEW r \in Requests, Register(r)
      PROVE  Directory!Perform(r) \/ Directory!Answer(r) \/ UNCHANGED Directory!directory
  <2>1. /\ at[r] \in Statements /\ at[r] # "idle" /\ status[r] = 0
        /\ asked[r].op \in {"register", "store"} /\ Wish(r).does = "create"
        /\ Wish(r).email = Normalise(asked[r].email)
    <3>1. /\ at[r] \in {"exists", "hash", "insert", "read back"}
          /\ at[r] \in Statements /\ at[r] # "idle"
      BY <1>4 DEF Register, CheckExists, Hash, Insert, InsertDuplicate, ReadBack,
                  Statements
    <3>2. /\ asked[r].op \in {"register", "store"} /\ status[r] = 0
          /\ asked[r] \in Payloads
      BY <1>1, <3>1, InvUnfolds DEF Placed, AccountInv, Accounted
    <3>3. asked[r].email # Absent
      BY <3>2, ServiceAssumption
    <3> QED
      BY <1>1, <3>1, <3>2, <3>3, WishOf
  <2>2. at[r] \in {"exists", "insert"} => r \notin carried
    BY DEF AccountInv, Accounted
  <2>3. CASE CheckExists(r) /\ Holders(Normalise(asked[r].email)) # {}
    <3>1. \E j \in DOMAIN users : users[j].email = Wish(r).email
      BY <2>1, <2>3 DEF Holders
    <3>2. Directory!Truthful(r, 409)
      BY <1>1, <2>1, <2>2, <2>3, <3>1, TruthfulHere DEF CheckExists
    <3> QED
      BY <2>1, <2>3, <3>2, AnswersRefine DEF CheckExists
  <2>4. CASE CheckExists(r) /\ Holders(Normalise(asked[r].email)) = {}
    BY <2>1, <2>4, DirectoryStutters DEF CheckExists, Moves
  <2>5. CASE Hash(r)
    BY <2>1, <2>5, DirectoryStutters DEF Hash, Moves
  <2>6. CASE Insert(r)
    <3>1. Moves(r, "read back") /\ r \notin carried
      BY <2>2, <2>6 DEF Insert
    <3>2. carried' = carried \cup {r} /\ Directory!Create(r) /\ UNCHANGED asked
      BY <1>1, <2>1, <2>6, InsertRefines DEF Insert, InsertRow
    <3> QED
      BY <2>1, <3>1, <3>2, PerformRefines
  <2>7. CASE InsertDuplicate(r)
    <3>1. \E j \in DOMAIN users : users[j].email = Wish(r).email
      BY <2>1, <2>7 DEF Holders, InsertDuplicate
    <3>2. Directory!Truthful(r, 409)
      BY <1>1, <2>1, <2>2, <2>7, <3>1, TruthfulHere DEF InsertDuplicate
    <3> QED
      BY <2>1, <2>7, <3>2, AnswersRefine DEF InsertDuplicate
  <2>8. CASE ReadBack(r)
    <3>1. r \in carried
      BY <2>8 DEF ReadBack, AccountInv, Accounted
    <3>2. Directory!Truthful(r, 201) /\ Directory!Truthful(r, 500)
      BY <1>1, <2>1, <3>1, TruthfulHere
    <3>3. Directory!Truthful(r, IF row[r] \in DOMAIN users THEN 201 ELSE 500)
      BY <3>2
    <3> QED
      BY <2>1, <2>8, <3>3, AnswersRefine DEF ReadBack
  <2> QED
    BY <1>4, <2>3, <2>4, <2>5, <2>6, <2>7, <2>8 DEF Register, CheckExists
<1>5. ASSUME NEW r \in Requests, Login(r)
      PROVE  Directory!Answer(r) \/ UNCHANGED Directory!directory
  <2>1. /\ at[r] \in Statements /\ at[r] # "idle" /\ Wish(r).does = "enter"
    <3>1. /\ at[r] \in {"look up", "verify"}
          /\ at[r] \in Statements /\ at[r] # "idle"
      BY <1>5 DEF Login, LookUp, LookUpMisses, LookUpBreaks, Verified, Mismatch,
                  VerifyTimeout, TimedOut, Statements
    <3> QED
      BY <1>1, <3>1, InvUnfolds, WishOf DEF Placed
  <2>2. CASE LookUp(r)
    BY <2>1, <2>2, DirectoryStutters DEF LookUp, Moves
  <2>3. CASE ~LookUp(r)
    <3>1. /\ Answers(r, 200) \/ Answers(r, 401) \/ Answers(r, 500)
          /\ UNCHANGED <<table, asked>>
      BY <1>5, <2>3
         DEF Login, LookUpMisses, LookUpBreaks, Verified, Mismatch, VerifyTimeout
    <3>2. /\ Directory!Truthful(r, 200) /\ Directory!Truthful(r, 401)
          /\ Directory!Truthful(r, 500)
      BY <1>1, <2>1, TruthfulHere
    <3> QED
      BY <2>1, <3>1, <3>2, AnswersRefine
  <2> QED
    BY <2>2, <2>3
<1>6. ASSUME NEW r \in Requests, ById(r)
      PROVE  Directory!Perform(r) \/ Directory!Answer(r)
  <2>1. /\ at[r] \in {"select", "update", "delete"} /\ at[r] \in Statements
        /\ at[r] # "idle" /\ status[r] = 0 /\ r \notin carried
        /\ Wish(r).id = asked[r].id
        /\ at[r] = "select" => Wish(r).does = "look"
        /\ at[r] = "update" => asked[r].op = "update" /\ Wish(r).does = "change"
        /\ at[r] = "delete" => asked[r].op = "destroy" /\ Wish(r).does = "remove"
    <3>1. /\ at[r] \in {"select", "update", "delete"}
          /\ at[r] \in Statements /\ at[r] # "idle"
      BY <1>6 DEF ById, Select, NoRow, Update, UpdateDuplicate, Delete, Statements
    <3>2. Accounted(r)
      BY DEF AccountInv
    <3>3. status[r] = 0 /\ r \notin carried
      BY <3>1, <3>2 DEF Accounted
    <3> QED
      BY <1>1, <3>1, <3>3, InvUnfolds, WishOf DEF Placed
  <2>2. CASE Select(r)
    <3>1. Directory!Truthful(r, 200)
      BY <1>1, <2>1, <2>2, TruthfulHere DEF Select
    <3> QED
      BY <2>1, <2>2, <3>1, AnswersRefine DEF Select
  <2>3. CASE NoRow(r)
    <3>1. Directory!Truthful(r, 404)
      BY <1>1, <2>1, <2>3, TruthfulHere DEF NoRow
    <3> QED
      BY <2>1, <2>3, <3>1, AnswersRefine DEF NoRow, RowsAnswer
  <2>4. CASE UpdateDuplicate(r)
    <3>1. Directory!Truthful(r, 500)
      BY <1>1, TruthfulHere
    <3> QED
      BY <2>1, <2>4, <3>1, AnswersRefine DEF UpdateDuplicate
  <2>5. CASE Update(r) \/ Delete(r)
    <3>1. Answers(r, 200) /\ carried' = carried \cup {r} /\ UNCHANGED asked
      BY <2>5 DEF Update, Delete, RowsAnswer, UpdateRow, DeleteRow
    <3>2. /\ Directory!Change(r) \/ Directory!Remove(r)
          /\ Wish(r).does # "create"
      BY <1>1, <2>1, <2>5, UpdateRefines, DeleteRefines DEF Update, Delete
    <3> QED
      BY <2>1, <3>1, <3>2, PerformRefines
  <2> QED
    BY <1>6, <2>2, <2>3, <2>4, <2>5 DEF ById
<1>7. ASSUME NEW r \in Requests, Fails(r) \/ Breaks(r)
      PROVE  Directory!Answer(r)
  <2>1. Directory!Truthful(r, 500)
    BY <1>1, TruthfulHere
  <2>2. PICK s \in {"adrift", "end"} :
          /\ at[r] \in Statements /\ UNCHANGED <<table, asked>>
          /\ status' = [status EXCEPT ![r] = 500]
          /\ at' = [at EXCEPT ![r] = s]
    BY <1>7 DEF Fails, Breaks, Answers, Statements
  <2> QED
    BY <2>1, <2>2, AnswerRefines
<1>8. ASSUME NEW r \in Requests, Leaves(r) PROVE UNCHANGED Directory!directory
  BY <1>8, DirectoryStutters DEF Leaves, Moves, Statements
<1>9. ASSUME NEW r \in Requests, Settles(r)
      PROVE  Directory!Perform(r) \/ UNCHANGED Directory!directory
  <2>1. CASE UNCHANGED table
    BY <1>9, <2>1, DirectoryStutters DEF Settles, Moves
  <2>2. CASE Write(r)
    <3>1. /\ at[r] # "idle" /\ status[r] \in {0, 500} /\ r \notin carried
          /\ Moves(r, "end") /\ UNCHANGED asked
      BY <1>9 DEF Settles, AccountInv, Accounted
    <3>2. carried' = carried \cup {r}
      BY <2>2 DEF Write, InsertRow, UpdateRow, DeleteRow
    <3>3. Directory!Create(r) \/ Directory!Change(r) \/ Directory!Remove(r)
      BY <1>1, <2>2, <3>1, InsertRefines, UpdateRefines, DeleteRefines DEF Write
    <3> QED
      BY <3>1, <3>2, <3>3, PerformRefines
  <2> QED
    BY <1>9, <2>1, <2>2 DEF Settles
<1> QED
  BY <1>2, <1>3, <1>4, <1>5, <1>6, <1>7, <1>8, <1>9 DEF Next, Directory!Next

\* The accounts of every request are right at every moment.
THEOREM AccountsInvariant == Spec => []AccountInv
BY AccountInit, AccountNext, PTL DEF Spec

\* The answers are truthful: the handlers implement the directory, however
\* their statements interleave, break or go on without them.
THEOREM AnswersTruthful == Spec => AnswersAreTruthful
<1>1. Spec => []AccountInv
  BY AccountsInvariant
<1>2. Spec => Directory!Init /\ [][Directory!Next]_(Directory!directory)
  BY <1>1, DirectoryInit, DirectoryNext, PTL DEF Spec
<1> QED
  BY <1>2 DEF AnswersAreTruthful, Directory!Spec
=============================================================================
