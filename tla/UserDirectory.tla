---------------------------- MODULE UserDirectory ----------------------------
(***************************************************************************)
(* What the user API promises its clients, request by request: a directory *)
(* of addresses, each held by one user.  A request carries out its write   *)
(* at most once, in one step, and its answer says whether it did: 201 and  *)
(* the 200 of a write only after it, 409 and 404 only without it and while *)
(* the directory gives the reason.  500, like no answer, says nothing: the *)
(* write may have been carried out, or may still be.                       *)
(***************************************************************************)
EXTENDS Integers

CONSTANTS Requests, Ids, Emails, Absent

VARIABLES
  holder,  \* the addresses held: user id |-> address
  spent,   \* the ids given out so far
  ask,     \* what each request wants: [does, id, email]
  done,    \* whether its write was carried out
  answer   \* its status code, or 0

directory == <<holder, spent, ask, done, answer>>

Wishes == [does : {"nothing", "create", "change", "remove", "look", "enter"},
           id : Ids \cup {Absent}, email : Emails \cup {Absent}]

Free(e, i) == \A j \in DOMAIN holder : holder[j] = e => j = i

Init ==
  /\ spent \in SUBSET Ids
  /\ holder \in UNION {[d -> Emails] : d \in SUBSET spent}
  /\ \A i \in DOMAIN holder : Free(holder[i], i)
  /\ ask = [r \in Requests |-> [does |-> "nothing", id |-> Absent, email |-> Absent]]
  /\ done = [r \in Requests |-> FALSE]
  /\ answer = [r \in Requests |-> 0]

Ask(r) ==
  /\ ask[r].does = "nothing"
  /\ ask' = [ask EXCEPT ![r] = ask'[r]]
  /\ ask'[r] \in Wishes
  /\ answer' = [answer EXCEPT ![r] = answer'[r]]
  /\ answer'[r] \in {0, 400}
  /\ UNCHANGED <<holder, spent, done>>

Create(r) ==
  /\ ask[r].does = "create"
  /\ \A j \in DOMAIN holder : holder[j] # ask[r].email
  /\ \E i \in Ids \ spent :
       /\ spent' = spent \cup {i}
       /\ holder' = [j \in DOMAIN holder \cup {i} |->
                       IF j = i THEN ask[r].email ELSE holder[j]]

Change(r) ==
  /\ ask[r].does = "change"
  /\ ask[r].id \in DOMAIN holder
  /\ IF ask[r].email = Absent THEN UNCHANGED holder
     ELSE /\ Free(ask[r].email, ask[r].id)
          /\ holder' = [holder EXCEPT ![ask[r].id] = ask[r].email]
  /\ UNCHANGED spent

Remove(r) ==
  /\ ask[r].does = "remove"
  /\ ask[r].id \in DOMAIN holder
  /\ holder' = [j \in DOMAIN holder \ {ask[r].id} |-> holder[j]]
  /\ UNCHANGED spent

\* The one step that carries out r's write.  The same step may answer it.
Perform(r) ==
  /\ answer[r] \in {0, 500}
  /\ ~done[r]
  /\ Create(r) \/ Change(r) \/ Remove(r)
  /\ done' = [done EXCEPT ![r] = TRUE]
  /\ answer' = [answer EXCEPT ![r] = answer'[r]]
  /\ answer'[r] # answer[r] =>
       answer'[r] \in {500} \cup (IF ask[r].does = "create" THEN {} ELSE {200})
  /\ UNCHANGED ask

\* The answers r may get without a further write, and what each one says.
Truthful(r, code) ==
  \/ code = 500
  \/ code = 201 /\ ask[r].does = "create" /\ done[r]
  \/ code = 409 /\ ask[r].does = "create" /\ ~done[r]
       /\ \E j \in DOMAIN holder : holder[j] = ask[r].email
  \/ code = 404 /\ ask[r].does \in {"change", "remove", "look"} /\ ~done[r]
       /\ ask[r].id \notin DOMAIN holder
  \/ code = 200 /\ ask[r].does = "look" /\ ask[r].id \in DOMAIN holder
  \/ code \in {200, 401} /\ ask[r].does = "enter"

Answer(r) ==
  /\ ask[r].does # "nothing"
  /\ answer[r] = 0
  /\ answer' = [answer EXCEPT ![r] = answer'[r]]
  /\ Truthful(r, answer'[r])
  /\ UNCHANGED <<holder, spent, ask, done>>

Next ==
  \E r \in Requests :
    Ask(r) \/ Perform(r) \/ Answer(r)

Spec == Init /\ [][Next]_directory
==============================================================================
