----------------------------- MODULE UserHistory -----------------------------
(***************************************************************************)
(* UserService watched by three history variables, for what a login may    *)
(* answer.  A row matches a login when its address and its password are    *)
(* the login's.                                                            *)
(***************************************************************************)
EXTENDS UserService

VARIABLES
  matched,  \* request |-> the ids that matched at some moment since it came
  steady,   \* request |-> those that matched at every moment since it came
  failed    \* the logins whose SELECT failed

history == <<matched, steady, failed>>
historyVars == <<vars, history>>

MatchesOf(r) ==
  {i \in DOMAIN users : /\ users[i].email = Canonical[asked[r].email]
                        /\ users[i].password = asked[r].password}

HistoryInit ==
  /\ Init
  /\ matched = [r \in Requests |-> {}]
  /\ steady = [r \in Requests |-> {}]
  /\ failed = {}

\* Arrival counts as the first moment; the end of the request as the last.
Watch(r, old, first, next) ==
  IF asked'[r].op # "login" \/ at[r] = "end" THEN old
  ELSE IF at[r] = "idle" THEN first ELSE next

\* The answer alone does not tell a SELECT that fails from one that finds nobody.
NoteFailure ==
  \/ /\ \A r \in Requests : LookUpBreaks(r) => LookUpMisses(r)
     /\ UNCHANGED failed
  \/ \E r \in Requests : LookUpBreaks(r) /\ failed' = failed \cup {r}

HistoryNext ==
  /\ Next
  /\ matched' = [r \in Requests |->
       Watch(r, matched[r], MatchesOf(r)', matched[r] \cup MatchesOf(r)')]
  /\ steady' = [r \in Requests |->
       Watch(r, steady[r], MatchesOf(r)', steady[r] \cap MatchesOf(r)')]
  /\ NoteFailure

HistorySpec == HistoryInit /\ [][HistoryNext]_historyVars

FairHistorySpec == HistorySpec /\ Fairness

-----------------------------------------------------------------------------
(* Properties                                                              *)

\* A token names a user who, at some moment while the login was being handled,
\* had the address and the password the client gave: whatever was registered,
\* changed or removed between the SELECT and the verification.
TokensAreEarned ==
  \A r \in Requests :
    asked[r].op = "login" /\ status[r] = 200 => row[r] \in matched[r]

\* A login is told "Invalid email or password" (401) only if no user had its
\* address, in any case, and its password all the while it was handled, or if the
\* SELECT failed: login_handler answers that in the same words, so right
\* credentials are refused then, and only then.
RefusalsHaveACause ==
  \A r \in Requests :
    asked[r].op = "login" /\ status[r] = 401 => steady[r] = {} \/ r \in failed
=============================================================================
