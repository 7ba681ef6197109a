-------------------------- MODULE UserHistoryProofs --------------------------
(***************************************************************************)
(* What a login may answer, for any number of requests, any payloads and   *)
(* any initial tables: TokensAreEarned and RefusalsHaveACause.             *)
(***************************************************************************)
EXTENDS UserHistory, UserServiceProofs

\* What the history says of a login on its way.  Before it verifies, the rows
\* that have matched all along match still; when it does, the row it found has
\* matched, or none has all along.
Watched(r) ==
  /\ at[r] \in {"look up", "verify"} => steady[r] \subseteq MatchesOf(r)
  /\ at[r] = "verify" =>
       IF Matches(r) THEN row[r] \in matched[r] ELSE steady[r] = {}
  /\ asked[r].op = "login" /\ status[r] = 200 => row[r] \in matched[r]
  /\ asked[r].op = "login" /\ status[r] = 401 => steady[r] = {} \/ r \in failed

HistoryInv == AccountInv /\ \A r \in Requests : Watched(r)

\* How the history of one request goes on.
LEMMA WatchOf ==
  ASSUME HistoryNext, NEW r \in Requests
  PROVE  /\ matched'[r] =
              Watch(r, matched[r], MatchesOf(r)', matched[r] \cup MatchesOf(r)')
         /\ steady'[r] =
              Watch(r, steady[r], MatchesOf(r)', steady[r] \cap MatchesOf(r)')
BY DEF HistoryNext

\* A failure that was noted stays noted.
LEMMA FailuresStay == HistoryNext => failed \subseteq failed'
  BY DEF HistoryNext, NoteFailure

\* One that happens is noted, if it is not a SELECT that finds nobody.
LEMMA FailuresNoted ==
  ASSUME HistoryNext, ServiceInv, NEW r \in Requests, LookUpBreaks(r)
  PROVE  LookUpMisses(r) \/ r \in failed'
<1>1. CASE \A o \in Requests : LookUpBreaks(o) => LookUpMisses(o)
  BY <1>1
<1>2. ASSUME NEW o \in Requests, LookUpBreaks(o), failed' = failed \cup {o}
      PROVE  r \in failed'
  <2>1. at[r] = "look up" /\ at'[r] = "end" /\ at' = [at EXCEPT ![o] = "end"]
    BY <1>2, InvUnfolds DEF LookUpBreaks, Answers
  <2>2. o = r
    BY <2>1, InvUnfolds
  <2> QED
    BY <1>2, <2>2
<1> QED
  BY <1>1, <1>2 DEF HistoryNext, NoteFailure

\* The history of a login that is on its way.
LEMMA WatchLogin ==
  ASSUME HistoryNext, NEW r \in Requests,
         asked'[r].op = "login", at[r] # "idle", at[r] # "end"
  PROVE  /\ matched'[r] = matched[r] \cup MatchesOf(r)'
         /\ steady'[r] = steady[r] \cap MatchesOf(r)'
BY WatchOf DEF Watch

\* A request that stays where it is stays watched, whatever the others do.
LEMMA BystanderWatched ==
  ASSUME HistoryNext, ServiceInv, NEW o \in Requests, Watched(o), Accounted(o),
         at'[o] = at[o], asked'[o] = asked[o], row'[o] = row[o],
         secret'[o] = secret[o], status'[o] = status[o]
  PROVE  Watched(o)'
<1>1. CASE at[o] \in {"look up", "verify"}
  <2>1. asked[o].op = "login"
    BY <1>1 DEF ServiceInv, Placed
  <2>2. /\ matched'[o] = matched[o] \cup MatchesOf(o)'
        /\ steady'[o] = steady[o] \cap MatchesOf(o)'
    BY <1>1, <2>1, WatchLogin
  <2>3. Matches(o)' <=> Matches(o)
    BY DEF Matches
  <2>4. status'[o] \notin {200, 401}
    <3>1. at[o] \in Statements
      BY <1>1 DEF Statements
    <3>2. status[o] = 0
      BY <3>1 DEF Accounted
    <3> QED
      BY <3>2
  <2> QED
    BY <1>1, <2>2, <2>3, <2>4 DEF Watched
<1>2. CASE at[o] = "end"
  <2>1. matched'[o] = matched[o] /\ steady'[o] = steady[o]
    BY <1>2, WatchOf DEF Watch
  <2> QED
    BY <1>2, <2>1, FailuresStay DEF Watched
<1>3. CASE at[o] \notin {"look up", "verify", "end"}
  <2>1. at[o] \in Statements \cup {"idle", "adrift"}
    BY <1>3, InvUnfolds
  <2>2. status'[o] \notin {200, 401}
    <3>1. status[o] \in {0, 500}
      BY <2>1 DEF Accounted
    <3> QED
      BY <3>1
  <2> QED
    BY <1>3, <2>2 DEF Watched
<1> QED
  BY <1>1, <1>2, <1>3

\* The row that holds the address of a login is the only one that may match.
LEMMA HolderMatches ==
  ASSUME ServiceInv, NEW r \in Requests
  PROVE  /\ MatchesOf(r) \subseteq Holders(Normalise(asked[r].email))
         /\ \A i \in Holders(Normalise(asked[r].email)) :
              IF asked[r].password = users[i].password
              THEN i \in MatchesOf(r) ELSE MatchesOf(r) = {}
<1>1. MatchesOf(r) \subseteq Holders(Normalise(asked[r].email))
  BY DEF MatchesOf, Holders, Normalise
<1>2. ASSUME NEW i \in Holders(Normalise(asked[r].email))
      PROVE  IF asked[r].password = users[i].password
             THEN i \in MatchesOf(r) ELSE MatchesOf(r) = {}
  <2>1. i \in DOMAIN users /\ users[i].email = Canonical[asked[r].email]
    BY <1>2 DEF Holders, Normalise
  <2>2. \A j \in MatchesOf(r) : j = i /\ users[j].password = asked[r].password
    BY <2>1 DEF MatchesOf, ServiceInv, UniqueEmails
  <2> QED
    BY <2>1, <2>2 DEF MatchesOf
<1> QED
  BY <1>1, <1>2

\* A row that a login finds has matched, or nothing has all along.
LEMMA LookUpWatched ==
  ASSUME HistoryNext, HistoryInv, ServiceInv', NEW r \in Requests, LookUp(r)
  PROVE  Watched(r)'
<1>1. /\ at[r] = "look up" /\ at'[r] = "verify" /\ asked'[r] = asked[r]
      /\ status'[r] = 0 /\ asked[r].op = "login" /\ users' = users
  BY InvUnfolds
     DEF LookUp, Moves, HistoryInv, AccountInv, Placed, Accounted, Statements, table
<1>2. PICK i \in Holders(Normalise(asked[r].email)) :
        row'[r] = i /\ secret'[r] = users[i].password
  BY InvUnfolds DEF LookUp, HistoryInv, AccountInv
<1>3. MatchesOf(r)' = MatchesOf(r)
  BY <1>1 DEF MatchesOf
<1>4. /\ matched'[r] = matched[r] \cup MatchesOf(r)
      /\ steady'[r] = steady[r] \cap MatchesOf(r)
  BY <1>1, <1>3, WatchLogin
<1>5. Matches(r)' <=> asked[r].password = users[i].password
  BY <1>1, <1>2 DEF Matches
<1>6. IF asked[r].password = users[i].password
      THEN i \in MatchesOf(r) ELSE MatchesOf(r) = {}
  BY HolderMatches DEF HistoryInv, AccountInv
<1>7. IF Matches(r)' THEN row'[r] \in matched'[r] ELSE steady'[r] = {}
  BY <1>2, <1>4, <1>5, <1>6
<1>8. steady'[r] \subseteq MatchesOf(r)'
  BY <1>3, <1>4
<1>9. status'[r] \notin {200, 401}
  <2>1. status'[r] = 0
    BY <1>1
  <2> QED
    BY <2>1
<1> QED
  BY <1>1, <1>7, <1>8, <1>9 DEF Watched

\* A request that arrives is watched from then on.
LEMMA ArrivalWatched ==
  ASSUME HistoryNext, HistoryInv, NEW r \in Requests, NEW q \in Payloads,
         Reject(r, q) \/ Accept(r, q)
  PROVE  Watched(r)'
<1>1. /\ at[r] = "idle" /\ asked'[r] = q /\ status'[r] \notin {200, 401}
      /\ at'[r] \in {"look up", "verify"} => q.op = "login"
      /\ at'[r] # "verify"
  <2>1. at[r] = "idle" /\ asked' = [asked EXCEPT ![r] = q] /\ status[r] = 0
    BY DEF Reject, Accept, Arrives, HistoryInv, AccountInv, Accounted
  <2>2. q.op \in Ops
    BY ServiceAssumption DEF Payload
  <2>3. FirstStatement(q.op) # "verify" /\
          (FirstStatement(q.op) = "look up" => q.op = "login")
    BY <2>2 DEF FirstStatement, Ops
  <2>4. CASE Reject(r, q)
    BY <2>1, <2>4, InvUnfolds DEF Reject, Answers, HistoryInv, AccountInv
  <2>5. CASE Accept(r, q)
    <3> HIDE DEF FirstStatement
    <3>1. at'[r] = FirstStatement(q.op) /\ asked'[r] = q
      BY <2>1, <2>5, InvUnfolds DEF Accept, Moves, HistoryInv, AccountInv
    <3>2. status'[r] \notin {200, 401}
      BY <2>1, <2>5 DEF Accept, Moves
    <3> QED
      BY <2>1, <2>3, <3>1, <3>2
  <2> QED
    BY <2>4, <2>5
<1>2. q.op = "login" => steady'[r] = MatchesOf(r)'
  BY <1>1, WatchOf DEF Watch
<1> QED
  BY <1>1, <1>2 DEF Watched

\* A request that ends is watched: a login among them answers 200 only when the
\* password it was given is the one it read, 401 only when no user was his all
\* along or the SELECT failed.
LEMMA EndWatched ==
  ASSUME HistoryNext, HistoryInv, NEW r \in Requests, at[r] # "idle",
         at'[r] \notin {"look up", "verify"}, asked'[r] = asked[r],
         row'[r] = row[r] \/ asked[r].op # "login",
         status'[r] = 200 /\ asked[r].op = "login"
           => status[r] = 200 \/ (at[r] = "verify" /\ Matches(r)),
         status'[r] = 401 /\ asked[r].op = "login"
           => status[r] = 401 \/ steady[r] = {} \/ r \in failed'
  PROVE  Watched(r)'
<1>1. ASSUME asked[r].op = "login", status'[r] = 200
      PROVE  row'[r] \in matched'[r]
  <2>1. row[r] \in matched[r]
    BY <1>1 DEF HistoryInv, Watched
  <2>2. matched[r] \subseteq matched'[r]
    BY <1>1, WatchOf DEF Watch
  <2> QED
    BY <1>1, <2>1, <2>2
<1>2. ASSUME asked[r].op = "login", status'[r] = 401
      PROVE  steady'[r] = {} \/ r \in failed'
  <2>1. steady[r] = {} \/ r \in failed'
    BY <1>2, FailuresStay DEF HistoryInv, Watched
  <2>2. steady'[r] \subseteq steady[r]
    BY <1>2, WatchOf DEF Watch
  <2> QED
    BY <2>1, <2>2
<1> QED
  BY <1>1, <1>2 DEF Watched

\* A SELECT that finds nobody shows that no user was the login's all along.
LEMMA MissMeansNobody ==
  ASSUME HistoryInv, NEW r \in Requests, LookUpMisses(r)
  PROVE  steady[r] = {}
<1>1. MatchesOf(r) = {}
  BY HolderMatches DEF LookUpMisses, HistoryInv, AccountInv
<1> QED
  BY <1>1 DEF HistoryInv, Watched, LookUpMisses

\* One step of one request keeps it watched.
LEMMA ActorWatched ==
  ASSUME HistoryNext, HistoryInv, ServiceInv', NEW r \in Requests,
         \/ Register(r) \/ Login(r) \/ ById(r)
         \/ Fails(r) \/ Breaks(r) \/ Leaves(r) \/ Settles(r)
  PROVE  Watched(r)'
<1> USE DEF HistoryInv, AccountInv
<1>1. at[r] # "idle" /\ UNCHANGED asked
  BY DEF Register, CheckExists, Hash, Insert, InsertDuplicate, ReadBack,
         Login, LookUp, LookUpMisses, LookUpBreaks, Verified, Mismatch,
         VerifyTimeout, TimedOut, ById, Select, NoRow, Update, UpdateDuplicate,
         Delete, Fails, Breaks, Leaves, Settles, Statements
<1>2. CASE Register(r)
  <2>1. asked[r].op # "login" /\ at'[r] \notin {"look up", "verify"}
    BY <1>2, InvUnfolds
       DEF Register, CheckExists, Hash, Insert, InsertDuplicate, ReadBack,
           Placed, Moves, Answers
  <2> QED
    BY <1>1, <2>1, EndWatched
<1>3. CASE LookUp(r)
  BY <1>3, LookUpWatched
<1>4. CASE Login(r) /\ ~LookUp(r)
  <2>1. \/ Answers(r, 401) \/ Answers(r, 500)
        \/ Answers(r, 200) /\ at[r] = "verify" /\ Matches(r)
    BY <1>4, Zenon
       DEF Login, LookUpMisses, LookUpBreaks, Verified, Mismatch, VerifyTimeout
  <2>2. row' = row
    BY <1>4
       DEF Login, LookUpMisses, LookUpBreaks, Verified, Mismatch, VerifyTimeout,
           locals
  <2>3. ASSUME NEW code, Answers(r, code)
        PROVE  at'[r] \notin {"look up", "verify"} /\ status'[r] = code
    BY <2>3, InvUnfolds DEF Answers
  <2>4. at'[r] \notin {"look up", "verify"}
    BY <2>1, <2>3
  <2>5. status'[r] = 200 => at[r] = "verify" /\ Matches(r)
    <3>1. Answers(r, 401) => status'[r] = 401
      BY <2>3
    <3>2. Answers(r, 500) => status'[r] = 500
      BY <2>3
    <3>3. CASE Answers(r, 401)
      BY <3>1, <3>3
    <3>4. CASE Answers(r, 500)
      BY <3>2, <3>4
    <3> QED
      BY <2>1, <3>3, <3>4
  <2>6. status'[r] = 401 => steady[r] = {} \/ r \in failed'
    <3>1. CASE LookUpMisses(r)
      BY <3>1, MissMeansNobody
    <3>2. CASE LookUpBreaks(r)
      BY <3>2, FailuresNoted, MissMeansNobody
    <3>3. CASE Mismatch(r)
      BY <3>3 DEF Mismatch, Watched
    <3>4. Verified(r) => status'[r] # 401
      <4>1. Verified(r) => status'[r] = 200
        BY <2>3 DEF Verified
      <4> QED
        BY <4>1
    <3>5. VerifyTimeout(r) => status'[r] # 401
      <4>1. VerifyTimeout(r) => status'[r] = 500
        BY <2>3 DEF VerifyTimeout
      <4> QED
        BY <4>1
    <3> QED
      BY <1>4, <3>1, <3>2, <3>3, <3>4, <3>5 DEF Login
  <2> QED
    BY <1>1, <2>2, <2>4, <2>5, <2>6, EndWatched
<1>5. CASE ById(r)
  <2>1. asked[r].op # "login" /\ at'[r] = "end"
    BY <1>5, InvUnfolds
       DEF ById, Select, NoRow, Update, UpdateDuplicate, Delete, Placed, Answers
  <2> QED
    BY <1>1, <2>1, EndWatched
<1>6. CASE Fails(r) \/ Breaks(r)
  <2>1. PICK s \in {"end", "adrift"} :
          /\ at' = [at EXCEPT ![r] = s] /\ status' = [status EXCEPT ![r] = 500]
          /\ row' = row
    BY <1>6 DEF Fails, Breaks, Answers, locals
  <2>2. at'[r] \in {"end", "adrift"} /\ status'[r] = 500
    BY <2>1, InvUnfolds
  <2>3. status'[r] \notin {200, 401} /\ row'[r] = row[r]
    BY <2>1, <2>2
  <2>4. at'[r] \notin {"look up", "verify"} /\ asked'[r] = asked[r]
    BY <1>1, <2>2
  <2> QED
    BY <1>1, <2>3, <2>4, EndWatched
<1>7. CASE Leaves(r) \/ Settles(r)
  <2>1. at'[r] \in {"end", "adrift"} /\ row' = row /\ status' = status
    BY <1>7, InvUnfolds DEF Leaves, Settles, Moves, locals
  <2> QED
    BY <1>1, <2>1, EndWatched
<1> QED
  BY <1>2, <1>3, <1>4, <1>5, <1>6, <1>7

\* A step of r leaves the place, the payload, the locals and the answer of every
\* other request alone.
LEMMA OthersAlone ==
  ASSUME ServiceInv, NEW r \in Requests,
         \/ \E q \in Payloads : Reject(r, q) \/ Accept(r, q)
         \/ Register(r) \/ Login(r) \/ ById(r)
         \/ Fails(r) \/ Breaks(r) \/ Leaves(r) \/ Settles(r)
  PROVE  \A o \in Requests \ {r} :
           /\ at'[o] = at[o] /\ asked'[o] = asked[o] /\ row'[o] = row[o]
           /\ secret'[o] = secret[o] /\ status'[o] = status[o]
<1>1. CASE \E q \in Payloads : Reject(r, q) \/ Accept(r, q)
  BY <1>1, InvUnfolds DEF Reject, Accept, Arrives, Answers, Moves, locals
<1> DEFINE Goes == (\E s : Moves(r, s)) \/ (\E code : Answers(r, code))
           Alone == \A o \in Requests \ {r} : /\ at'[o] = at[o]
                                             /\ status'[o] = status[o]
<1>0. Goes => Alone
  BY InvUnfolds DEF Moves, Answers
<1> HIDE DEF Goes
<1>2. CASE Register(r)
  <2>1. Goes
    BY <1>2 DEF Register, CheckExists, Hash, Insert, InsertDuplicate, ReadBack, Goes
  <2>2. /\ UNCHANGED <<asked, secret>>
        /\ row' = row \/ \E i : row' = [row EXCEPT ![r] = i]
    BY <1>2
       DEF Register, CheckExists, Hash, Insert, InsertDuplicate, ReadBack, locals
  <2> QED
    BY <1>0, <2>1, <2>2, InvUnfolds
<1>3. CASE Login(r)
  <2>1. Goes
    BY <1>3 DEF Login, LookUp, LookUpMisses, LookUpBreaks, Verified, Mismatch,
                VerifyTimeout, Goes
  <2>2. /\ UNCHANGED asked
        /\ \/ UNCHANGED <<row, secret>>
           \/ /\ \E i : row' = [row EXCEPT ![r] = i]
              /\ \E w : secret' = [secret EXCEPT ![r] = w]
    BY <1>3 DEF Login, LookUp, LookUpMisses, LookUpBreaks, Verified, Mismatch,
                VerifyTimeout, locals
  <2> QED
    BY <1>0, <2>1, <2>2, InvUnfolds
<1>4. CASE ById(r)
  BY <1>4, InvUnfolds
     DEF ById, Select, NoRow, Update, UpdateDuplicate, Delete, Answers, locals
<1>5. CASE Fails(r) \/ Leaves(r) \/ Settles(r)
  <2>1. Goes
    BY <1>5 DEF Fails, Leaves, Settles, Goes
  <2> QED
    BY <1>0, <1>5, <2>1 DEF Fails, Leaves, Settles, locals
<1>6. CASE Breaks(r)
  BY <1>6, InvUnfolds DEF Breaks, locals
<1> QED
  BY <1>1, <1>2, <1>3, <1>4, <1>5, <1>6

\* Every step keeps the watch.
LEMMA HistoryStep == HistoryInv /\ [HistoryNext]_historyVars => HistoryInv'
<1> SUFFICES ASSUME HistoryInv, [HistoryNext]_historyVars PROVE HistoryInv'
  OBVIOUS
<1>1. AccountInv'
  BY AccountNext DEF HistoryInv, HistoryNext, historyVars
<1>2. CASE UNCHANGED historyVars
  <2>1. \A r \in Requests : Watched(r)'
    BY <1>2 DEF historyVars, history, vars, table, locals,
                HistoryInv, Watched, Matches, MatchesOf
  <2> QED
    BY <1>1, <2>1 DEF HistoryInv
<1>3. CASE HistoryNext
  <2>1. PICK r \in Requests :
          \/ \E q \in Payloads : Reject(r, q) \/ Accept(r, q)
          \/ Register(r) \/ Login(r) \/ ById(r)
          \/ Fails(r) \/ Breaks(r) \/ Leaves(r) \/ Settles(r)
    BY <1>3 DEF HistoryNext, Next
  <2>2. ServiceInv /\ ServiceInv'
    BY <1>1 DEF HistoryInv, AccountInv
  <2>3. Watched(r)'
    BY <1>3, <2>1, <2>2, ArrivalWatched, ActorWatched
  <2>4. ASSUME NEW o \in Requests \ {r} PROVE Watched(o)'
    <3>1. /\ at'[o] = at[o] /\ asked'[o] = asked[o] /\ row'[o] = row[o]
          /\ secret'[o] = secret[o] /\ status'[o] = status[o]
      BY <2>1, <2>2, OthersAlone
    <3>2. Watched(o) /\ Accounted(o)
      BY DEF HistoryInv, AccountInv
    <3> QED
      BY <1>3, <2>2, <3>1, <3>2, BystanderWatched
  <2>5. \A o \in Requests : Watched(o)'
    BY <2>3, <2>4
  <2> QED
    BY <1>1, <2>5 DEF HistoryInv
<1> QED
  BY <1>2, <1>3

\* At first no login has begun, and nothing was seen of anybody's credentials.
LEMMA HistoryStart == HistoryInit => HistoryInv
<1> SUFFICES ASSUME HistoryInit PROVE HistoryInv
  OBVIOUS
<1>1. \A r \in Requests : Watched(r)
  BY DEF HistoryInit, Init, Watched
<1> QED
  BY <1>1, AccountInit DEF HistoryInit, HistoryInv

-----------------------------------------------------------------------------
\* What a login has found out is backed by the history at every moment.
THEOREM HistoryInvariant == HistorySpec => []HistoryInv
BY HistoryStart, HistoryStep, PTL DEF HistorySpec

\* A token names a user who had the address and the password of the login at
\* some moment while it was handled.
THEOREM LoginsEarnTokens == HistorySpec => []TokensAreEarned
<1>1. HistoryInv => TokensAreEarned
  BY DEF HistoryInv, Watched, TokensAreEarned
<1> QED
  BY <1>1, HistoryInvariant, PTL

\* A login is refused only if no user had its address and its password all the
\* while, or its SELECT failed.
THEOREM RefusalsExplained == HistorySpec => []RefusalsHaveACause
<1>1. HistoryInv => RefusalsHaveACause
  BY DEF HistoryInv, Watched, RefusalsHaveACause
<1> QED
  BY <1>1, HistoryInvariant, PTL
==============================================================================
