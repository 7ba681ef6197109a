---------------------------- MODULE GatewayProofs ----------------------------
(***************************************************************************)
(* Gateway, for any number of requests, secrets, calls, lists of proxies   *)
(* and set-ups: who acts as a user has a token that a login handed out;    *)
(* every route has the layers it should have, in the right order; and      *)
(* whose key a request is charged under, in both kinds of server.          *)
(***************************************************************************)
EXTENDS Gateway, TLAPS

\* A request has the fields of Free.
Fields == {"route", "preflight", "head", "ahead", "ext", "mode", "key", "sub",
           "status"}

IsRequest(q) == q = [f \in Fields |-> q[f]]

\* What a login writes down of the token that it hands out.
Birth == [token : Token, at : Time, under : Secrets]

BirthsAreTrue ==
  /\ births \in SUBSET Birth
  /\ \A b \in births : /\ b.token.secret = b.under
                       /\ b.token.exp <= b.at + Lifetime

\* Nobody bears a token of ours that was not handed out.
BearersExist == \A r \in Slots : Exists(request[r].head.bearer)

SessionsInv ==
  /\ clock \in Time
  /\ secret \in Secrets \cup {Unset}
  /\ DOMAIN request = Slots
  /\ \A r \in Slots : IsRequest(request[r])
  /\ BirthsAreTrue
  /\ BearersExist

-----------------------------------------------------------------------------
\* No token is the absent one.
LEMMA NoneExists == Exists(None)
  BY ClientAssumption, GatewayAssumption DEF Exists

\* One request becomes q, which keeps its head or takes that of a call.
LEMMA RequestBecomes ==
  ASSUME SessionsInv, NEW r \in Slots, NEW q, IsRequest(q),
         request' = [request EXCEPT ![r] = q],
         Exists(q.head.bearer),
         UNCHANGED <<clock, secret>>,
         births \subseteq births', BirthsAreTrue'
  PROVE  SessionsInv'
<1>1. DOMAIN request' = Slots
  BY DEF SessionsInv
<1>2. ASSUME NEW s \in Slots
      PROVE  request'[s] = IF s = r THEN q ELSE request[s]
  BY DEF SessionsInv
<1>3. \A s \in Slots : IsRequest(request'[s])
  BY <1>2 DEF SessionsInv
<1>4. BearersExist'
  <2>1. ASSUME NEW s \in Slots
        PROVE  Exists(request[s].head.bearer)'
    <3>1. CASE s = r
      BY <1>2, <3>1 DEF Exists
    <3>2. CASE s # r
      BY <1>2, <3>2 DEF SessionsInv, BearersExist, Exists
    <3> QED
      BY <3>1, <3>2
  <2> QED
    BY <2>1 DEF BearersExist
<1> QED
  BY <1>1, <1>3, <1>4 DEF SessionsInv

\* What is said of the tokens depends on the history of them alone.
LEMMA BirthsStay ==
  ASSUME BirthsAreTrue, UNCHANGED births
  PROVE  BirthsAreTrue' /\ births \subseteq births'
  BY DEF BirthsAreTrue

\* A request that passes a layer keeps its head.
LEMMA PassesStep ==
  ASSUME SessionsInv, NEW r \in Slots, NEW q, Passes(r, q), UNCHANGED births,
         IsRequest(q), q.head = request[r].head
  PROVE  SessionsInv'
<1> DEFINE p == [q EXCEPT !.ahead = Tail(@)]
<1>1. IsRequest(p) /\ p.head = request[r].head
  BY DEF IsRequest, Fields
<1>2. request' = [request EXCEPT ![r] = p] /\ UNCHANGED <<clock, secret>>
  BY DEF Passes, world
<1> HIDE DEF p
<1>3. Exists(p.head.bearer)
  BY <1>1 DEF SessionsInv, BearersExist
<1>4. BirthsAreTrue' /\ births \subseteq births'
  BY BirthsStay DEF SessionsInv
<1> QED
  BY <1>1, <1>2, <1>3, <1>4, RequestBecomes

\* So does one that is answered.
LEMMA AnswersStep ==
  ASSUME SessionsInv, NEW r \in Slots, NEW code, Answers(r, code),
         births \subseteq births', BirthsAreTrue'
  PROVE  SessionsInv'
<1> DEFINE p == [Free EXCEPT !.route = request[r].route,
                             !.head = request[r].head, !.status = code]
<1>1. IsRequest(p) /\ p.head = request[r].head
  BY DEF IsRequest, Fields, Free
<1>2. request' = [request EXCEPT ![r] = p] /\ UNCHANGED <<clock, secret>>
  BY DEF Answers, world
<1> HIDE DEF p
<1>3. Exists(p.head.bearer)
  BY <1>1 DEF SessionsInv, BearersExist
<1> QED
  BY <1>1, <1>2, <1>3, RequestBecomes

\* The token of a login lives for a lifetime, under the secret in force.
LEMMA SignStep ==
  ASSUME SessionsInv, NEW r \in Slots, NEW u \in Users, Sign(r, u)
  PROVE  SessionsInv'
<1>1. CASE secret = Unset
  <2>1. Answers(r, 500) /\ UNCHANGED births
    BY <1>1 DEF Sign
  <2>2. BirthsAreTrue' /\ births \subseteq births'
    BY <2>1, BirthsStay DEF SessionsInv
  <2> QED
    BY <2>1, <2>2, AnswersStep
<1>2. CASE secret # Unset
  <2> DEFINE token == [sub |-> u, exp |-> Expiry, secret |-> secret]
             born == [token |-> token, at |-> clock, under |-> secret]
  <2>1. births' = births \cup {born} /\ Answers(r, 200)
    BY <1>2 DEF Sign
  <2>2. /\ secret \in Secrets /\ clock \in Time
        /\ clock \in Nat /\ clock <= MaxTime
        /\ MaxTime \in Nat /\ Lifetime \in Nat
    BY <1>2, GatewayAssumption DEF SessionsInv, Time
  <2>3. token \in Token
    BY <2>2 DEF Token, Expiry
  <2>4. born \in Birth
    BY <2>2, <2>3 DEF Birth
  <2>5. born.token.secret = born.under /\ born.token.exp <= born.at + Lifetime
    BY <2>2 DEF Expiry
  <2> HIDE DEF born
  <2>6. BirthsAreTrue' /\ births \subseteq births'
    BY <2>1, <2>4, <2>5 DEF SessionsInv, BirthsAreTrue
  <2> QED
    BY <2>1, <2>6, AnswersStep
<1> QED
  BY <1>1, <1>2

\* A client bears what exists.
LEMMA ArriveStep ==
  ASSUME SessionsInv, NEW r \in Slots, NEW c \in Calls, Arrive(r, c)
  PROVE  SessionsInv'
<1> DEFINE route == Served(c)
           p == [Free EXCEPT !.route = route, !.preflight = c.preflight,
                             !.head = c.head, !.ahead = BuildRouter(build)[route]]
<1>1. IsRequest(p) /\ p.head = c.head
  BY DEF IsRequest, Fields, Free
<1>2. request' = [request EXCEPT ![r] = p] /\ UNCHANGED <<clock, secret, births>>
  BY DEF Arrive, world
<1> HIDE DEF p
<1>3. Exists(p.head.bearer)
  BY <1>1 DEF Arrive
<1>4. BirthsAreTrue' /\ births \subseteq births'
  BY <1>2, BirthsStay DEF SessionsInv
<1> QED
  BY <1>1, <1>2, <1>3, <1>4, RequestBecomes

-----------------------------------------------------------------------------
\* Nobody begins to act as a user.
NobodyNew == \A s \in Slots : request'[s].sub \in {request[s].sub, None}

\* What passes a layer and keeps its user is nobody new.
LEMMA PassesNobodyNew ==
  ASSUME SessionsInv, NEW r \in Slots, NEW q, Passes(r, q), IsRequest(q),
         q.sub = request[r].sub
  PROVE  NobodyNew
<1>1. request' = [request EXCEPT ![r] = [q EXCEPT !.ahead = Tail(@)]]
  BY DEF Passes
<1>2. [q EXCEPT !.ahead = Tail(@)].sub = q.sub
  BY DEF IsRequest, Fields
<1> QED
  BY <1>1, <1>2 DEF SessionsInv, NobodyNew

\* Nor is what is answered.
LEMMA AnswersNobodyNew ==
  ASSUME SessionsInv, NEW r \in Slots, NEW code, Answers(r, code)
  PROVE  NobodyNew
<1> DEFINE p == [Free EXCEPT !.route = request[r].route,
                             !.head = request[r].head, !.status = code]
<1>1. request' = [request EXCEPT ![r] = p]
  BY DEF Answers
<1>2. p.sub = None
  BY DEF Free
<1> HIDE DEF p
<1> QED
  BY <1>1, <1>2 DEF SessionsInv, NobodyNew

\* What may be said of a step: the invariant holds on, and a new session is earned.
Earned ==
  \A r \in Slots : request[r].sub = None /\ request'[r].sub # None =>
    \E b \in births :
      /\ b.token = request[r].head.bearer
      /\ b.token.sub = request'[r].sub
      /\ b.under = secret
      /\ clock <= b.at + Lifetime + Leeway

\* Where nobody is new, nothing is to be earned.
LEMMA NobodyNewEarned == NobodyNew => Earned
  BY DEF NobodyNew, Earned

\* A bearer that verifies is a token of ours, in time: it was handed out.
LEMMA VerifiedIsBorn ==
  ASSUME SessionsInv, NEW bearer, Verifies(bearer), Exists(bearer)
  PROVE  \E b \in births :
           /\ b.token = bearer
           /\ b.under = secret
           /\ clock <= b.at + Lifetime + Leeway
<1>1. bearer \in Token /\ bearer.secret = secret /\ clock <= bearer.exp + Leeway
  BY DEF Verifies
<1>2. secret \in Secrets
  BY <1>1, GatewayAssumption DEF SessionsInv, Token
<1>3. PICK b \in births : b.token = bearer
  BY <1>1, <1>2 DEF Exists
<1>4. b \in Birth /\ b.token.secret = b.under /\ b.token.exp <= b.at + Lifetime
  BY DEF SessionsInv, BirthsAreTrue
<1>5. b.at \in Nat /\ bearer.exp \in Nat /\ clock \in Nat
      /\ Lifetime \in Nat /\ Leeway \in Nat
  BY <1>1, <1>4, GatewayAssumption DEF Birth, Token, Time, SessionsInv
<1>6. clock <= b.at + Lifetime + Leeway
  BY <1>1, <1>3, <1>4, <1>5
<1> QED
  BY <1>1, <1>3, <1>4, <1>6

\* The gate lets a request pass as the user of a token that verifies.
LEMMA GateStep ==
  ASSUME SessionsInv, NEW r \in Slots, Gate(r)
  PROVE  SessionsInv' /\ Earned
<1> DEFINE h == request[r].head
           q == [request[r] EXCEPT !.sub = h.bearer.sub]
<1>1. UNCHANGED births
  BY DEF Gate
<1>2. CASE h.scheme = "Bearer" /\ Verifies(h.bearer)
  <2>1. Passes(r, q)
    BY <1>2 DEF Gate
  <2>2. IsRequest(q) /\ q.head = h /\ q.sub = h.bearer.sub
    BY DEF IsRequest, Fields, SessionsInv
  <2>3. [q EXCEPT !.ahead = Tail(@)].sub = q.sub
    <3> HIDE DEF q
    <3> QED
      BY <2>2 DEF IsRequest, Fields
  <2>4. request' = [request EXCEPT ![r] = [q EXCEPT !.ahead = Tail(@)]]
    BY <2>1 DEF Passes
  <2>5. \E b \in births :
          /\ b.token = h.bearer
          /\ b.under = secret
          /\ clock <= b.at + Lifetime + Leeway
    BY <1>2, VerifiedIsBorn DEF SessionsInv, BearersExist
  <2> HIDE DEF q, h
  <2>6. /\ request'[r].sub = h.bearer.sub
        /\ \A s \in Slots \ {r} : request'[s] = request[s]
    BY <2>2, <2>3, <2>4 DEF SessionsInv
  <2>7. Earned
    BY <2>5, <2>6 DEF Earned, h
  <2>8. SessionsInv'
    BY <1>1, <2>1, <2>2, PassesStep DEF h
  <2> QED
    BY <2>7, <2>8
<1>3. CASE ~ (h.scheme = "Bearer" /\ Verifies(h.bearer))
  <2>1. Answers(r, 401)
    BY <1>3 DEF Gate
  <2>2. BirthsAreTrue' /\ births \subseteq births'
    BY <1>1, BirthsStay DEF SessionsInv
  <2> QED
    BY <2>1, <2>2, AnswersStep, AnswersNobodyNew, NobodyNewEarned
<1> QED
  BY <1>2, <1>3

\* A layer that keeps head and user.
LEMMA LayerStep ==
  ASSUME SessionsInv, NEW r \in Slots, NEW q, Passes(r, q), UNCHANGED births,
         IsRequest(q), q.head = request[r].head, q.sub = request[r].sub
  PROVE  SessionsInv' /\ Earned
  BY PassesStep, PassesNobodyNew, NobodyNewEarned

\* An answer that hands out nothing.
LEMMA AnswerStep ==
  ASSUME SessionsInv, NEW r \in Slots, NEW code, Answers(r, code), UNCHANGED births
  PROVE  SessionsInv' /\ Earned
<1>1. BirthsAreTrue' /\ births \subseteq births'
  BY BirthsStay DEF SessionsInv
<1> QED
  BY <1>1, AnswersStep, AnswersNobodyNew, NobodyNewEarned

\* The proxy middleware writes an extension.
LEMMA ResolveStep ==
  ASSUME SessionsInv, NEW r \in Slots, Resolve(r)
  PROVE  SessionsInv' /\ Earned
<1> DEFINE ip == ClientIp(request[r].head, Peer(r), proxies)
           q == [request[r] EXCEPT !.ext = ip]
<1>1. Passes(r, q) /\ UNCHANGED births
  BY DEF Resolve, history
<1> HIDE DEF ip
<1>2. IsRequest(q) /\ q.head = request[r].head /\ q.sub = request[r].sub
  BY DEF IsRequest, Fields, SessionsInv
<1> HIDE DEF q
<1> QED
  BY <1>1, <1>2, LayerStep

\* The rate limiter writes down what it charged.
LEMMA LimitStep ==
  ASSUME SessionsInv, NEW r \in Slots, NEW priority \in Priorities, Limit(r, priority)
  PROVE  SessionsInv' /\ Earned
<1> DEFINE h == request[r].head
           key == KeyOf(priority, IpSource(h, request[r].ext, Peer(r)), AuthToken(h))
           q == [request[r] EXCEPT !.mode = priority, !.key = key]
<1>1. Passes(r, q) /\ UNCHANGED births
  BY DEF Limit, history
<1> HIDE DEF key
<1>2. IsRequest(q) /\ q.head = request[r].head /\ q.sub = request[r].sub
  BY DEF IsRequest, Fields, SessionsInv
<1> HIDE DEF q
<1> QED
  BY <1>1, <1>2, LayerStep

\* The handler answers, or goes on to sign.
LEMMA HandleStep ==
  ASSUME SessionsInv, NEW r \in Slots, Handle(r)
  PROVE  SessionsInv' /\ Earned
<1> DEFINE q == [request[r] EXCEPT !.ahead = @ \o <<"sign">>]
<1>1. UNCHANGED births
  BY DEF Handle
<1>2. Passes(r, q) \/ \E code \in Nat : Answers(r, code)
  BY DEF Handle
<1>3. IsRequest(q) /\ q.head = request[r].head /\ q.sub = request[r].sub
  BY DEF IsRequest, Fields, SessionsInv
<1> HIDE DEF q
<1> QED
  BY <1>1, <1>2, <1>3, LayerStep, AnswerStep

\* Every step keeps the invariant, and a session that begins in it is earned.
LEMMA SessionsStep ==
  ASSUME SessionsInv, [Next]_vars
  PROVE  SessionsInv' /\ (UNCHANGED vars \/ Earned)
<1>1. CASE UNCHANGED vars
  BY <1>1 DEF vars, world, history, SessionsInv, BirthsAreTrue, BearersExist, Exists
<1>2. ASSUME UNCHANGED <<request, births>>, clock' \in Time,
             secret' \in Secrets \cup {Unset}
      PROVE  SessionsInv' /\ Earned
  BY <1>2 DEF SessionsInv, BirthsAreTrue, BearersExist, Exists, Earned
<1>3. CASE Tick
  <2>1. clock' \in Time
    BY <1>3, GatewayAssumption DEF Tick, SessionsInv, Time
  <2> QED
    BY <1>2, <1>3, <2>1 DEF Tick, SessionsInv, history
<1>4. ASSUME NEW s \in Secrets \cup {Unset}, SetSecret(s)
      PROVE  SessionsInv' /\ Earned
  BY <1>2, <1>4 DEF SetSecret, SessionsInv, history
<1>5. ASSUME NEW list \in Proxies, SetTrustedProxies(list)
      PROVE  SessionsInv' /\ Earned
  BY <1>2, <1>5 DEF SetTrustedProxies, SessionsInv
<1>6. ASSUME NEW r \in Slots, NEW c \in Calls, Arrive(r, c)
      PROVE  SessionsInv' /\ Earned
  <2>1. NobodyNew
    BY <1>6 DEF Arrive, NobodyNew, SessionsInv, Free
  <2> QED
    BY <1>6, <2>1, ArriveStep, NobodyNewEarned
<1>7. ASSUME NEW r \in Slots, Resolve(r) PROVE SessionsInv' /\ Earned
  BY <1>7, ResolveStep
<1>8. ASSUME NEW r \in Slots, Refuse(r) PROVE SessionsInv' /\ Earned
  BY <1>8, AnswerStep DEF Refuse
<1>9. ASSUME NEW r \in Slots, Cors(r) PROVE SessionsInv' /\ Earned
  <2>1. IsRequest(request[r])
    BY DEF SessionsInv
  <2> QED
    BY <1>9, <2>1, AnswerStep, LayerStep DEF Cors
<1>10. ASSUME NEW r \in Slots, Gate(r) PROVE SessionsInv' /\ Earned
  BY <1>10, GateStep
<1>11. ASSUME NEW r \in Slots, Handle(r) PROVE SessionsInv' /\ Earned
  BY <1>11, HandleStep
<1>12. ASSUME NEW r \in Slots, NEW priority \in Priorities, Limit(r, priority)
       PROVE  SessionsInv' /\ Earned
  BY <1>12, LimitStep
<1>13. ASSUME NEW r \in Slots, NEW u \in Users, Sign(r, u)
       PROVE  SessionsInv' /\ Earned
  <2>1. NobodyNew
    BY <1>13, AnswersNobodyNew DEF Sign
  <2> QED
    BY <1>13, <2>1, SignStep, NobodyNewEarned
<1> QED
  BY <1>1, <1>3, <1>4, <1>5, <1>6, <1>7, <1>8, <1>9, <1>10, <1>11, <1>12, <1>13
     DEF Next

\* At first nothing was handed out, and nobody asks.
LEMMA SessionsInit == Init => SessionsInv
<1> SUFFICES ASSUME Init PROVE SessionsInv
  OBVIOUS
<1>1. clock \in Time /\ secret \in Secrets \cup {Unset} /\ DOMAIN request = Slots
  BY GatewayAssumption DEF Init, Time
<1>2. IsRequest(Free) /\ Free.head.bearer = None
  BY DEF IsRequest, Fields, Free, NoHead
<1>3. \A r \in Slots : request[r] = Free
  BY DEF Init
<1>4. BirthsAreTrue
  BY DEF Init, BirthsAreTrue
<1>5. BearersExist
  BY <1>2, <1>3, NoneExists DEF BearersExist
<1> QED
  BY <1>1, <1>2, <1>3, <1>4, <1>5 DEF SessionsInv

\* No token of ours goes round that no login handed out, and each bears the
\* secret it was handed out under and no more than a lifetime.
LEMMA SessionsInvariant == Spec => []SessionsInv
<1>1. SessionsInv /\ [Next]_vars => SessionsInv'
  BY SessionsStep
<1> QED
  BY <1>1, SessionsInit, PTL DEF Spec

\* The gate before /users lets a request act as a user only on a token that a
\* login handed out for this user, under the secret that is in force, and in time.
THEOREM SessionsEarned == Spec => SessionsAreEarned
<1>1. SessionsInv /\ [Next]_vars => [Earned]_vars
  BY SessionsStep
<1>2. SessionsAreEarned <=> [][Earned]_vars
  BY DEF SessionsAreEarned, Earned
<1>3. Spec => [][Earned]_vars
  BY <1>1, SessionsInvariant, PTL DEF Spec
<1> QED
  BY <1>2, <1>3

-----------------------------------------------------------------------------
(***************************************************************************)
(* The layers of the router, and the addresses that requests are charged   *)
(* under: TypeOK, KeysFollowSource and RightLayers.                        *)
(***************************************************************************)

\* What build_router() has before it adds layers, the fallback of user_routes()
\* included, and what stands before their handlers: the gate of that router, then
\* CORS, the limiter.
Gated == {"users", "nowhere"}
Charged == {"register", "login"} \cup Gated
Own(route) == IF route \in Gated THEN <<"gate", "handler">> ELSE <<"handler">>
Shared(b, route) == IF b.cors THEN <<"cors">> \o Own(route) ELSE Own(route)
Limited(b, route) == <<"limiter">> \o Shared(b, route)

\* A layer put around a sequence of layers.
LEMMA Wrapped ==
  ASSUME NEW x \in Layers, NEW s \in Seq(Layers)
  PROVE  /\ <<x>> \o s \in Seq(Layers)
         /\ <<x>> \o s # <<>>
         /\ Head(<<x>> \o s) = x
         /\ Tail(<<x>> \o s) = s
         /\ Contains(<<x>> \o s, "proxy") <=> x = "proxy" \/ Contains(s, "proxy")
<1> DEFINE w == <<x>> \o s
<1>1. /\ w \in Seq(Layers) /\ Len(w) = 1 + Len(s) /\ Len(s) \in Nat
      /\ w[1] = x
      /\ \A i \in 1..Len(s) : w[i + 1] = s[i]
  OBVIOUS
<1>2. w # <<>> /\ Head(w) = x
  BY <1>1
<1>3. Tail(w) = s
  BY <1>1
<1>4. Contains(w, "proxy") <=> x = "proxy" \/ Contains(s, "proxy")
  <2>1. ASSUME Contains(w, "proxy") PROVE x = "proxy" \/ Contains(s, "proxy")
    <3>1. PICK i \in 1..Len(w) : w[i] = "proxy"
      BY <2>1 DEF Contains
    <3>2. CASE i = 1
      BY <1>1, <3>1, <3>2
    <3>3. CASE i # 1
      <4>1. i - 1 \in 1..Len(s) /\ w[(i - 1) + 1] = s[i - 1] /\ (i - 1) + 1 = i
        BY <1>1, <3>3
      <4> QED
        BY <3>1, <4>1 DEF Contains
    <3> QED
      BY <3>2, <3>3
  <2>2. ASSUME x = "proxy" PROVE Contains(w, "proxy")
    BY <1>1, <2>2 DEF Contains
  <2>3. ASSUME Contains(s, "proxy") PROVE Contains(w, "proxy")
    <3>1. PICK i \in 1..Len(s) : s[i] = "proxy"
      BY <2>3 DEF Contains
    <3>2. i + 1 \in 1..Len(w) /\ w[i + 1] = s[i]
      BY <1>1
    <3> QED
      BY <3>1, <3>2 DEF Contains
  <2> QED
    BY <2>1, <2>2, <2>3
<1> QED
  BY <1>1, <1>2, <1>3, <1>4

\* A handler, and what a login may add to it.
LEMMA Bare ==
  ASSUME NEW x \in {"handler", "sign"}
  PROVE  /\ <<x>> \in Seq(Layers) /\ <<x>> # <<>>
         /\ Head(<<x>>) = x /\ Tail(<<x>>) = <<>>
         /\ ~Contains(<<x>>, "proxy")
BY DEF Contains, Layers

\* Of an answered request nothing lies ahead, and that is a list of layers.
LEMMA NoneLeft == <<>> \in Seq(Layers) /\ ~Contains(<<>>, "proxy")
BY DEF Contains

\* A login whose credentials are right has only its token to be signed.
LEMMA SignAhead == Tail(<<"handler">> \o <<"sign">>) = <<"sign">>
BY Wrapped, Bare DEF Layers

\* The way of a user route is the gate and then its handler.
LEMMA GatePut == <<"gate", "handler">> = <<"gate">> \o <<"handler">>
OBVIOUS

\* What build_router() puts before the handler of each route.
LEMMA RouterLayers ==
  ASSUME NEW b, NEW route \in Routes
  PROVE  BuildRouter(b)[route] =
           IF route \in Charged THEN <<"proxy">> \o Limited(b, route)
           ELSE IF route = "debug" /\ ~b.debug THEN <<>> ELSE <<"handler">>
<1>1. /\ <<"handler">> # <<>> /\ <<"gate">> \o <<"handler">> # <<>>
      /\ Own(route) \in Seq(Layers) /\ Own(route) # <<>>
  <2>1. /\ <<"handler">> \in Seq(Layers) /\ <<"handler">> # <<>>
        /\ <<"gate">> \o <<"handler">> \in Seq(Layers)
        /\ <<"gate">> \o <<"handler">> # <<>>
    BY Wrapped, Bare DEF Layers
  <2> QED
    BY <2>1, GatePut DEF Own
<1>2. Shared(b, route) \in Seq(Layers) /\ Shared(b, route) # <<>>
  BY <1>1, Wrapped DEF Shared, Layers
<1>3. Limited(b, route) \in Seq(Layers) /\ Limited(b, route) # <<>>
  BY <1>2, Wrapped DEF Limited, Layers
<1>4. <<"proxy">> \o Limited(b, route) # <<>>
  BY <1>3, Wrapped DEF Layers
<1>5. Api[route] = IF route \in Charged THEN Own(route) ELSE <<>>
  BY <1>1, GatePut
     DEF Api, Merging, AuthRoutes, UserRoutes, Routing, Wrapping, NoRoutes,
         Charged, Gated, Own, Routes
<1> DEFINE shared  == IF b.cors THEN Wrapping(Api, "cors") ELSE Api
           limited == Wrapping(shared, "limiter")
           proxied == Wrapping(limited, "proxy")
           debug   == IF b.debug THEN Routing(proxied, {"debug"}) ELSE proxied
<1>6. shared[route] = IF route \in Charged THEN Shared(b, route) ELSE <<>>
  BY <1>1, <1>5 DEF Wrapping, Shared
<1> HIDE DEF shared
<1>7. limited[route] = IF route \in Charged THEN Limited(b, route) ELSE <<>>
  BY <1>2, <1>6 DEF Wrapping, Limited
<1> HIDE DEF limited
<1>8. proxied[route] =
        IF route \in Charged THEN <<"proxy">> \o Limited(b, route) ELSE <<>>
  BY <1>3, <1>7 DEF Wrapping
<1> HIDE DEF proxied
<1>9. debug[route] = IF route = "debug" /\ b.debug THEN <<"handler">> ELSE proxied[route]
  BY DEF Routing
<1> HIDE DEF debug
<1>10. BuildRouter(b)[route] = IF route = "health" THEN <<"handler">> ELSE debug[route]
  BY DEF BuildRouter, Routing, debug, proxied, limited, shared
<1> QED
  BY <1>8, <1>9, <1>10 DEF Routes, Charged, Gated

\* The ways of a charged request, from the innermost.
LEMMA Ways ==
  ASSUME NEW b, NEW route \in Charged
  PROVE  /\ Own(route) \in Seq(Layers) /\ Own(route) # <<>>
         /\ ~Contains(Own(route), "proxy")
         /\ IF route \in Gated
            THEN Head(Own(route)) = "gate" /\ Tail(Own(route)) = <<"handler">>
            ELSE Own(route) = <<"handler">>
         /\ Shared(b, route) \in Seq(Layers) /\ Shared(b, route) # <<>>
         /\ ~Contains(Shared(b, route), "proxy")
         /\ IF b.cors
            THEN Head(Shared(b, route)) = "cors" /\ Tail(Shared(b, route)) = Own(route)
            ELSE Shared(b, route) = Own(route)
         /\ Limited(b, route) \in Seq(Layers) /\ Limited(b, route) # <<>>
         /\ ~Contains(Limited(b, route), "proxy")
         /\ Head(Limited(b, route)) = "limiter"
         /\ Tail(Limited(b, route)) = Shared(b, route)
         /\ <<"proxy">> \o Limited(b, route) \in Seq(Layers)
         /\ <<"proxy">> \o Limited(b, route) # <<>>
         /\ Head(<<"proxy">> \o Limited(b, route)) = "proxy"
         /\ Tail(<<"proxy">> \o Limited(b, route)) = Limited(b, route)
<1>1. /\ <<"handler">> \in Seq(Layers) /\ <<"handler">> # <<>>
      /\ ~Contains(<<"handler">>, "proxy")
  BY Bare
<1>2. /\ <<"gate">> \o <<"handler">> \in Seq(Layers)
      /\ <<"gate">> \o <<"handler">> # <<>>
      /\ Head(<<"gate">> \o <<"handler">>) = "gate"
      /\ Tail(<<"gate">> \o <<"handler">>) = <<"handler">>
      /\ ~Contains(<<"gate">> \o <<"handler">>, "proxy")
  BY <1>1, Wrapped DEF Layers
<1>3. /\ Own(route) \in Seq(Layers) /\ Own(route) # <<>>
      /\ ~Contains(Own(route), "proxy")
      /\ IF route \in Gated
         THEN Head(Own(route)) = "gate" /\ Tail(Own(route)) = <<"handler">>
         ELSE Own(route) = <<"handler">>
  BY <1>1, <1>2, GatePut DEF Own
<1>4. /\ Shared(b, route) \in Seq(Layers) /\ Shared(b, route) # <<>>
      /\ ~Contains(Shared(b, route), "proxy")
      /\ IF b.cors
         THEN Head(Shared(b, route)) = "cors" /\ Tail(Shared(b, route)) = Own(route)
         ELSE Shared(b, route) = Own(route)
  <2>1. CASE b.cors
    BY <1>3, <2>1, Wrapped DEF Shared, Layers
  <2>2. CASE ~b.cors
    BY <1>3, <2>2 DEF Shared
  <2> QED
    BY <2>1, <2>2
<1>5. /\ Limited(b, route) \in Seq(Layers) /\ Limited(b, route) # <<>>
      /\ ~Contains(Limited(b, route), "proxy")
      /\ Head(Limited(b, route)) = "limiter"
      /\ Tail(Limited(b, route)) = Shared(b, route)
  BY <1>4, Wrapped DEF Limited, Layers
<1>6. /\ <<"proxy">> \o Limited(b, route) \in Seq(Layers)
      /\ <<"proxy">> \o Limited(b, route) # <<>>
      /\ Head(<<"proxy">> \o Limited(b, route)) = "proxy"
      /\ Tail(<<"proxy">> \o Limited(b, route)) = Limited(b, route)
  BY <1>5, Wrapped DEF Layers
<1> QED
  BY <1>3, <1>4, <1>5, <1>6

-----------------------------------------------------------------------------
\* How far a request is, and what it has been given on the way.
Routed(r) ==
  LET q == request[r]
  IN /\ q.route \in Routes
     /\ q.ahead # <<>> => q.head \in Heads
     /\ \/ q.ahead \in {<<>>, <<"handler">>}
        \/ q.route = "login" /\ q.ahead = <<"sign">>
        \/ /\ q.route \in Charged
           /\ q.ahead \in {Own(q.route), Shared(build, q.route),
                          Limited(build, q.route),
                          <<"proxy">> \o Limited(build, q.route)}
     /\ q.ahead # <<>> =>
          /\ (q.key = None) <=>
               (q.route \notin Charged \/ Head(q.ahead) \in {"proxy", "limiter"})
          /\ (q.sub = None) <=> (q.route \notin Gated \/ Head(q.ahead) # "handler")
          /\ build.cors /\ q.preflight => Head(q.ahead) # "gate"

\* What the history says of a request's peer until its address is resolved, and
\* of the address until the limiter uses it.
Trusted(r) ==
  LET q == request[r]
  IN /\ Contains(q.ahead, "proxy") =>
          /\ r \notin ever => q.head.from \notin proxies
          /\ r \in always => q.head.from \in proxies
     /\ Reaches(r, "limiter") =>
          IF build.wired
          THEN /\ r \notin ever => q.ext = q.head.from
               /\ r \in always /\ ForwardedIp(q.head) # None =>
                    q.ext = ForwardedIp(q.head)
          ELSE q.ext = None

\* KeysFollowSource, for one request.
Keyed(r) ==
  request[r].key # None =>
    LET h == request[r].head
        keyFor(ip) == KeyOf(request[r].mode, ip, AuthToken(h))
    IN IF build.wired
       THEN /\ r \notin ever => request[r].key = keyFor(h.from)
            /\ r \in always /\ ForwardedIp(h) # None =>
                 request[r].key = keyFor(ForwardedIp(h))
       ELSE request[r].key = keyFor(Forwarded(h))

Statuses == {0, 200, 204, 400, 401, 404, 405, 429, 500, 501}

Typed(r) ==
  /\ request[r].ahead \in Seq(Layers)
  /\ request[r].ext \in Addrs \cup {None}
  /\ request[r].status \in Statuses

SlotInv(r) == Typed(r) /\ Routed(r) /\ Trusted(r) /\ Keyed(r)

WorldInv ==
  /\ build \in Builds /\ proxies \in Proxies
  /\ ever \subseteq Slots /\ always \subseteq ever

GatewayInv == SessionsInv /\ WorldInv /\ \A r \in Slots : SlotInv(r)

\* Which layer a request has reached tells all that lie ahead.
LEMMA Reached ==
  ASSUME NEW r \in Slots, Routed(r)
  PROVE  /\ Reaches(r, "proxy") => request[r].route \in Charged
              /\ Tail(request[r].ahead) = Limited(build, request[r].route)
         /\ Reaches(r, "limiter") => request[r].route \in Charged
              /\ Tail(request[r].ahead) = Shared(build, request[r].route)
         /\ Reaches(r, "cors") => request[r].route \in Charged
              /\ Tail(request[r].ahead) = Own(request[r].route)
         /\ Reaches(r, "gate") => request[r].route \in Gated
              /\ Tail(request[r].ahead) = <<"handler">>
         /\ Reaches(r, "handler") => request[r].ahead = <<"handler">>
         /\ Contains(request[r].ahead, "proxy") => Reaches(r, "proxy")
<1> DEFINE a == request[r].ahead
           route == request[r].route
<1>1. CASE a = <<>>
  BY <1>1, NoneLeft DEF Reaches
<1>2. CASE a = <<"handler">>
  BY <1>2, Bare DEF Reaches
<1>3. CASE a = <<"sign">>
  BY <1>3, Bare DEF Reaches
<1>4. ASSUME route \in Charged,
             a \in {Own(route), Shared(build, route), Limited(build, route),
                   <<"proxy">> \o Limited(build, route)}
      PROVE  /\ a # <<>>
             /\ Head(a) = "proxy" => Tail(a) = Limited(build, route)
             /\ Head(a) = "limiter" => Tail(a) = Shared(build, route)
             /\ Head(a) = "cors" => Tail(a) = Own(route)
             /\ Head(a) = "gate" => route \in Gated /\ Tail(a) = <<"handler">>
             /\ Head(a) = "handler" => a = <<"handler">>
             /\ Contains(a, "proxy") => Head(a) = "proxy"
  <2> HIDE DEF a, route
  <2>1. CASE a = Own(route)
    BY <1>4, <2>1, Ways, Bare
  <2>2. CASE a = Shared(build, route)
    BY <1>4, <2>2, Ways, Bare
  <2>3. CASE a = Limited(build, route)
    BY <1>4, <2>3, Ways
  <2>4. CASE a = <<"proxy">> \o Limited(build, route)
    BY <1>4, <2>4, Ways
  <2> QED
    BY <1>4, <2>1, <2>2, <2>3, <2>4
<1> QED
  BY <1>1, <1>2, <1>3, <1>4 DEF Routed, Reaches

-----------------------------------------------------------------------------
\* A request that nothing happens to stays as it is.
LEMMA SlotStays ==
  ASSUME NEW r \in Slots, SlotInv(r), request'[r] = request[r],
         UNCHANGED <<build, proxies>>,
         r \in ever' <=> r \in ever, r \in always' <=> r \in always
  PROVE  SlotInv(r)'
<1> DEFINE q == request[r]
<1>1. q' = q /\ build' = build /\ proxies' = proxies
  OBVIOUS
<1>2. Typed(r)'
  BY <1>1 DEF SlotInv, Typed
<1>3. Routed(r)'
  BY <1>1 DEF SlotInv, Routed
<1>4. Trusted(r)'
  BY <1>1 DEF SlotInv, Trusted, Reaches
<1>5. Keyed(r)'
  BY <1>1 DEF SlotInv, Keyed
<1> QED
  BY <1>2, <1>3, <1>4, <1>5 DEF SlotInv

\* What becomes of a request that passes a layer.
LEMMA PassesTo ==
  ASSUME SessionsInv, NEW r \in Slots, NEW q, IsRequest(q), Passes(r, q)
  PROVE  /\ request'[r].ahead = Tail(q.ahead)
         /\ request'[r].route = q.route /\ request'[r].head = q.head
         /\ request'[r].preflight = q.preflight /\ request'[r].ext = q.ext
         /\ request'[r].mode = q.mode /\ request'[r].key = q.key
         /\ request'[r].sub = q.sub /\ request'[r].status = q.status
         /\ \A o \in Slots \ {r} : request'[o] = request[o]
         /\ UNCHANGED <<build, proxies>>
<1> DEFINE p == [q EXCEPT !.ahead = Tail(@)]
<1>1. /\ p.ahead = Tail(q.ahead)
      /\ p.route = q.route /\ p.head = q.head
      /\ p.preflight = q.preflight /\ p.ext = q.ext
      /\ p.mode = q.mode /\ p.key = q.key
      /\ p.sub = q.sub /\ p.status = q.status
  BY DEF IsRequest, Fields
<1>2. request' = [request EXCEPT ![r] = p] /\ UNCHANGED <<build, proxies>>
  BY DEF Passes, world
<1> HIDE DEF p
<1>3. request'[r] = p /\ \A o \in Slots \ {r} : request'[o] = request[o]
  BY <1>2 DEF SessionsInv
<1> QED
  BY <1>1, <1>2, <1>3

\* What becomes of one that is answered: nothing lies ahead, nothing is charged.
LEMMA AnswersTo ==
  ASSUME GatewayInv, NEW r \in Slots,
         NEW code \in Statuses,
         Answers(r, code)
  PROVE  WorldInv' /\ \A o \in Slots : SlotInv(o)'
<1> DEFINE p == [Free EXCEPT !.route = request[r].route,
                             !.head = request[r].head, !.status = code]
<1>1. /\ p.ahead = <<>> /\ p.key = None /\ p.ext = None /\ p.status = code
      /\ p.route = request[r].route
  BY DEF Free
<1>2. request' = [request EXCEPT ![r] = p] /\ UNCHANGED <<build, proxies>>
      /\ ever' = ever \ {r} /\ always' = always \ {r}
  BY DEF Answers, world
<1> HIDE DEF p
<1>3. request'[r] = p /\ \A o \in Slots \ {r} : request'[o] = request[o]
  BY <1>2 DEF GatewayInv, SessionsInv
<1>4. WorldInv'
  BY <1>2 DEF GatewayInv, WorldInv
<1>5. SlotInv(r)'
  <2>1. Typed(r)'
    BY <1>1, <1>3, NoneLeft DEF Typed
  <2>2. Routed(r)' /\ Trusted(r)' /\ Keyed(r)'
    <3>1. p.route \in Routes
      BY <1>1 DEF GatewayInv, SlotInv, Routed
    <3> QED
      BY <1>1, <1>3, <3>1, NoneLeft DEF Routed, Trusted, Keyed, Reaches
  <2> QED
    BY <2>1, <2>2 DEF SlotInv
<1>6. ASSUME NEW o \in Slots \ {r} PROVE SlotInv(o)'
  BY <1>2, <1>3, SlotStays DEF GatewayInv
<1> QED
  BY <1>4, <1>5, <1>6

\* A request that passes a layer: what is to be seen for it alone.
LEMMA PassesKeeps ==
  ASSUME GatewayInv, NEW r \in Slots, NEW q, IsRequest(q), Passes(r, q),
         UNCHANGED <<ever, always>>, SlotInv(r)'
  PROVE  WorldInv' /\ \A o \in Slots : SlotInv(o)'
<1>1. /\ \A o \in Slots \ {r} : request'[o] = request[o]
      /\ UNCHANGED <<build, proxies>>
  BY PassesTo DEF GatewayInv
<1>2. WorldInv'
  BY <1>1 DEF GatewayInv, WorldInv
<1>3. ASSUME NEW o \in Slots \ {r} PROVE SlotInv(o)'
  BY <1>1, SlotStays DEF GatewayInv
<1> QED
  BY <1>2, <1>3

\* A request that arrives has all its layers before it.
LEMMA ArrivesKeeps ==
  ASSUME GatewayInv, NEW r \in Slots, NEW c \in Calls, Arrive(r, c)
  PROVE  WorldInv' /\ \A o \in Slots : SlotInv(o)'
<1> DEFINE route == Served(c)
           layers == BuildRouter(build)[route]
           p == [Free EXCEPT !.route = route, !.preflight = c.preflight,
                             !.head = c.head, !.ahead = layers]
           now == IF c.head.from \in proxies THEN {r} ELSE {}
<1>1. /\ p.ahead = layers /\ p.key = None /\ p.sub = None /\ p.ext = None
      /\ p.status \in Statuses /\ p.route = route /\ p.head = c.head
      /\ p.preflight = c.preflight
  <2> HIDE DEF layers, route
  <2> QED
    BY DEF Free, Statuses
<1>2. request' = [request EXCEPT ![r] = p] /\ UNCHANGED <<build, proxies>>
      /\ ever' = (ever \ {r}) \cup now /\ always' = (always \ {r}) \cup now
  BY DEF Arrive, world
<1>3. /\ route \in Routes /\ c.head \in Heads
      /\ layers = IF route \in Charged THEN <<"proxy">> \o Limited(build, route)
                  ELSE <<"handler">>
  <2>1. c.route \in Routes /\ c.head \in Heads
    BY GatewayAssumption DEF Call
  <2>2. BuildRouter(build)[c.route] # <<>> =>
          BuildRouter(build)[c.route] =
            IF c.route \in Charged THEN <<"proxy">> \o Limited(build, c.route)
            ELSE <<"handler">>
    BY <2>1, RouterLayers
  <2>3. /\ "nowhere" \in Routes /\ "nowhere" \in Charged
        /\ BuildRouter(build)["nowhere"] = <<"proxy">> \o Limited(build, "nowhere")
    BY RouterLayers DEF Routes, Charged, Gated
  <2> QED
    BY <2>1, <2>2, <2>3 DEF Served
<1> HIDE DEF p, layers, route
<1>4. request'[r] = p /\ \A o \in Slots \ {r} : request'[o] = request[o]
  BY <1>2 DEF GatewayInv, SessionsInv
<1>5. WorldInv'
  BY <1>2 DEF GatewayInv, WorldInv
<1>6. CASE route \in Charged
  <2>1. /\ layers = <<"proxy">> \o Limited(build, route)
        /\ layers \in Seq(Layers) /\ layers # <<>> /\ Head(layers) = "proxy"
    BY <1>3, <1>6, Ways
  <2>2. Typed(r)'
    BY <1>1, <1>4, <2>1 DEF Typed
  <2>3. Routed(r)'
    <3>1. /\ p.ahead = <<"proxy">> \o Limited(build', p.route)
          /\ p.route \in Charged /\ Head(p.ahead) = "proxy"
      BY <1>1, <1>2, <1>6, <2>1
    <3> QED
      BY <1>1, <1>3, <1>4, <3>1 DEF Routed
  <2>4. Trusted(r)' /\ Keyed(r)'
    BY <1>1, <1>2, <1>4, <2>1 DEF Trusted, Keyed, Reaches
  <2> QED
    BY <1>2, <1>4, <1>5, <2>2, <2>3, <2>4, SlotStays DEF GatewayInv, SlotInv
<1>7. CASE route \notin Charged
  <2>1. /\ layers \in Seq(Layers) /\ ~Contains(layers, "proxy")
        /\ layers = <<"handler">> /\ Head(layers) = "handler"
    BY <1>3, <1>7, Bare
  <2>2. Typed(r)'
    BY <1>1, <1>4, <2>1 DEF Typed
  <2>3. Routed(r)' /\ Trusted(r)' /\ Keyed(r)'
    <3>1. route \notin Gated
      BY <1>7 DEF Charged
    <3> QED
      BY <1>1, <1>3, <1>4, <1>7, <2>1, <3>1 DEF Routed, Trusted, Keyed, Reaches
  <2> QED
    BY <1>2, <1>4, <1>5, <2>2, <2>3, SlotStays DEF GatewayInv, SlotInv
<1> QED
  BY <1>6, <1>7

\* What a charged request has ahead of it, once it is on its way.
LEMMA Underway ==
  ASSUME GatewayInv, NEW r \in Slots, NEW layer, Reaches(r, layer)
  PROVE  /\ Typed(r) /\ Routed(r) /\ Trusted(r) /\ Keyed(r)
         /\ request[r].head \in Heads /\ request[r].route \in Routes
         /\ request[r].head.from \in Addrs /\ request[r].head.from # None
         /\ ForwardedIp(request[r].head) \in Addrs \cup {None}
<1>1. Typed(r) /\ Routed(r) /\ Trusted(r) /\ Keyed(r)
  BY DEF GatewayInv, SlotInv
<1>2. request[r].head \in Heads /\ request[r].route \in Routes
  BY <1>1 DEF Routed, Reaches
<1>3. request[r].head.from \in Addrs /\ request[r].head.from # None
  BY <1>2, ClientAssumption DEF Heads
<1>4. ForwardedIp(request[r].head) \in Addrs \cup {None}
  <2> DEFINE h == request[r].head
  <2>1. Forwarded(h) \in Texts \cup {None}
    BY <1>2, ClientAssumption DEF Forwarded, Heads
  <2> HIDE DEF h
  <2>2. ForwardedIp(h) \in Addrs \cup {None}
    BY <2>1, ClientAssumption DEF ForwardedIp
  <2> QED
    BY <2>2 DEF h
<1> QED
  BY <1>1, <1>2, <1>3, <1>4

\* The proxy middleware: the address it resolves follows the trust in the peer.
LEMMA ResolveKeeps ==
  ASSUME GatewayInv, NEW r \in Slots, Resolve(r)
  PROVE  WorldInv' /\ \A o \in Slots : SlotInv(o)'
<1> DEFINE h == request[r].head
           route == request[r].route
           ip == ClientIp(h, Peer(r), proxies)
           q == [request[r] EXCEPT !.ext = ip]
<1>1. Reaches(r, "proxy") /\ Passes(r, q) /\ UNCHANGED <<ever, always>>
  BY DEF Resolve, history
<1>2. /\ Typed(r) /\ Routed(r) /\ Trusted(r) /\ Keyed(r)
      /\ h \in Heads /\ route \in Routes /\ h.from \in Addrs /\ h.from # None
      /\ ForwardedIp(h) \in Addrs \cup {None}
  BY <1>1, Underway
<1>3. /\ route \in Charged
      /\ Tail(request[r].ahead) = Limited(build, route)
  BY <1>1, <1>2, Reached
<1>4. /\ Limited(build, route) \in Seq(Layers) /\ Limited(build, route) # <<>>
      /\ ~Contains(Limited(build, route), "proxy")
      /\ Head(Limited(build, route)) = "limiter"
  BY <1>3, Ways
<1>5. ip \in Addrs \cup {None}
  BY <1>2 DEF ClientIp, Peer
<1>6. IF build.wired
      THEN /\ r \notin ever => ip = h.from
           /\ r \in always /\ ForwardedIp(h) # None => ip = ForwardedIp(h)
      ELSE ip = None
  <2>1. Peer(r) = IF build.wired THEN h.from ELSE None
    BY DEF Peer
  <2>2. Contains(request[r].ahead, "proxy")
    <3>1. request[r].ahead = <<"proxy">> \o Limited(build, route)
      BY <1>1, <1>2, <1>3, Ways, Bare DEF Routed, Reaches
    <3> QED
      BY <1>4, <3>1, Wrapped DEF Layers
  <2>3. /\ r \notin ever => h.from \notin proxies
        /\ r \in always => h.from \in proxies
    BY <1>2, <2>2 DEF Trusted
  <2>4. None \notin proxies
    BY GatewayAssumption, ClientAssumption DEF GatewayInv, WorldInv
  <2> QED
    BY <2>1, <2>3, <2>4 DEF ClientIp, PeerIsTrusted
<1> HIDE DEF ip
<1>7. /\ IsRequest(q) /\ q.ahead = request[r].ahead /\ q.route = route
      /\ q.head = h /\ q.preflight = request[r].preflight /\ q.ext = ip
      /\ q.mode = request[r].mode /\ q.key = request[r].key
      /\ q.sub = request[r].sub /\ q.status = request[r].status
  BY DEF IsRequest, Fields, GatewayInv, SessionsInv
<1> HIDE DEF q
<1>8. /\ request'[r].ahead = Limited(build, route) /\ request'[r].route = route
      /\ request'[r].head = h /\ request'[r].preflight = request[r].preflight
      /\ request'[r].ext = ip /\ request'[r].mode = request[r].mode
      /\ request'[r].key = request[r].key /\ request'[r].sub = request[r].sub
      /\ request'[r].status = request[r].status
      /\ UNCHANGED <<build, proxies>>
  BY <1>1, <1>3, <1>7, PassesTo DEF GatewayInv
<1>9. request[r].key = None /\ request[r].sub = None
  BY <1>1, <1>2, <1>3 DEF Routed, Reaches
<1>10. Typed(r)'
  BY <1>2, <1>4, <1>5, <1>8 DEF Typed
<1>11. Routed(r)'
  BY <1>2, <1>3, <1>4, <1>8, <1>9 DEF Routed
<1>12. Trusted(r)'
  BY <1>1, <1>4, <1>6, <1>8 DEF Trusted
<1>13. Keyed(r)'
  BY <1>8, <1>9 DEF Keyed
<1> QED
  BY <1>1, <1>7, <1>10, <1>11, <1>12, <1>13, PassesKeeps DEF SlotInv

\* Every key is one.
LEMMA KeysAreNotNone ==
  ASSUME NEW mode, NEW ip \in Texts \cup {None}, NEW token \in Bearers \cup {None}
  PROVE  KeyOf(mode, ip, token) # None
BY ClientAssumption DEF KeyOf

\* The rate limiter: the key is that of the address that was resolved.
LEMMA LimitKeeps ==
  ASSUME GatewayInv, NEW r \in Slots, NEW priority \in Priorities, Limit(r, priority)
  PROVE  WorldInv' /\ \A o \in Slots : SlotInv(o)'
<1> DEFINE h == request[r].head
           route == request[r].route
           ext == request[r].ext
           ip == IpSource(h, ext, Peer(r))
           key == KeyOf(priority, ip, AuthToken(h))
           q == [request[r] EXCEPT !.mode = priority, !.key = key]
<1>1. Reaches(r, "limiter") /\ Passes(r, q) /\ UNCHANGED <<ever, always>>
  BY DEF Limit, history
<1>2. /\ Typed(r) /\ Routed(r) /\ Trusted(r) /\ Keyed(r)
      /\ h \in Heads /\ route \in Routes /\ h.from \in Addrs /\ h.from # None
      /\ ForwardedIp(h) \in Addrs \cup {None}
  BY <1>1, Underway
<1>3. /\ route \in Charged
      /\ Tail(request[r].ahead) = Shared(build, route)
  BY <1>1, <1>2, Reached
<1>4. /\ Shared(build, route) \in Seq(Layers) /\ Shared(build, route) # <<>>
      /\ ~Contains(Shared(build, route), "proxy")
      /\ IF build.cors THEN Head(Shared(build, route)) = "cors"
         ELSE Shared(build, route) = Own(route)
      /\ IF route \in Gated THEN Head(Own(route)) = "gate"
         ELSE Own(route) = <<"handler">>
  BY <1>3, Ways
<1>5. /\ ~build.cors => Head(Shared(build, route)) =
                           IF route \in Gated THEN "gate" ELSE "handler"
      /\ Head(Shared(build, route)) \in {"cors", "gate", "handler"}
      /\ Head(Shared(build, route)) = "gate" => ~build.cors
      /\ Head(Shared(build, route)) = "handler" => route \notin Gated
  <2>1. Head(<<"handler">>) = "handler"
    BY Bare
  <2> HIDE DEF route
  <2> QED
    BY <1>4, <2>1
<1>6. key # None
  <2>1. AuthToken(h) \in Bearers \cup {None}
    BY <1>2 DEF AuthToken, Heads
  <2>2. Forwarded(h) \in Texts \cup {None} /\ Peer(r) \in Texts \cup {None}
    BY <1>2, ClientAssumption DEF Forwarded, Peer, Heads
  <2>3. ip \in Texts \cup {None}
    BY <1>2, <2>2, ClientAssumption DEF IpSource, Typed
  <2> HIDE DEF ip, h
  <2> QED
    BY <2>1, <2>3, KeysAreNotNone
<1>7. IF build.wired
      THEN /\ r \notin ever => ip = h.from
           /\ r \in always /\ ForwardedIp(h) # None => ip = ForwardedIp(h)
      ELSE ip = Forwarded(h)
  BY <1>1, <1>2 DEF Trusted, IpSource, Peer
<1>8. /\ IsRequest(q) /\ q.ahead = request[r].ahead /\ q.route = route
      /\ q.head = h /\ q.preflight = request[r].preflight /\ q.ext = ext
      /\ q.mode = priority /\ q.key = key
      /\ q.sub = request[r].sub /\ q.status = request[r].status
  <2> HIDE DEF key
  <2> QED
    BY DEF IsRequest, Fields, GatewayInv, SessionsInv
<1> HIDE DEF q
<1>9. /\ request'[r].ahead = Shared(build, route) /\ request'[r].route = route
      /\ request'[r].head = h /\ request'[r].preflight = request[r].preflight
      /\ request'[r].ext = ext /\ request'[r].mode = priority
      /\ request'[r].key = key /\ request'[r].sub = request[r].sub
      /\ request'[r].status = request[r].status
      /\ UNCHANGED <<build, proxies>>
  BY <1>1, <1>3, <1>8, PassesTo DEF GatewayInv
<1>10. request[r].sub = None
  BY <1>1, <1>2, <1>3 DEF Routed, Reaches
<1>11. Typed(r)'
  BY <1>2, <1>4, <1>9 DEF Typed
<1>12. Routed(r)'
  <2> HIDE DEF key
  <2>1. (request'[r].key = None) <=>
          (route \notin Charged \/ Head(request'[r].ahead) \in {"proxy", "limiter"})
    BY <1>3, <1>5, <1>6, <1>9
  <2>2. (request'[r].sub = None) <=>
          (route \notin Gated \/ Head(request'[r].ahead) # "handler")
    BY <1>5, <1>9, <1>10
  <2> QED
    BY <1>2, <1>3, <1>4, <1>5, <1>9, <2>1, <2>2 DEF Routed
<1>13. Trusted(r)'
  <2>1. Head(request'[r].ahead) # "limiter" /\ ~Contains(request'[r].ahead, "proxy")
    BY <1>4, <1>5, <1>9
  <2> QED
    BY <2>1 DEF Trusted, Reaches
<1>14. Keyed(r)'
  BY <1>1, <1>7, <1>9 DEF Keyed
<1> QED
  BY <1>1, <1>8, <1>11, <1>12, <1>13, <1>14, PassesKeeps DEF SlotInv

\* A step inwards after the rate limiter, with the key as it is.
LEMMA InwardsKeeps ==
  ASSUME GatewayInv, NEW r \in Slots, NEW q, Passes(r, q), IsRequest(q),
         UNCHANGED <<ever, always>>, Routed(r), Typed(r), Keyed(r),
         q.route = request[r].route, q.head = request[r].head,
         q.preflight = request[r].preflight, q.ext = request[r].ext,
         q.mode = request[r].mode, q.key = request[r].key,
         q.status = request[r].status,
         NEW s, Tail(q.ahead) = s, s \in Seq(Layers), s # <<>>,
         Head(s) \in {"gate", "handler", "sign"}, ~Contains(s, "proxy"),
         \/ s = <<"handler">>
         \/ s = <<"sign">> /\ request[r].route = "login"
         \/ s = Own(request[r].route) /\ request[r].route \in Charged,
         (request[r].key = None) <=> (request[r].route \notin Charged),
         (q.sub = None) <=> (request[r].route \notin Gated \/ Head(s) # "handler"),
         build.cors /\ request[r].preflight => Head(s) # "gate",
         request[r].ahead # <<>>
  PROVE  WorldInv' /\ \A o \in Slots : SlotInv(o)'
<1>1. /\ request'[r].ahead = s /\ request'[r].route = request[r].route
      /\ request'[r].head = request[r].head
      /\ request'[r].preflight = request[r].preflight
      /\ request'[r].ext = request[r].ext /\ request'[r].mode = request[r].mode
      /\ request'[r].key = request[r].key /\ request'[r].sub = q.sub
      /\ request'[r].status = request[r].status
      /\ UNCHANGED <<build, proxies>>
  BY PassesTo DEF GatewayInv
<1>2. Typed(r)'
  BY <1>1 DEF Typed
<1>3. Routed(r)'
  BY <1>1 DEF Routed
<1>4. Trusted(r)' /\ Keyed(r)'
  BY <1>1 DEF Trusted, Keyed, Reaches
<1> QED
  BY <1>2, <1>3, <1>4, PassesKeeps DEF SlotInv

\* CORS answers a preflight, so none goes on to the gate.
LEMMA CorsKeeps ==
  ASSUME GatewayInv, NEW r \in Slots, Cors(r)
  PROVE  WorldInv' /\ \A o \in Slots : SlotInv(o)'
<1>1. CASE request[r].preflight
  <2>1. Answers(r, 200) /\ 200 \in Statuses
    BY <1>1 DEF Cors, Statuses
  <2> QED
    BY <2>1, AnswersTo
<1>2. CASE ~request[r].preflight
  <2> DEFINE q == request[r]
             s == Own(q.route)
  <2>1. Reaches(r, "cors") /\ Passes(r, q) /\ UNCHANGED <<ever, always>>
    BY <1>2 DEF Cors
  <2>2. Typed(r) /\ Routed(r) /\ Keyed(r) /\ IsRequest(q)
    BY <2>1, Underway DEF GatewayInv, SessionsInv
  <2>3. q.route \in Charged /\ Tail(q.ahead) = s
    BY <2>1, <2>2, Reached
  <2>4. /\ s \in Seq(Layers) /\ s # <<>> /\ ~Contains(s, "proxy")
        /\ Head(s) = IF q.route \in Gated THEN "gate" ELSE "handler"
    BY <2>3, Ways, Bare
  <2>5. /\ q.ahead # <<>> /\ q.key # None /\ q.sub = None
    BY <2>1, <2>2, <2>3 DEF Routed, Reaches
  <2>6. (q.sub = None) <=> (q.route \notin Gated \/ Head(s) # "handler")
    BY <2>4, <2>5
  <2> QED
    BY <1>2, <2>1, <2>2, <2>3, <2>4, <2>5, <2>6, InwardsKeeps
<1> QED
  BY <1>1, <1>2

\* The gate puts a user where there was none.
LEMMA GateKeeps ==
  ASSUME GatewayInv, NEW r \in Slots, Gate(r)
  PROVE  WorldInv' /\ \A o \in Slots : SlotInv(o)'
<1> DEFINE h == request[r].head
           q == [request[r] EXCEPT !.sub = h.bearer.sub]
<1>1. CASE h.scheme = "Bearer" /\ Verifies(h.bearer)
  <2>1. Reaches(r, "gate") /\ Passes(r, q) /\ UNCHANGED <<ever, always>>
    BY <1>1 DEF Gate
  <2>2. Typed(r) /\ Routed(r) /\ Keyed(r) /\ IsRequest(request[r])
    BY <2>1, Underway DEF GatewayInv, SessionsInv
  <2>3. request[r].route \in Gated /\ Tail(request[r].ahead) = <<"handler">>
    BY <2>1, <2>2, Reached
  <2>4. h.bearer.sub # None
    BY <1>1, GatewayAssumption DEF Verifies, Token
  <2>5. /\ IsRequest(q) /\ q.ahead = request[r].ahead /\ q.route = request[r].route
        /\ q.head = h /\ q.preflight = request[r].preflight
        /\ q.ext = request[r].ext /\ q.mode = request[r].mode
        /\ q.key = request[r].key /\ q.sub = h.bearer.sub
        /\ q.status = request[r].status
    BY <2>2 DEF IsRequest, Fields
  <2> HIDE DEF q
  <2>6. /\ <<"handler">> \in Seq(Layers) /\ <<"handler">> # <<>>
        /\ ~Contains(<<"handler">>, "proxy") /\ Head(<<"handler">>) = "handler"
    BY Bare
  <2>7. request[r].ahead # <<>> /\ request[r].key # None
    BY <2>1, <2>2, <2>3 DEF Routed, Reaches, Charged
  <2>8. request[r].route \in Charged
    BY <2>3 DEF Charged
  <2> QED
    BY <2>1, <2>2, <2>3, <2>4, <2>5, <2>6, <2>7, <2>8, InwardsKeeps
<1>2. CASE ~(h.scheme = "Bearer" /\ Verifies(h.bearer))
  <2>1. Answers(r, 401) /\ 401 \in Statuses
    BY <1>2 DEF Gate, Statuses
  <2> QED
    BY <2>1, AnswersTo
<1> QED
  BY <1>1, <1>2

\* The handler answers, or leaves a login to be signed.
LEMMA HandleKeeps ==
  ASSUME GatewayInv, NEW r \in Slots, Handle(r)
  PROVE  WorldInv' /\ \A o \in Slots : SlotInv(o)'
<1> DEFINE q == [request[r] EXCEPT !.ahead = @ \o <<"sign">>]
<1>1. CASE \E code \in Statuses : Answers(r, code)
  BY <1>1, AnswersTo
<1>2. CASE request[r].route = "login" /\ Passes(r, q) /\ UNCHANGED <<ever, always>>
  <2>1. Reaches(r, "handler")
    BY DEF Handle
  <2>2. Typed(r) /\ Routed(r) /\ Keyed(r) /\ IsRequest(request[r])
    BY <2>1, Underway DEF GatewayInv, SessionsInv
  <2>3. request[r].ahead = <<"handler">>
    BY <2>1, <2>2, Reached
  <2>4. /\ IsRequest(q) /\ q.ahead = <<"handler">> \o <<"sign">>
        /\ q.route = request[r].route
        /\ q.head = request[r].head /\ q.preflight = request[r].preflight
        /\ q.ext = request[r].ext /\ q.mode = request[r].mode
        /\ q.key = request[r].key /\ q.sub = request[r].sub
        /\ q.status = request[r].status
    BY <2>2, <2>3 DEF IsRequest, Fields
  <2> HIDE DEF q
  <2>5. Tail(q.ahead) = <<"sign">>
    BY <2>4, SignAhead
  <2>6. /\ <<"sign">> \in Seq(Layers) /\ <<"sign">> # <<>>
        /\ ~Contains(<<"sign">>, "proxy") /\ Head(<<"sign">>) = "sign"
    BY Bare
  <2>7. /\ request[r].route \in Charged /\ request[r].route \notin Gated
        /\ request[r].ahead # <<>>
    BY <1>2, <2>1 DEF Charged, Gated, Reaches
  <2>8. request[r].key # None /\ request[r].sub = None
    BY <2>1, <2>2, <2>7 DEF Routed, Reaches
  <2> QED
    BY <1>2, <2>2, <2>4, <2>5, <2>6, <2>7, <2>8, InwardsKeeps
<1> QED
  <2>1. 200 \in Statuses /\ 401 \in Statuses /\ 404 \in Statuses
        /\ 400 \in Statuses /\ 405 \in Statuses /\ 501 \in Statuses
    BY DEF Statuses
  <2> HIDE DEF q
  <2> QED
    BY <1>1, <1>2, <2>1 DEF Handle, q

\* The list of trusted proxies changes; whoever is on the way is noted.
LEMMA TrustKeeps ==
  ASSUME GatewayInv, NEW list \in Proxies, SetTrustedProxies(list)
  PROVE  WorldInv' /\ \A o \in Slots : SlotInv(o)'
<1> DEFINE now == {o \in Unresolved : request[o].head.from \in list}
<1>1. /\ proxies' = list /\ ever' = ever \cup now
      /\ always' = always \ (Unresolved \ now)
      /\ UNCHANGED <<build, request>>
  BY DEF SetTrustedProxies
<1>2. WorldInv'
  BY <1>1 DEF GatewayInv, WorldInv, Unresolved
<1>3. ASSUME NEW o \in Slots PROVE SlotInv(o)'
  <2>1. Typed(o) /\ Routed(o) /\ Trusted(o) /\ Keyed(o)
    BY DEF GatewayInv, SlotInv
  <2>2. Typed(o)' /\ Routed(o)'
    BY <1>1, <2>1 DEF Typed, Routed
  <2>3. CASE Contains(request[o].ahead, "proxy")
    <3>1. /\ o \in now <=> request[o].head.from \in list
          /\ o \in always' => o \in now
      BY <1>1, <2>3 DEF Unresolved
    <3>2. Reaches(o, "proxy")
      BY <2>1, <2>3, Reached
    <3>3. request[o].key = None
      BY <2>1, <3>2 DEF Routed, Reaches
    <3> QED
      BY <1>1, <2>2, <3>1, <3>2, <3>3 DEF SlotInv, Trusted, Keyed, Reaches
  <2>4. CASE ~Contains(request[o].ahead, "proxy")
    <3>1. o \in ever' <=> o \in ever
      BY <1>1, <2>4 DEF Unresolved
    <3>2. o \in always' <=> o \in always
      BY <1>1, <2>4 DEF Unresolved
    <3>3. Trusted(o)'
      BY <1>1, <2>1, <2>4, <3>1, <3>2 DEF Trusted, Reaches
    <3>4. Keyed(o)'
      BY <1>1, <2>1, <3>1, <3>2 DEF Keyed
    <3> QED
      BY <2>2, <3>3, <3>4 DEF SlotInv
  <2> QED
    BY <2>3, <2>4
<1> QED
  BY <1>2, <1>3

\* Where nothing happens to the requests and to the list, all stays.
LEMMA NobodyMoves ==
  ASSUME GatewayInv, UNCHANGED <<build, proxies, request, ever, always>>
  PROVE  WorldInv' /\ \A o \in Slots : SlotInv(o)'
<1>1. WorldInv'
  BY DEF GatewayInv, WorldInv
<1>2. ASSUME NEW o \in Slots PROVE SlotInv(o)'
  BY SlotStays DEF GatewayInv
<1> QED
  BY <1>1, <1>2

\* Every step keeps the invariant.
LEMMA GatewayNext == GatewayInv /\ [Next]_vars => GatewayInv'
<1> SUFFICES ASSUME GatewayInv, [Next]_vars PROVE GatewayInv'
  OBVIOUS
<1> DEFINE Kept == WorldInv' /\ \A o \in Slots : SlotInv(o)'
<1>1. SessionsInv'
  BY SessionsStep DEF GatewayInv
<1>2. ASSUME UNCHANGED vars PROVE Kept
  BY <1>2, NobodyMoves DEF vars, world, history
<1>3. ASSUME Tick PROVE Kept
  BY <1>3, NobodyMoves DEF Tick, history
<1>4. ASSUME NEW s, SetSecret(s) PROVE Kept
  BY <1>4, NobodyMoves DEF SetSecret, history
<1>5. ASSUME NEW list \in Proxies, SetTrustedProxies(list) PROVE Kept
  BY <1>5, TrustKeeps
<1>6. ASSUME NEW r \in Slots, NEW c \in Calls, Arrive(r, c) PROVE Kept
  BY <1>6, ArrivesKeeps
<1>7. ASSUME NEW r \in Slots, Resolve(r) PROVE Kept
  BY <1>7, ResolveKeeps
<1>8. ASSUME NEW r \in Slots, Refuse(r) PROVE Kept
  <2>1. 429 \in Statuses /\ 204 \in Statuses
    BY DEF Statuses
  <2>2. \E code \in Statuses : Answers(r, code)
    BY <1>8, <2>1 DEF Refuse
  <2> QED
    BY <2>2, AnswersTo
<1>9. ASSUME NEW r \in Slots, Cors(r) PROVE Kept
  BY <1>9, CorsKeeps
<1>10. ASSUME NEW r \in Slots, Gate(r) PROVE Kept
  BY <1>10, GateKeeps
<1>11. ASSUME NEW r \in Slots, Handle(r) PROVE Kept
  BY <1>11, HandleKeeps
<1>12. ASSUME NEW r \in Slots, NEW priority \in Priorities, Limit(r, priority)
       PROVE  Kept
  BY <1>12, LimitKeeps
<1>13. ASSUME NEW r \in Slots, NEW u \in Users, Sign(r, u) PROVE Kept
  <2>1. 200 \in Statuses /\ 500 \in Statuses
    BY DEF Statuses
  <2>2. \E code \in Statuses : Answers(r, code)
    BY <1>13, <2>1 DEF Sign
  <2> QED
    BY <2>2, AnswersTo
<1>14. Kept
  <2> HIDE DEF Kept
  <2> QED
    BY <1>3, <1>4, <1>5, <1>6, <1>7, <1>8, <1>9, <1>10, <1>11, <1>12, <1>13, <1>2
       DEF Next, Kept
<1> QED
  BY <1>1, <1>14 DEF GatewayInv

\* At first nobody is on the way.
LEMMA GatewayInit == Init => GatewayInv
<1> SUFFICES ASSUME Init PROVE GatewayInv
  OBVIOUS
<1>1. WorldInv
  BY DEF Init, WorldInv
<1>2. /\ Free.ahead = <<>> /\ Free.key = None /\ Free.ext = None
      /\ Free.status = 0 /\ Free.route = "health"
  BY DEF Free
<1>3. \A r \in Slots : request[r] = Free
  BY DEF Init
<1>4. ASSUME NEW r \in Slots PROVE SlotInv(r)
  <2>1. Typed(r)
    <3>1. Free.status \in Statuses
      BY <1>2 DEF Statuses
    <3> QED
      BY <1>2, <1>3, <3>1, NoneLeft DEF Typed
  <2>2. Routed(r)
    BY <1>2, <1>3 DEF Routed, Routes
  <2>3. Trusted(r) /\ Keyed(r)
    BY <1>2, <1>3, NoneLeft DEF Trusted, Keyed, Reaches
  <2> QED
    BY <2>1, <2>2, <2>3 DEF SlotInv
<1> QED
  BY <1>1, <1>4, SessionsInit DEF GatewayInv

-----------------------------------------------------------------------------
\* How far every request is, what it was given, and whom it trusted on the way.
THEOREM GatewayInvariant == Spec => []GatewayInv
BY GatewayInit, GatewayNext, PTL DEF Spec

\* The gateway's variables have their types; no token outlives its lifetime.
THEOREM GatewayTyped == Spec => []TypeOK
<1>1. GatewayInv => TypeOK
  <2> SUFFICES ASSUME GatewayInv PROVE TypeOK
    OBVIOUS
  <2>1. /\ build \in Builds /\ clock \in Time /\ proxies \in Proxies
        /\ secret \in Secrets \cup {Unset} /\ ever \subseteq Slots
        /\ always \subseteq ever
    BY DEF GatewayInv, WorldInv, SessionsInv
  <2>2. /\ births \subseteq [token : Token, at : Time, under : Secrets]
        /\ \A b \in births : b.token.exp <= b.at + Lifetime
    BY DEF GatewayInv, SessionsInv, BirthsAreTrue, Birth
  <2>3. \A r \in Slots : Typed(r)
    BY DEF GatewayInv, SlotInv
  <2> QED
    BY <2>1, <2>2, <2>3 DEF TypeOK, Typed, Statuses
<1> QED
  BY <1>1, GatewayInvariant, PTL

\* Whose key a request is charged under: with known peers its own address, by the
\* trust in its peer while it was on its way; in the server of main.rs, where no
\* peer is known, whatever its forwarding header says, the list not asked.
THEOREM ChargesFollowSource == Spec => []KeysFollowSource
<1>1. GatewayInv => KeysFollowSource
  BY DEF GatewayInv, SlotInv, Keyed, KeysFollowSource
<1> QED
  BY <1>1, GatewayInvariant, PTL

\* The handlers stand behind the layers that are meant to stand before them.
THEOREM LayersAreRight == Spec => []RightLayers
<1>1. GatewayInv => RightLayers
  <2> SUFFICES ASSUME GatewayInv, NEW r \in Slots
               PROVE  /\ Reaches(r, "handler") =>
                           /\ (request[r].key = None) <=>
                                 (request[r].route \in {"health", "debug"})
                           /\ (request[r].sub = None) <=>
                                 (request[r].route \notin {"users", "nowhere"})
                      /\ Reaches(r, "gate") => ~(build.cors /\ request[r].preflight)
    BY DEF RightLayers
  <2>1. Routed(r)
    BY DEF GatewayInv, SlotInv
  <2> QED
    BY <2>1 DEF Routed, Reaches, Charged, Gated, Routes
<1> QED
  BY <1>1, GatewayInvariant, PTL
=============================================================================
