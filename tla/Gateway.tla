------------------------------- MODULE Gateway -------------------------------
(***************************************************************************)
(* The way of a request through the service: the router build_router()     *)
(* assembles (src/src/app.rs, src/src/routes), the proxy middleware, the   *)
(* rate limiter, CORS, the gate before /users and the handler, with the    *)
(* bearer tokens that a login hands out and the gate takes                 *)
(* (src/src/utils/jwt.rs, src/src/middlewares/auth_middleware.rs).         *)
(*                                                                         *)
(* Requests run side by side; the list of trusted proxies, the environment *)
(* and time change between any two layers one of them passes.  Whether the *)
(* rate limiter admits a request is open here (module RateLimiter says),   *)
(* and so is what a handler does to the table (module UserService).        *)
(***************************************************************************)
EXTENDS ClientKey, Integers, FiniteSets, Sequences, SequencesExt

CONSTANTS
  Slots,      \* requests in flight at the same time
  Calls,      \* what clients send: [route, preflight, head]
  Proxies,    \* the trusted lists that may be set, as sets of addresses
  Secrets,    \* values of JWT_SECRET
  Unset,      \* JWT_SECRET or RATE_LIMIT_DEBUG_TOKEN is not set
  Foreign,    \* a secret that signs tokens elsewhere
  Users,      \* user ids
  Builds,     \* how the process may be set up: see Build
  Loopback,   \* addresses of this host
  Lifetime,   \* 24 hours in the code
  Leeway,     \* of Validation::default(): 60 seconds
  MaxTime,    \* bound of the model: the clock stops here
  MaxIssued   \* bound of the model: the tokens handed out

Time == 0..MaxTime

\* A signed token: its claims and the secret.  Signing is a function of them.
Token == [sub : Users, exp : 0..(MaxTime + Lifetime),
          secret : Secrets \cup {Foreign}]

\* "nowhere" is what axum serves where no route matches: the router's fallback.
Routes == {"register", "login", "users", "debug", "health", "nowhere"}

Call == [route : Routes, preflight : BOOLEAN, head : Heads]

\* Fixed when the process starts.  admin: RATE_LIMIT_DEBUG_TOKEN.  wired: the
\* server puts the peer's address into the request, as the test of the key's
\* sources does; main.rs serves without it.
Build == [cors : BOOLEAN, debug : BOOLEAN, wired : BOOLEAN,
          admin : Bearers \cup {Unset}]

ASSUME GatewayAssumption ==
  /\ Builds \subseteq Build
  /\ Calls \subseteq Call
  /\ \A p \in Proxies : p \subseteq Addrs
  /\ Loopback \subseteq Addrs
  /\ Token \subseteq Bearers
  /\ None \notin Users
  /\ Unset \notin Secrets \cup Bearers \cup {Foreign}
  /\ Foreign \notin Secrets
  /\ {Lifetime, Leeway, MaxTime, MaxIssued} \subseteq Nat

VARIABLES
  build,     \* how the process was set up
  clock,     \* Utc::now(), in seconds
  proxies,   \* TRUSTED_PROXES
  secret,    \* JWT_SECRET, as it is now
  request,   \* slot |-> the request and how far it is
  births,    \* history: the tokens handed out, when and under which secret
  ever,      \* history: slots whose peer was trusted at some moment since the
             \* request arrived and until the proxy middleware was done,
  always     \* or at every such moment

world == <<clock, proxies, secret>>
history == <<births, ever, always>>
vars == <<build, world, request, history>>

-----------------------------------------------------------------------------
(***************************************************************************)
(* The router: what a request for each route passes, outermost layer       *)
(* first, and <<>> where there is no such route.  A layer wraps the routes *)
(* that are there when it is added, and the fallback, which every router   *)
(* has; those of a merged router bring theirs, the fallback included.      *)
(***************************************************************************)
NoRoutes == [route \in Routes |-> IF route = "nowhere" THEN <<"handler">> ELSE <<>>]

Routing(app, routes) ==
  [route \in Routes |-> IF route \in routes THEN <<"handler">> ELSE app[route]]

Wrapping(app, layer) ==
  [route \in Routes |->
     IF app[route] = <<>> THEN <<>> ELSE <<layer>> \o app[route]]

Merging(app, other) ==
  [route \in Routes |-> IF other[route] = <<>> THEN app[route] ELSE other[route]]

AuthRoutes == Routing(NoRoutes, {"register", "login"})

UserRoutes == Wrapping(Routing(NoRoutes, {"users"}), "gate")

Api == Merging(Merging(NoRoutes, AuthRoutes), UserRoutes)

\* A mutation: all routes are added before the layers.
RoutesFirst(b) ==
  LET routed == Routing(Api, {"health"} \cup (IF b.debug THEN {"debug"} ELSE {}))
      shared == IF b.cors THEN Wrapping(routed, "cors") ELSE routed
  IN Wrapping(Wrapping(shared, "limiter"), "proxy")

\* build_router(), statement by statement.
BuildRouter(b) ==
  LET shared  == IF b.cors THEN Wrapping(Api, "cors") ELSE Api
      limited == Wrapping(shared, "limiter")
      proxied == Wrapping(limited, "proxy")
      debug   == IF b.debug THEN Routing(proxied, {"debug"}) ELSE proxied
  IN Routing(debug, {"health"})

-----------------------------------------------------------------------------
NoHead == [from |-> None, cf |-> None, xff |-> None, xri |-> None,
           scheme |-> None, bearer |-> None]

\* `ahead` holds the layers still to pass; none are left once it is answered.
Free == [route |-> "health", preflight |-> FALSE, head |-> NoHead,
         ahead |-> <<>>, ext |-> None, mode |-> "ip", key |-> None,
         sub |-> None, status |-> 0]

Layers == {"proxy", "limiter", "cors", "gate", "handler", "sign"}

\* The types of the variables; no token bears a lifetime of its own.
TypeOK ==
  /\ build \in Builds
  /\ clock \in Time
  /\ proxies \in Proxies
  /\ secret \in Secrets \cup {Unset}
  /\ births \subseteq [token : Token, at : Time, under : Secrets]
  /\ \A b \in births : b.token.exp <= b.at + Lifetime
  /\ ever \subseteq Slots /\ always \subseteq ever
  /\ \A r \in Slots :
       /\ request[r].ahead \in Seq(Layers)
       /\ request[r].ext \in Addrs \cup {None}
       /\ request[r].status \in {0, 200, 204, 400, 401, 404, 405, 429, 500, 501}

Init ==
  /\ build \in Builds
  /\ clock = 0
  /\ proxies \in Proxies
  /\ secret \in Secrets
  /\ request = [r \in Slots |-> Free]
  /\ births = {}
  /\ ever = {} /\ always = {}

-----------------------------------------------------------------------------
(* The world                                                               *)

Tick ==
  /\ clock < MaxTime
  /\ clock' = clock + 1
  /\ UNCHANGED <<build, proxies, secret, request, history>>

SetSecret(s) ==
  /\ secret' = s
  /\ UNCHANGED <<build, clock, proxies, request, history>>

\* Requests the proxy middleware has yet to see.
Unresolved == {r \in Slots : Contains(request[r].ahead, "proxy")}

\* set_trusted_proxies(): one write under the RwLock.
SetTrustedProxies(list) ==
  /\ proxies' = list
  /\ LET now == {r \in Unresolved : request[r].head.from \in list}
     IN /\ ever' = ever \cup now
        /\ always' = always \ (Unresolved \ now)
  /\ UNCHANGED <<build, clock, secret, request, births>>

-----------------------------------------------------------------------------
(* A request                                                               *)

\* The peer the middlewares find in the request's extensions.
Peer(r) == IF build.wired THEN request[r].head.from ELSE None

Reaches(r, layer) ==
  /\ request[r].ahead # <<>>
  /\ Head(request[r].ahead) = layer

\* The request becomes q and goes on inwards, or is answered.
Passes(r, q) ==
  /\ request' = [request EXCEPT ![r] = [q EXCEPT !.ahead = Tail(@)]]
  /\ UNCHANGED <<build, world>>

\* Of an answered request only what a property looks back at is kept.
Answers(r, code) ==
  /\ request' = [request EXCEPT ![r] =
                   [Free EXCEPT !.route = request[r].route,
                                !.head = request[r].head, !.status = code]]
  /\ ever' = ever \ {r}
  /\ always' = always \ {r}
  /\ UNCHANGED <<build, world>>

\* A token of ours exists once a login has handed it out.
Exists(bearer) ==
  bearer \in Token /\ bearer.secret \in Secrets =>
    \E b \in births : b.token = bearer

\* The route that serves a call.
Served(c) == IF BuildRouter(build)[c.route] = <<>> THEN "nowhere" ELSE c.route

\* A client sends a call.
Arrive(r, c) ==
  /\ request[r].ahead = <<>>
  /\ Exists(c.head.bearer)
  /\ request' = [request EXCEPT ![r] =
       [Free EXCEPT !.route = Served(c), !.preflight = c.preflight,
                    !.head = c.head, !.ahead = BuildRouter(build)[Served(c)]]]
  /\ LET now == IF c.head.from \in proxies THEN {r} ELSE {}
     IN /\ ever' = (ever \ {r}) \cup now
        /\ always' = (always \ {r}) \cup now
  /\ UNCHANGED <<build, world, births>>

\* proxy_middleware: one read under the RwLock.
Resolve(r) ==
  /\ Reaches(r, "proxy")
  /\ Passes(r, [request[r] EXCEPT !.ext =
                  ClientIp(request[r].head, Peer(r), proxies)])
  /\ UNCHANGED history

\* rate_limiter(), with RATE_LIMIT_KEY_PRIORITY as it is at this moment.
Limit(r, priority) ==
  /\ Reaches(r, "limiter")
  /\ LET h == request[r].head
     IN Passes(r, [request[r] EXCEPT
          !.mode = priority,
          !.key = KeyOf(priority, IpSource(h, request[r].ext, Peer(r)), AuthToken(h))])
  /\ UNCHANGED history

\* The bucket of that key is empty, RATE_LIMIT_ACTION says how to answer.
Refuse(r) ==
  /\ Reaches(r, "limiter")
  /\ \E code \in {429, 204} : Answers(r, code)
  /\ UNCHANGED births

\* CorsLayer answers a preflight by itself.
Cors(r) ==
  /\ Reaches(r, "cors")
  /\ IF request[r].preflight THEN Answers(r, 200)
     ELSE Passes(r, request[r]) /\ UNCHANGED <<ever, always>>
  /\ UNCHANGED births

\* A mutation: exp is not looked at.
VerifiesForever(token) == token \in Token /\ token.secret = secret

\* verify_jwt_token(): without a secret nothing verifies.
Verifies(token) ==
  /\ token \in Token
  /\ token.secret = secret
  /\ clock <= token.exp + Leeway

\* auth_middleware()
Gate(r) ==
  /\ Reaches(r, "gate")
  /\ LET h == request[r].head
     IN IF h.scheme = "Bearer" /\ Verifies(h.bearer)
        THEN /\ Passes(r, [request[r] EXCEPT !.sub = h.bearer.sub])
             /\ UNCHANGED <<ever, always>>
        ELSE Answers(r, 401)
  /\ UNCHANGED births

\* authorize_debug(), authorize_debug_from()
MayDebug(r) ==
  IF build.admin # Unset THEN AuthToken(request[r].head) = build.admin
  ELSE Peer(r) \in Loopback

\* The method router and the handler.  A login that checked the credentials
\* goes on to sign a token; 200 stands for whatever else these handlers answer.
\* The debug endpoints may also find RATE_LIMIT_DEBUG cleared or a body that they
\* cannot read, before they ask who it is, and an action or keys they do not know.
Handle(r) ==
  /\ Reaches(r, "handler")
  /\ IF request[r].route = "nowhere" THEN Answers(r, 404)
     ELSE IF request[r].preflight THEN Answers(r, 405)
     ELSE IF request[r].route = "debug"
     THEN \E code \in {400, 404} \cup (IF MayDebug(r) THEN {200, 501} ELSE {401}) :
            Answers(r, code)
     ELSE \/ Answers(r, 200)
          \/ /\ request[r].route = "login"
             /\ Passes(r, [request[r] EXCEPT !.ahead = @ \o <<"sign">>])
             /\ UNCHANGED <<ever, always>>
  /\ UNCHANGED births

\* A mutation: create_jwt() adds 24 hours twice.
ExpiryTwice == clock + 2 * Lifetime

Expiry == clock + Lifetime

\* generate_jwt_token(), for the user whose credentials were checked.
Sign(r, u) ==
  /\ Reaches(r, "sign")
  /\ IF secret = Unset
     THEN Answers(r, 500) /\ UNCHANGED births
     ELSE /\ Cardinality(births) < MaxIssued
          /\ births' = births \cup
               {[token |-> [sub |-> u, exp |-> Expiry, secret |-> secret],
                 at |-> clock, under |-> secret]}
          /\ Answers(r, 200)

-----------------------------------------------------------------------------
Next ==
  \/ Tick
  \/ \E s \in Secrets \cup {Unset} : SetSecret(s)
  \/ \E list \in Proxies : SetTrustedProxies(list)
  \/ \E r \in Slots, c \in Calls : Arrive(r, c)
  \/ \E r \in Slots :
       Resolve(r) \/ Refuse(r) \/ Cors(r) \/ Gate(r) \/ Handle(r)
  \/ \E r \in Slots, priority \in Priorities : Limit(r, priority)
  \/ \E r \in Slots, u \in Users : Sign(r, u)

Spec == Init /\ [][Next]_vars

-----------------------------------------------------------------------------
(* Properties                                                              *)

\* Whose key a request is charged under, in both kinds of server, whatever
\* happens to the list of trusted proxies meanwhile.  Where the server knows its
\* peers (the tests' server): a peer that was no trusted proxy while the request
\* was on its way cannot choose its address by a header, and behind a peer that
\* was one all that time a client has the one address it has, however the header
\* spells it.  In the server of main.rs, which knows no peer, the list decides
\* nothing: the key is always that of the header as it is sent, so the client
\* chooses it, and all that send no such header share one.
KeysFollowSource ==
  \A r \in Slots : request[r].key # None =>
    LET h == request[r].head
        keyFor(ip) == KeyOf(request[r].mode, ip, AuthToken(h))
    IN IF build.wired
       THEN /\ r \notin ever => request[r].key = keyFor(h.from)
            /\ r \in always /\ ForwardedIp(h) # None =>
                 request[r].key = keyFor(ForwardedIp(h))
       ELSE request[r].key = keyFor(Forwarded(h))

\* The order in which build_router() adds routes and layers: a handler is
\* reached by charged requests only, unless it is the health check or the debug
\* page, which the rate limiter must not close; the user routes, and whatever is
\* no route, are reached through the gate only; and where CORS is on, a
\* preflight, which carries no token, is never turned away by the gate.
RightLayers ==
  \A r \in Slots :
    /\ Reaches(r, "handler") =>
         /\ (request[r].key = None) <=> (request[r].route \in {"health", "debug"})
         /\ (request[r].sub = None) <=> (request[r].route \notin {"users", "nowhere"})
    /\ Reaches(r, "gate") => ~(build.cors /\ request[r].preflight)

\* A request acts as a user only on a token that a login handed out for this
\* user, under the secret that is in force now and at most a lifetime and the
\* leeway ago.
SessionsAreEarned ==
  [][\A r \in Slots : request[r].sub = None /\ request'[r].sub # None =>
       \E b \in births :
         /\ b.token = request[r].head.bearer
         /\ b.token.sub = request'[r].sub
         /\ b.under = secret
         /\ clock <= b.at + Lifetime + Leeway]_vars

\* README.md says that the forwarding headers are honoured only when the request
\* comes from a trusted proxy: any other is charged under its peer's address, or
\* under none.
HeadersNeedTrust ==
  \A r \in Slots : request[r].key # None /\ r \notin ever =>
    LET h == request[r].head
    IN \E ip \in {h.from, None} :
         request[r].key = KeyOf(request[r].mode, ip, AuthToken(h))
==============================================================================
