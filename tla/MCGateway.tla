----------------------------- MODULE MCGateway -----------------------------
(* Gateway for TLC: a handful of calls that make every layer decide.       *)
EXTENDS Gateway

CONSTANTS near, edge, far, spelt, list, admin, u1, s1, s2

MCAddrs == {near, edge, far}

\* `spelt` is another spelling of `far`, `list` a list that begins with it.
MCTexts == MCAddrs \cup {spelt, list}

MCParse == [t \in MCTexts |->
  IF t \in MCAddrs THEN t ELSE IF t = spelt THEN far ELSE None]

MCFirst == [t \in MCTexts |-> IF t = list THEN spelt ELSE t]

MCBearers == [sub : Users, exp : 0..(MaxTime + Lifetime),
              secret : Secrets \cup {Foreign}] \cup {admin}

MCFingerprint == [b \in MCBearers |-> b]

MCProxies == {{}, {edge}}

\* main.rs with its defaults, and everything on in a server that knows its peers.
MCBuilds ==
  {[cors |-> FALSE, debug |-> FALSE, wired |-> FALSE, admin |-> Unset],
   [cors |-> TRUE,  debug |-> TRUE,  wired |-> TRUE,  admin |-> admin]}

\* main.rs with its defaults.
MCServed == {[cors |-> FALSE, debug |-> FALSE, wired |-> FALSE, admin |-> Unset]}

CallFrom(route, addr, scheme, bearer, xff) ==
  [route |-> route, preflight |-> FALSE,
   head |-> [from |-> addr, cf |-> None, xff |-> xff, xri |-> None,
             scheme |-> scheme, bearer |-> bearer]]

MCBorne == {t \in Token : t.exp = IF t.secret = Foreign THEN MaxTime ELSE Lifetime}

MCCalls ==
  {CallFrom("users", edge, "Bearer", t, list) : t \in MCBorne}
  \cup {CallFrom("nowhere", far, "Bearer", t, None) : t \in {t \in MCBorne : t.secret = s1}}
  \cup {CallFrom("login", near, None, None, spelt),
        CallFrom("debug", near, "bearer", admin, None),
        CallFrom("health", far, None, None, None),
        [CallFrom("users", far, None, None, None) EXCEPT !.preflight = TRUE]}

MCSymmetry == Permutations(Slots)
=============================================================================
