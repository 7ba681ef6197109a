------------------------------ MODULE ClientKey ------------------------------
(***************************************************************************)
(* Who is asking: the address proxy_middleware resolves                    *)
(* (src/src/middlewares/proxy.rs) and the key under which the rate limiter *)
(* charges a request (src/src/middlewares/rate_limiter.rs, rate_limiter()).*)
(*                                                                         *)
(* A header value is a text; one that is not visible ASCII counts as       *)
(* absent in both places.  A CIDR list is the set of the addresses it      *)
(* covers.  std's IpAddr prints every address in one way, so an address is *)
(* the text it prints; Parse maps other spellings of it there, and what is *)
(* no address to None.                                                     *)
(***************************************************************************)
CONSTANTS
  Addrs,        \* addresses, as IpAddr prints them
  Texts,        \* what a header may hold
  Parse,        \* IpAddr::from_str
  First,        \* the first entry of an X-Forwarded-For list, trimmed
  Bearers,      \* bearer tokens
  Fingerprint,  \* the 64-bit hash of a bearer token, in hexadecimal
  Unknown,      \* the key "unknown"
  None          \* absent: a header, an extension, an address

Priorities == {"ip", "auth", "auth+ip"}

\* What the two middlewares read of a request.  The gate of the user routes
\* wants "Bearer", the rate limiter takes it in any case.
Heads == [from   : Addrs,
          cf     : Texts \cup {None},
          xff    : Texts \cup {None},
          xri    : Texts \cup {None},
          scheme : {None, "Bearer", "bearer", "Basic"},
          bearer : Bearers \cup {None}]

ASSUME ClientAssumption ==
  /\ Addrs \subseteq Texts
  /\ Parse \in [Texts -> Addrs \cup {None}]
  /\ \A a \in Addrs : Parse[a] = a
  /\ First \in [Texts -> Texts]
  /\ DOMAIN Fingerprint = Bearers
  /\ None \notin Texts \cup Bearers \cup {Unknown}
  /\ \A b \in Bearers :
       /\ Fingerprint[b] # None
       /\ \A ip \in Texts \cup {None} : [auth |-> Fingerprint[b], ip |-> ip] # None

-----------------------------------------------------------------------------
(* proxy_middleware                                                        *)

\* An empty list trusts nobody, nor does any list a peer that is not known.
PeerIsTrusted(peer, proxies) == peer \in proxies

\* The header in use: CF-Connecting-IP, else X-Forwarded-For, else X-Real-IP.
\* The one found first is used even when it is no address.
Forwarded(h) ==
  IF h.cf # None THEN h.cf ELSE IF h.xff # None THEN First[h.xff] ELSE h.xri

ForwardedIp(h) == IF Forwarded(h) = None THEN None ELSE Parse[Forwarded(h)]

\* A mutation: no address is resolved for a peer that is not trusted.
ClientIpTrustedOnly(h, peer, proxies) ==
  IF PeerIsTrusted(peer, proxies) THEN ForwardedIp(h) ELSE None

\* The ClientIp extension, or None.
ClientIp(h, peer, proxies) ==
  IF PeerIsTrusted(peer, proxies) /\ ForwardedIp(h) # None
  THEN ForwardedIp(h) ELSE peer

-----------------------------------------------------------------------------
(* rate_limiter                                                            *)

\* Where no ClientIp was set, the limiter reads the same headers as they are.
IpSource(h, ext, peer) ==
  IF ext # None THEN ext
  ELSE IF Forwarded(h) # None THEN Forwarded(h) ELSE peer

AuthToken(h) == IF h.scheme \in {"Bearer", "bearer"} THEN h.bearer ELSE None

KeyOf(priority, ip, token) ==
  IF token # None /\ priority = "auth+ip"
  THEN [auth |-> Fingerprint[token], ip |-> ip]
  ELSE IF token # None /\ (priority = "auth" \/ ip = None)
  THEN Fingerprint[token]
  ELSE IF ip # None THEN ip ELSE Unknown
==============================================================================
