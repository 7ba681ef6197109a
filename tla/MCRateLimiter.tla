---------------------------- MODULE MCRateLimiter ----------------------------
(***************************************************************************)
(* RateLimiter for TLC.                                                    *)
(***************************************************************************)
EXTENDS RateLimiter, TLC

CONSTANTS t1, t2, h1, k1, k2

Env(rps, burst, action, ttl, cost) ==
  [rps |-> rps, burst |-> burst, key_priority |-> Unset, action |-> action,
   bucket_ttl_secs |-> ttl, request_cost |-> cost]

\* The burst is left to its default, twice the rate, and the ttl is just long
\* enough for a full refill.
MCPlain == {Env(1, Unset, Unset, 2, Unset)}

\* The same, and a strict setting whose burst is half, whose ttl is too short
\* for a refill of the other burst, and whose cost, being negative, is clamped.
MCStrict == MCPlain \cup {Env(1, 1, "drop", 1, -1)}

\* The admin's payload names k1 twice.
MCLists == {<<k1, k1>>}

TaskSymmetry == Permutations({t1, t2})
==============================================================================
