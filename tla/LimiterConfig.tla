---------------------------- MODULE LimiterConfig ----------------------------
(***************************************************************************)
(* The rate limiter's settings: the six values read_config() takes from    *)
(* the process environment (src/src/middlewares/rate_limiter.rs).          *)
(*                                                                         *)
(* An environment maps each RATE_LIMIT_* variable to its parsed value, or  *)
(* to Unset when the variable is missing or does not parse: the code sends *)
(* both to the default (`.ok().and_then(|v| v.parse().ok())`).  The f64    *)
(* settings (rate, burst, cost) are integers here, counted in one common   *)
(* fraction of a token; negative ones parse, so they are kept.             *)
(*                                                                         *)
(* The code reads the six variables one after the other, so an environment *)
(* that changes meanwhile may be read half old, half new.  What it reads   *)
(* is an environment again: a set of environments that is to stand for all *)
(* a process may read holds those mixtures as well.                        *)
(***************************************************************************)
EXTENDS Integers

CONSTANT Unset

ASSUME UnsetAssumption == Unset \notin Int

\* What the code tells apart; any other text acts like "ip" and "block".
Priorities == {"ip", "auth", "auth+ip"}
Actions == {"block", "drop", "throttle"}

Environment ==
  [rps : Int \cup {Unset}, burst : Int \cup {Unset},
   key_priority : Priorities \cup {Unset}, action : Actions \cup {Unset},
   bucket_ttl_secs : Nat \cup {Unset}, request_cost : Int \cup {Unset}]

Config ==
  [rate : Int, burst : Int, key_priority : Priorities, action : Actions,
   ttl_secs : Nat, request_cost : Nat]

OrElse(setting, default) == IF setting = Unset THEN default ELSE setting

\* A mutation: the cost is not clamped.
Unclamped(cost) == cost

\* `.max(0.0)`, on the cost only.
Clamped(cost) == IF cost < 0 THEN 0 ELSE cost

ReadConfig(e) ==
  LET rate == OrElse(e.rps, 100)
  IN [rate         |-> rate,
      burst        |-> OrElse(e.burst, rate * 2),
      key_priority |-> OrElse(e.key_priority, "ip"),
      action       |-> OrElse(e.action, "block"),
      ttl_secs     |-> OrElse(e.bucket_ttl_secs, 300),
      request_cost |-> Clamped(OrElse(e.request_cost, 1))]
==============================================================================
