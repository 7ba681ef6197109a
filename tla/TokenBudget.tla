----------------------------- MODULE TokenBudget -----------------------------
(***************************************************************************)
(* What a token bucket promises, seen from outside: up to any moment, the  *)
(* cost admitted for a key is at most a full burst plus what the refill    *)
(* rate has earned since the start, plus what has leaked.  A leak is an    *)
(* amount the limiter gives away beyond its burst and rate, and it stays   *)
(* with the key it was given to.                                           *)
(***************************************************************************)
EXTENDS Integers

CONSTANTS Keys, Rate, Burst

VARIABLES clock, paid, leaked

budget == <<clock, paid, leaked>>

Init ==
  /\ clock = 0
  /\ paid = [k \in Keys |-> 0]
  /\ leaked = [k \in Keys |-> 0]

Tick ==
  /\ clock' = clock + 1
  /\ UNCHANGED <<paid, leaked>>

\* One key's account: a cost is admitted within the allowance, a leak is
\* recorded, or both at once.  No other key is affected, nothing is refunded.
Serve(k) ==
  /\ paid' = [paid EXCEPT ![k] = paid'[k]]
  /\ leaked' = [leaked EXCEPT ![k] = leaked'[k]]
  /\ paid[k] <= paid'[k]
  /\ leaked[k] <= leaked'[k]
  /\ paid[k] < paid'[k] => paid'[k] <= Burst + Rate * clock + leaked'[k]
  /\ UNCHANGED clock

Next == Tick \/ \E k \in Keys : Serve(k)

Spec == Init /\ [][Next]_budget
==============================================================================
