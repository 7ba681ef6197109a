----------------------------- MODULE TokenLedger -----------------------------
(***************************************************************************)
(* Bookkeeping beside the rate limiter: what each client key has been      *)
(* charged, and how much the limiter gave away beyond its burst and rate.  *)
(* The variables of this module are history variables: they observe        *)
(* RateLimiter's steps and never restrict them.                            *)
(*                                                                         *)
(*   paid[k]   the total cost of the requests of k that were admitted      *)
(*   seen[k]   the moment up to which k's refill has been credited         *)
(*   slip[k]   how far that moment was moved BACK, in total: a request     *)
(*             stamps `now` before it takes the bucket's lock and then     *)
(*             assigns `last = now`, so the interval between its stamp and *)
(*             the one it overwrites is credited a second time             *)
(*   gift[k]   the tokens handed out by removing buckets that had not yet  *)
(*             refilled (the next request finds a full burst)              *)
(*   touched   the purgers whose victim was charged after it was judged    *)
(***************************************************************************)
EXTENDS RateLimiter

CONSTANTS
  RateBound,   \* no environment asks for a higher rate
  BurstBound,  \* ... or for a larger burst
  BurstFloor   \* ... or for a smaller burst

ASSUME LedgerAssumption ==
  /\ RateBound \in Nat
  /\ BurstBound \in Nat
  /\ BurstFloor \in Int
  /\ \A e \in Envs : /\ ReadConfig(e).rate <= RateBound
                     /\ ReadConfig(e).burst <= BurstBound
                     /\ ReadConfig(e).burst >= BurstFloor

VARIABLES paid, seen, slip, gift, touched

accounts == <<paid, seen, slip, gift>>
ledger == <<paid, seen, slip, gift, touched>>
ledgerVars == <<vars, ledger>>

LedgerInit ==
  /\ Init
  /\ paid = [k \in Keys |-> 0]
  /\ seen = [k \in Keys |-> 0]
  /\ slip = [k \in Keys |-> 0]
  /\ gift = [k \in Keys |-> 0]
  /\ touched = {}

NonNegative(x) == IF x < 0 THEN 0 ELSE x

\* A request of k, stamped `now`, takes its bucket and is charged `cost`.
Book(k, now, cost) ==
  /\ paid' = [paid EXCEPT ![k] = @ + cost]
  /\ slip' = [slip EXCEPT ![k] = @ + NonNegative(seen[k] - now)]
  /\ seen' = [seen EXCEPT ![k] = now]
  /\ touched' = touched \cup {p \in Purgers : purger[p].victim = k}
  /\ UNCHANGED gift

\* What bucket b still lacked, at the most favourable settings.
Shortfall(b) ==
  NonNegative(BurstBound - (b.tokens + RateBound * (clock - b.last)))

\* The bucket of k is removed, if there is one.
Forget(k) ==
  /\ gift' = IF Present(k)
             THEN [gift EXCEPT ![k] = @ + Shortfall(buckets[k])] ELSE gift
  /\ seen' = IF Present(k) THEN [seen EXCEPT ![k] = clock] ELSE seen
  /\ UNCHANGED <<paid, slip>>

\* The steps that neither charge a bucket nor remove one.
Quiet ==
  \/ Tick
  \/ \E e \in Envs : SetEnv(e)
  \/ \E t \in Tasks, k \in Keys : Enter(t, k)
  \/ \E t \in Tasks : Stamp(t) \/ Reply(t)
  \/ CleanerWake
  \/ \E p \in Helpers, ttl \in HelperTtls : PurgeOnce(p, ttl)
  \/ \E p \in Purgers, k \in Keys : Collect(p, k) \/ Inspect(p, k)
  \/ \E p \in Purgers : Finish(p)
  \/ \E list \in DropLists : DropRequest(list)

AdmitBooked(t) ==
  Admit(t) /\ Book(task[t].key, task[t].now, task[t].cfg.request_cost)

RefuseBooked(t) ==
  Refuse(t) /\ Book(task[t].key, task[t].now, 0)

EvictBooked(p) ==
  Evict(p) /\ Forget(purger[p].victim) /\ touched' = touched \ {p}

DropBooked ==
  DropNext /\ Forget(Head(dropping)) /\ UNCHANGED touched

LedgerNext ==
  \/ Quiet /\ UNCHANGED ledger
  \/ \E t \in Tasks : AdmitBooked(t) \/ RefuseBooked(t)
  \/ \E p \in Purgers : EvictBooked(p)
  \/ DropBooked

LedgerSpec == LedgerInit /\ [][LedgerNext]_ledgerVars

-----------------------------------------------------------------------------
(***************************************************************************)
(* Properties.                                                             *)
(***************************************************************************)

LedgerTypeOK ==
  /\ TypeOK
  /\ paid \in [Keys -> Nat]
  /\ seen \in [Keys -> Nat]
  /\ slip \in [Keys -> Nat]
  /\ gift \in [Keys -> Nat]
  /\ touched \subseteq Purgers

\* What the limiter may have handed out to k by now: a burst, the refill of
\* all the time that has passed, the time credited twice, and the gifts.
Allowance(k) == BurstBound + RateBound * (clock + slip[k]) + gift[k]

(***************************************************************************)
(* No key is admitted for more than its allowance, however requests,       *)
(* purges, admin drops and changes of the settings interleave: the two     *)
(* leaks the ledger records (refill credited twice, buckets removed early) *)
(* are the only ones the middleware's read-compute-write has.              *)
(***************************************************************************)
AdmissionBound == \A k \in Keys : paid[k] <= Allowance(k)

(***************************************************************************)
(* The stronger balance behind it: what a key has paid and what its bucket *)
(* still holds together fit into the refill credited so far.  A key with   *)
(* no bucket must still be owed a full burst.                              *)
(***************************************************************************)
Credited(k) == BurstBound + RateBound * (seen[k] + slip[k]) + gift[k]

Balanced(k) ==
  /\ seen[k] <= clock
  /\ Present(k) => /\ buckets[k].last = seen[k]
                   /\ buckets[k].tokens <= BurstBound
                   /\ paid[k] + buckets[k].tokens <= Credited(k)
  /\ ~Present(k) => paid[k] + BurstBound <= Credited(k)

BooksBalance == \A k \in Keys : Balanced(k)

(***************************************************************************)
(* An eviction gives nothing away when the bucket was not charged between  *)
(* the cleaner's look at it and its removal, its tokens are not negative,  *)
(* and the ttl is long enough for a full refill: idle buckets are full, so *)
(* forgetting one is not observable.                                       *)
(***************************************************************************)
UntouchedEvictionIsFree ==
  [][\A p \in Purgers :
       /\ Evict(p)
       /\ p \notin touched
       /\ RateBound * purger[p].ttl >= BurstBound
       /\ Present(purger[p].victim) => buckets[purger[p].victim].tokens >= 0
       => UNCHANGED gift]_ledgerVars

(***************************************************************************)
(* The burst is really there: with no negative rate, a request is refused  *)
(* only when the key's admissions so far, with this one, exceed the burst. *)
(* Evictions, drops and late requests never take tokens from a key.        *)
(***************************************************************************)
NoNegativeRate == \A e \in Envs : ReadConfig(e).rate >= 0

BurstIsHonoured ==
  [][NoNegativeRate =>
       \A t \in Tasks :
         Refuse(t) =>
           paid[task[t].key] + task[t].cfg.request_cost > BurstFloor]_ledgerVars

(***************************************************************************)
(* The inductive invariant behind all of them: the books balance, no       *)
(* request carries a stamp from the future or a setting nobody made, what  *)
(* a purger judged idle is idle unless it was touched since, and a bucket  *)
(* still holds what its key has not spent of the burst.                    *)
(***************************************************************************)
RequestsAreSound ==
  \A t \in Tasks :
    LET cfg == task[t].cfg
    IN /\ task[t].now <= clock
       /\ cfg.rate <= RateBound
       /\ cfg.burst <= BurstBound
       /\ task[t].pc # "idle" => /\ cfg.burst >= BurstFloor
                                 /\ NoNegativeRate => cfg.rate >= 0

Judged(p) ==
  LET q == purger[p]
  IN /\ q.at <= clock
     /\ q.pc = "evict" /\ p \notin touched /\ Present(q.victim)
          => Stale(buckets[q.victim], q.at, q.ttl)

JudgedAreIdle == \A p \in Purgers : Judged(p)

Remains(k) ==
  Present(k) => /\ buckets[k].last_access = buckets[k].last
                /\ NoNegativeRate => paid[k] + buckets[k].tokens >= BurstFloor

BurstRemains == \A k \in Keys : Remains(k)

LedgerInv ==
  /\ LedgerTypeOK
  /\ RequestsAreSound
  /\ BooksBalance
  /\ AdmissionBound
  /\ JudgedAreIdle
  /\ BurstRemains

\* The limiter keeps the abstract budget, leaks included.
Budget == INSTANCE TokenBudget
            WITH Rate <- RateBound, Burst <- BurstBound,
                 leaked <- [k \in Keys |-> RateBound * slip[k] + gift[k]]

(***************************************************************************)
(* TokenLedger implements TokenBudget: every step of the limiter ticks the *)
(* clock, serves one key within its allowance, or changes nothing a client *)
(* is promised.                                                            *)
(***************************************************************************)
KeepsBudget == Budget!Spec

(***************************************************************************)
(* src/README.md:243 "allowed token refill rate per second per key": with  *)
(* nothing evicted early, what a key is admitted for stays within a burst  *)
(* and that refill.                                                        *)
(***************************************************************************)
RefillRateIsKept ==
  \A k \in Keys : gift[k] = 0 => paid[k] <= BurstBound + RateBound * clock
==============================================================================
