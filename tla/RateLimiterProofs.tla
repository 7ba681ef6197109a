-------------------------- MODULE RateLimiterProofs --------------------------
(***************************************************************************)
(* Type correctness of RateLimiter, for every set of tasks, keys,          *)
(* environments and admin requests, and every bound of the clock.          *)
(***************************************************************************)
EXTENDS RateLimiter, TLAPS

\* read_config() returns six values of the right types whatever is set.
LEMMA ReadConfigType ==
  ASSUME NEW e \in Environment
  PROVE  ReadConfig(e) \in Config
<1>1. /\ OrElse(e.rps, 100) \in Int
      /\ OrElse(e.rps, 100) * 2 \in Int
      /\ OrElse(e.burst, OrElse(e.rps, 100) * 2) \in Int
  BY DEF OrElse, Environment
<1>2. /\ OrElse(e.key_priority, "ip") \in Priorities
      /\ OrElse(e.action, "block") \in Actions
  BY DEF OrElse, Environment, Priorities, Actions
<1>3. OrElse(e.bucket_ttl_secs, 300) \in Nat
  BY DEF OrElse, Environment
<1>4. Clamped(OrElse(e.request_cost, 1)) \in Nat
  BY DEF OrElse, Clamped, Environment
<1> QED
  BY <1>1, <1>2, <1>3, <1>4 DEF ReadConfig, Config

\* A refilled bucket is a bucket, stamped with the request's `now`.
LEMMA RefilledType ==
  ASSUME NEW k \in Keys, NEW cfg \in Config, NEW now \in Time,
         MaxTime \in Nat, buckets \in [DOMAIN buckets -> Bucket]
  PROVE  Refilled(k, cfg, now) \in Bucket
BY DEF Refilled, Refill, Fresh, Elapsed, Least, Present, Bucket, Config, Time

\* Putting a bucket under a key of Keys keeps BUCKETS a map from keys.
LEMMA PutType ==
  ASSUME NEW k \in Keys, NEW b \in Bucket,
         DOMAIN buckets \subseteq Keys, buckets \in [DOMAIN buckets -> Bucket]
  PROVE  /\ DOMAIN Put(k, b) \subseteq Keys
         /\ Put(k, b) \in [DOMAIN Put(k, b) -> Bucket]
BY DEF Put

\* So does removing any key.
LEMMA WithoutType ==
  ASSUME NEW k,
         DOMAIN buckets \subseteq Keys, buckets \in [DOMAIN buckets -> Bucket]
  PROVE  /\ DOMAIN Without(k) \subseteq Keys
         /\ Without(k) \in [DOMAIN Without(k) -> Bucket]
BY DEF Without

-----------------------------------------------------------------------------
\* One lemma for each step that changes more than one local variable.

\* A request reads its settings, which are typed whatever the environment.
LEMMA EnterType ==
  ASSUME TypeOK, NEW t \in Tasks, NEW k \in Keys, Enter(t, k)
  PROVE  TypeOK'
<1>1. ReadConfig(env) \in Config
  BY ReadConfigType, LimiterAssumption DEF TypeOK
<1>2. [pc |-> "configured", key |-> k, cfg |-> ReadConfig(env), now |-> 0]
        \in Task
  BY <1>1, LimiterAssumption DEF Task, Time
<1>3. task' \in [Tasks -> Task]
  BY <1>2 DEF TypeOK, Enter
<1>4. \A u \in Tasks : task'[u].key = NoKey <=> task'[u].pc = "idle"
  BY LimiterAssumption DEF TypeOK, Enter
<1> QED
  BY <1>3, <1>4 DEF TypeOK, Enter

\* Its time stamp is a time that has been, and the cleaner may start here.
LEMMA StampType ==
  ASSUME TypeOK, NEW t \in Tasks, Stamp(t)
  PROVE  TypeOK'
<1>1. task' \in [Tasks -> Task]
  BY DEF TypeOK, Stamp, Task
<1>2. \A u \in Tasks : task'[u].key = NoKey <=> task'[u].pc = "idle"
  BY DEF TypeOK, Stamp, Task
<1>3. task[t].cfg.ttl_secs \in Nat
  BY DEF TypeOK, Task, Config
<1>4. purger' \in [Purgers -> Purger]
  <2> DEFINE q == [purger[Cleaner] EXCEPT
                     !.pc = "asleep", !.ttl = task[t].cfg.ttl_secs,
                     !.wake = clock + SleepInterval]
  <2>1. Cleaner \in Purgers /\ clock + SleepInterval \in Nat
    BY LimiterAssumption DEF TypeOK, Purgers, Time
  <2>2. q \in Purger
    BY <1>3, <2>1 DEF TypeOK, Purger
  <2>3. purger' = purger \/ purger' = [purger EXCEPT ![Cleaner] = q]
    BY DEF Stamp, StartCleaner
  <2> QED
    BY <2>2, <2>3 DEF TypeOK
<1> QED
  BY <1>1, <1>2, <1>4 DEF TypeOK, Stamp

\* A charge or a refusal leaves a typed bucket.
LEMMA ChargeType ==
  ASSUME TypeOK, NEW t \in Tasks, Admit(t) \/ Refuse(t)
  PROVE  TypeOK'
<1> DEFINE b == Refilled(task[t].key, task[t].cfg, task[t].now)
<1>1. /\ task[t].pc = "stamped"
      /\ task[t].key \in Keys
      /\ task[t].cfg \in Config
      /\ task[t].now \in Time
  BY DEF TypeOK, Task, Admit, Refuse
<1>2. b \in Bucket
  BY <1>1, RefilledType, LimiterAssumption DEF TypeOK
<1>3. Spend(b, task[t].cfg) \in Bucket
  BY <1>1, <1>2 DEF Spend, Bucket, Config
<1>4. /\ DOMAIN buckets' \subseteq Keys
      /\ buckets' \in [DOMAIN buckets' -> Bucket]
  <2>1. CASE Admit(t)
    BY <2>1, <1>1, <1>3, PutType DEF TypeOK, Admit
  <2>2. CASE Refuse(t)
    BY <2>2, <1>1, <1>2, PutType DEF TypeOK, Refuse
  <2> QED
    BY <2>1, <2>2
<1>5. task' \in [Tasks -> Task]
  BY DEF TypeOK, Admit, Refuse, Task
<1>6. \A u \in Tasks : task'[u].key = NoKey <=> task'[u].pc = "idle"
  <2>1. CASE Admit(t)
    BY <2>1, <1>1 DEF TypeOK, Admit, Task
  <2>2. CASE Refuse(t)
    BY <2>2, <1>1 DEF TypeOK, Refuse, Task
  <2> QED
    BY <2>1, <2>2
<1> QED
  BY <1>4, <1>5, <1>6 DEF TypeOK, Admit, Refuse

\* A purge starts with nothing judged.
LEMMA BeginType ==
  ASSUME TypeOK, NEW p \in Purgers, NEW ttl \in Nat, Begin(p, ttl)
  PROVE  TypeOK'
<1> DEFINE q == [purger[p] EXCEPT !.pc = "collect", !.ttl = ttl, !.at = clock,
                                  !.ahead = Keys]
<1>1. q \in Purger
  BY DEF TypeOK, Purger
<1>2. purger' = [purger EXCEPT ![p] = q]
  BY DEF Begin
<1>3. purger' \in [Purgers -> Purger]
  BY <1>1, <1>2 DEF TypeOK
<1> QED
  BY <1>3 DEF TypeOK, Begin

\* Every later step of a purge keeps its locals typed.
LEMMA PurgerStepType ==
  ASSUME TypeOK, NEW p \in Purgers, PurgerStep(p)
  PROVE  TypeOK'
<1>1. ASSUME NEW k \in Keys, Collect(p, k) PROVE TypeOK'
  <2> DEFINE q == [purger[p] EXCEPT
                     !.ahead = @ \ {k},
                     !.todo = IF Present(k) THEN @ \cup {k} ELSE @,
                     !.pc = IF purger[p].ahead = {k} THEN "inspect" ELSE @]
  <2>1. q \in Purger
    BY DEF TypeOK, Purger
  <2>2. purger' = [purger EXCEPT ![p] = q]
    BY <1>1 DEF Collect
  <2>3. purger' \in [Purgers -> Purger]
    BY <2>1, <2>2 DEF TypeOK
  <2> QED
    BY <1>1, <2>3 DEF TypeOK, Collect
<1>2. ASSUME NEW k \in Keys, Inspect(p, k) PROVE TypeOK'
  <2> DEFINE should_remove ==
               Present(k) /\ Stale(buckets[k], purger[p].at, purger[p].ttl)
             q == [purger[p] EXCEPT
                     !.todo = Remaining(p, k),
                     !.pc = IF should_remove THEN "evict" ELSE @,
                     !.victim = IF should_remove THEN k ELSE @]
  <2>1. q \in Purger
    BY DEF TypeOK, Purger, Remaining
  <2>2. purger' = [purger EXCEPT ![p] = q]
    BY <1>2 DEF Inspect
  <2>3. purger' \in [Purgers -> Purger]
    BY <2>1, <2>2 DEF TypeOK
  <2> QED
    BY <1>2, <2>3 DEF TypeOK, Inspect
<1>3. CASE Evict(p)
  <2> DEFINE q == [purger[p] EXCEPT !.pc = "inspect", !.victim = NoKey]
  <2>1. q \in Purger
    BY DEF TypeOK, Purger
  <2>2. purger' \in [Purgers -> Purger]
    BY <1>3, <2>1 DEF TypeOK, Evict
  <2>3. /\ DOMAIN buckets' \subseteq Keys
        /\ buckets' \in [DOMAIN buckets' -> Bucket]
    BY <1>3, WithoutType DEF TypeOK, Evict
  <2> QED
    BY <1>3, <2>2, <2>3 DEF TypeOK, Evict
<1>4. CASE Finish(p)
  <2> DEFINE q == IF p = Cleaner
                  THEN [OffPurger EXCEPT !.pc = "asleep",
                                         !.ttl = purger[p].ttl,
                                         !.wake = clock + SleepInterval]
                  ELSE [OffPurger EXCEPT !.pc = "returned"]
  <2>1. purger[p].ttl \in Nat /\ clock + SleepInterval \in Nat
    BY LimiterAssumption DEF TypeOK, Purger, Time
  <2>2. OffPurger \in Purger
    BY LimiterAssumption DEF OffPurger, Purger, Time
  <2>3. q \in Purger
    <3>1. CASE p = Cleaner
      BY <3>1, <2>1, <2>2 DEF Purger
    <3>2. CASE p # Cleaner
      BY <3>2, <2>2 DEF Purger
    <3> QED
      BY <3>1, <3>2
  <2>4. purger' = [purger EXCEPT ![p] = q]
    BY <1>4 DEF Finish
  <2>5. purger' \in [Purgers -> Purger]
    BY <2>3, <2>4 DEF TypeOK
  <2> QED
    BY <1>4, <2>5 DEF TypeOK, Finish
<1> QED
  BY <1>1, <1>2, <1>3, <1>4 DEF PurgerStep

-----------------------------------------------------------------------------
\* Type correctness holds at the start
LEMMA InitType == Init => TypeOK
BY LimiterAssumption
   DEF Init, TypeOK, IdleTask, NoConfig, Task, Config, Priorities, Actions,
       OffPurger, Purger, Time

\* and is preserved by every step.
LEMMA NextType == TypeOK /\ [Next]_vars => TypeOK'
<1> SUFFICES ASSUME TypeOK, [Next]_vars PROVE TypeOK'
  OBVIOUS
<1>1. CASE Tick
  BY <1>1, LimiterAssumption DEF TypeOK, Tick, Time
<1>2. ASSUME NEW e \in Envs, SetEnv(e) PROVE TypeOK'
  BY <1>2 DEF TypeOK, SetEnv
<1>3. ASSUME NEW t \in Tasks, NEW k \in Keys, Enter(t, k) PROVE TypeOK'
  BY <1>3, EnterType
<1>4. ASSUME NEW t \in Tasks, TaskStep(t) PROVE TypeOK'
  <2>1. CASE Reply(t)
    BY <2>1, LimiterAssumption
       DEF TypeOK, Reply, IdleTask, NoConfig, Task, Config, Priorities,
           Actions, Time
  <2> QED
    BY <1>4, <2>1, StampType, ChargeType DEF TaskStep
<1>5. CASE CleanerWake
  BY <1>5, BeginType DEF CleanerWake, TypeOK, Purgers, Purger
<1>6. ASSUME NEW p \in Helpers, NEW ttl \in HelperTtls, PurgeOnce(p, ttl)
      PROVE  TypeOK'
  BY <1>6, BeginType, LimiterAssumption DEF PurgeOnce, Purgers
<1>7. ASSUME NEW p \in Purgers, PurgerStep(p) PROVE TypeOK'
  BY <1>7, PurgerStepType
<1>8. ASSUME NEW list \in DropLists, DropRequest(list) PROVE TypeOK'
  BY <1>8, LimiterAssumption DEF TypeOK, DropRequest
<1>9. CASE DropNext
  <2>1. /\ DOMAIN buckets' \subseteq Keys
        /\ buckets' \in [DOMAIN buckets' -> Bucket]
    BY <1>9, WithoutType DEF TypeOK, DropNext
  <2> QED
    BY <1>9, <2>1 DEF TypeOK, DropNext
<1>10. CASE UNCHANGED vars
  BY <1>10 DEF TypeOK, vars
<1> QED
  BY <1>1, <1>2, <1>3, <1>4, <1>5, <1>6, <1>7, <1>8, <1>9, <1>10 DEF Next

(***************************************************************************)
(* Type correctness: the map holds buckets under client keys only, every   *)
(* request in flight has a key, and no stamp lies after the clock's bound. *)
(***************************************************************************)
THEOREM TypeCorrect == Spec => []TypeOK
<1>1. Init => TypeOK
  BY InitType
<1>2. TypeOK /\ [Next]_vars => TypeOK'
  BY NextType
<1> QED
  BY <1>1, <1>2, PTL DEF Spec
==============================================================================
