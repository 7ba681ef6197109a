----------------------------- MODULE RateLimiter -----------------------------
(***************************************************************************)
(* The token-bucket rate limiter of src/src/middlewares/rate_limiter.rs:   *)
(* the middleware that every request passes, the background cleaner, the   *)
(* one-off purge and the admin "drop" action, all working on one           *)
(* process-wide map BUCKETS from client key to bucket.                     *)
(*                                                                         *)
(* Grain.  Everything the middleware does while it holds the map entry and *)
(* the bucket's mutex is one step (Admit, Refuse); what it reads before it *)
(* takes them (settings, timestamp) are steps of their own, because        *)
(* requests run on the threads of a multi-threaded runtime.  A purge reads *)
(* the map, judges a bucket and removes it in separate steps, as it        *)
(* releases every lock in between.  Instant::now() is the variable clock,  *)
(* in seconds; Tick moves it at any moment, so a thread may be preempted   *)
(* for any time between two of its steps.  `as_secs() >= ttl` truncates a  *)
(* duration and compares it with a whole number, which whole seconds       *)
(* decide alike.                                                           *)
(***************************************************************************)
EXTENDS LimiterConfig, Sequences

CONSTANTS
  Tasks,          \* requests in flight at the same time
  Keys,           \* client keys
  NoKey,          \* no key (a local variable that is not in scope)
  Envs,           \* the environments read_config() may find
  Cleaner,        \* the background cleaner
  Helpers,        \* calls of purge_stale_buckets_once, each made once
  HelperTtls,     \* the ttls they pass
  DropLists,      \* the key lists of POST /debug/rate_limiter
  SleepInterval,  \* the cleaner's pause: 30 s in the code
  MaxDrops,       \* bound of the model: the number of admin requests
  MaxTime         \* bound of the model: the clock stops here

ASSUME LimiterAssumption ==
  /\ Envs \subseteq Environment
  /\ NoKey \notin Keys
  /\ Cleaner \notin Helpers
  /\ HelperTtls \subseteq Nat
  /\ DropLists \subseteq Seq(Keys) \ {<<>>}
  /\ SleepInterval \in Nat
  /\ MaxDrops \in Nat
  /\ MaxTime \in Nat

Purgers == Helpers \cup {Cleaner}

VARIABLES
  clock,      \* Instant::now()
  env,        \* the process environment
  buckets,    \* BUCKETS: a function from the keys present to their buckets
  task,       \* per request: where it is and its local variables
  purger,     \* per purger: where it is and its local variables
  dropping,   \* the keys the admin action has yet to remove
  drops       \* how many admin requests there were

vars == <<clock, env, buckets, task, purger, dropping, drops>>

Time == 0..MaxTime

Bucket == [tokens : Int, last : Time, last_access : Time]

Present(k) == k \in DOMAIN buckets

Put(k, b) ==
  [j \in DOMAIN buckets \cup {k} |-> IF j = k THEN b ELSE buckets[j]]

Without(k) == [j \in DOMAIN buckets \ {k} |-> buckets[j]]

(***************************************************************************)
(* Local variables.  A request that is not being handled has the record    *)
(* IdleTask, a purger that is not purging has empty work sets.             *)
(***************************************************************************)
NoConfig == [rate |-> 0, burst |-> 0, key_priority |-> "ip",
             action |-> "block", ttl_secs |-> 0, request_cost |-> 0]

IdleTask == [pc |-> "idle", key |-> NoKey, cfg |-> NoConfig, now |-> 0]

Task == [pc  : {"idle", "configured", "stamped", "next", "dropped", "blocked"},
         key : Keys \cup {NoKey},
         cfg : Config,
         now : Time]

OffPurger == [pc |-> "off", ttl |-> 0, at |-> 0, wake |-> 0,
              ahead |-> {}, todo |-> {}, victim |-> NoKey]

Purger == [pc     : {"off", "asleep", "collect", "inspect", "evict", "returned"},
           ttl    : Nat,
           at     : Time,
           wake   : Nat,
           ahead  : SUBSET Keys,
           todo   : SUBSET Keys,
           victim : Keys \cup {NoKey}]

\* The types of the variables, and which locals are in scope when.
TypeOK ==
  /\ clock \in Time
  /\ env \in Envs
  /\ DOMAIN buckets \subseteq Keys
  /\ buckets \in [DOMAIN buckets -> Bucket]
  /\ task \in [Tasks -> Task]
  /\ \A t \in Tasks : task[t].key = NoKey <=> task[t].pc = "idle"
  /\ purger \in [Purgers -> Purger]
  /\ dropping \in Seq(Keys)
  /\ drops \in 0..MaxDrops

Init ==
  /\ clock = 0
  /\ env \in Envs
  /\ buckets = [k \in {} |-> 0]
  /\ task = [t \in Tasks |-> IdleTask]
  /\ purger = [p \in Purgers |-> OffPurger]
  /\ dropping = <<>>
  /\ drops = 0

-----------------------------------------------------------------------------
(***************************************************************************)
(* The bucket arithmetic.                                                  *)
(***************************************************************************)

\* Instant::duration_since: zero, not negative, when `then` is after `now`.
Elapsed(now, then) == IF now >= then THEN now - then ELSE 0

Least(x, y) == IF x <= y THEN x ELSE y

\* A mutation: a new bucket starts empty.
FreshEmpty(cfg, now) == [tokens |-> 0, last |-> now, last_access |-> now]

Fresh(cfg, now) == [tokens |-> cfg.burst, last |-> now, last_access |-> now]

\* Mutations: the refill is not capped; the stamp of the last refill is kept.
RefillUncapped(b, cfg, now) ==
  [tokens      |-> b.tokens + Elapsed(now, b.last) * cfg.rate,
   last        |-> now,
   last_access |-> now]

RefillKeepsLast(b, cfg, now) ==
  [tokens      |-> Least(b.tokens + Elapsed(now, b.last) * cfg.rate, cfg.burst),
   last        |-> b.last,
   last_access |-> now]

Refill(b, cfg, now) ==
  [tokens      |-> Least(b.tokens + Elapsed(now, b.last) * cfg.rate, cfg.burst),
   last        |-> now,
   last_access |-> now]

\* A mutation: one token short is close enough.
AffordsAlmost(b, cfg) == b.tokens + 1 >= cfg.request_cost

Affords(b, cfg) == b.tokens >= cfg.request_cost

Spend(b, cfg) == [b EXCEPT !.tokens = @ - cfg.request_cost]

\* The bucket as this request finds it: its own, or a new one, refilled.
Refilled(k, cfg, now) ==
  Refill(IF Present(k) THEN buckets[k] ELSE Fresh(cfg, now), cfg, now)

\* A mutation: an off-by-one in the age at which a bucket is stale.
StaleEarly(b, at, ttl) == Elapsed(at, b.last_access) + 1 >= ttl

Stale(b, at, ttl) == Elapsed(at, b.last_access) >= ttl

-----------------------------------------------------------------------------
(***************************************************************************)
(* The environment: time passes, an operator or a test changes a variable. *)
(***************************************************************************)
Tick ==
  /\ clock < MaxTime
  /\ clock' = clock + 1
  /\ UNCHANGED <<env, buckets, task, purger, dropping, drops>>

SetEnv(e) ==
  /\ env' = e
  /\ UNCHANGED <<clock, buckets, task, purger, dropping, drops>>

(***************************************************************************)
(* One request through the middleware.                                     *)
(***************************************************************************)

\* get_config(), which returns what the environment says now, and the
\* request's key.
Enter(t, k) ==
  /\ task[t].pc = "idle"
  /\ task' = [task EXCEPT ![t] = [pc |-> "configured", key |-> k,
                                  cfg |-> ReadConfig(env), now |-> 0]]
  /\ UNCHANGED <<clock, env, buckets, purger, dropping, drops>>

\* Only the first request starts the cleaner, with its own ttl for good.
StartCleaner(ttl) ==
  IF purger[Cleaner].pc = "off"
  THEN [purger EXCEPT
          ![Cleaner] = [purger[Cleaner] EXCEPT
                          !.pc = "asleep", !.ttl = ttl,
                          !.wake = clock + SleepInterval]]
  ELSE purger

\* `let now = Instant::now(); ensure_cleaner_started(ttl_secs);`
Stamp(t) ==
  /\ task[t].pc = "configured"
  /\ task' = [task EXCEPT ![t].pc = "stamped", ![t].now = clock]
  /\ purger' = StartCleaner(task[t].cfg.ttl_secs)
  /\ UNCHANGED <<clock, env, buckets, dropping, drops>>

\* The critical section under the map entry and the bucket's mutex, when the
\* bucket can pay: the request goes on to the handler.
Admit(t) ==
  LET cfg == task[t].cfg
      b   == Refilled(task[t].key, cfg, task[t].now)
  IN /\ task[t].pc = "stamped"
     /\ Affords(b, cfg)
     /\ buckets' = Put(task[t].key, Spend(b, cfg))
     /\ task' = [task EXCEPT ![t].pc = "next"]
     /\ UNCHANGED <<clock, env, purger, dropping, drops>>

\* The same critical section when it cannot: 204 and a closed connection for
\* the action "drop", 429 for every other.  The refill is kept.
Refuse(t) ==
  LET cfg == task[t].cfg
      b   == Refilled(task[t].key, cfg, task[t].now)
  IN /\ task[t].pc = "stamped"
     /\ ~Affords(b, cfg)
     /\ buckets' = Put(task[t].key, b)
     /\ task' = [task EXCEPT ![t].pc =
                   IF cfg.action = "drop" THEN "dropped" ELSE "blocked"]
     /\ UNCHANGED <<clock, env, purger, dropping, drops>>

\* The response is sent, or the client went away while the handler ran.
Reply(t) ==
  /\ task[t].pc \in {"next", "dropped", "blocked"}
  /\ task' = [task EXCEPT ![t] = IdleTask]
  /\ UNCHANGED <<clock, env, buckets, purger, dropping, drops>>

(***************************************************************************)
(* A purge: `now`, then the keys of the map, then one key at a time.       *)
(***************************************************************************)
Begin(p, ttl) ==
  /\ purger' = [purger EXCEPT
       ![p] = [purger[p] EXCEPT !.pc = "collect", !.ttl = ttl, !.at = clock,
                                !.ahead = Keys]]
  /\ UNCHANGED <<clock, env, buckets, task, dropping, drops>>

CleanerWake ==
  /\ purger[Cleaner].pc = "asleep"
  /\ clock >= purger[Cleaner].wake
  /\ Begin(Cleaner, purger[Cleaner].ttl)

PurgeOnce(p, ttl) ==
  /\ purger[p].pc = "off"
  /\ Begin(p, ttl)

\* BUCKETS.iter() locks one shard at a time: a key is in the list when it is
\* present as the iterator passes its shard (here: one key).
Collect(p, k) ==
  /\ purger[p].pc = "collect"
  /\ k \in purger[p].ahead
  /\ purger' = [purger EXCEPT
       ![p] = [purger[p] EXCEPT
                 !.ahead = @ \ {k},
                 !.todo = IF Present(k) THEN @ \cup {k} ELSE @,
                 !.pc = IF purger[p].ahead = {k} THEN "inspect" ELSE @]]
  /\ UNCHANGED <<clock, env, buckets, task, dropping, drops>>

\* A mutation: the pass works on the live map, not on its list of keys.
RemainingLive(p, k) == DOMAIN buckets \ {k}

Remaining(p, k) == purger[p].todo \ {k}

\* Get the bucket, lock it, judge it, release both.
Inspect(p, k) ==
  /\ purger[p].pc = "inspect"
  /\ k \in purger[p].todo
  /\ LET should_remove ==
           Present(k) /\ Stale(buckets[k], purger[p].at, purger[p].ttl)
     IN purger' = [purger EXCEPT
          ![p] = [purger[p] EXCEPT
                    !.todo = Remaining(p, k),
                    !.pc = IF should_remove THEN "evict" ELSE @,
                    !.victim = IF should_remove THEN k ELSE @]]
  /\ UNCHANGED <<clock, env, buckets, task, dropping, drops>>

\* BUCKETS.remove(&k), whatever the bucket holds by now.
Evict(p) ==
  /\ purger[p].pc = "evict"
  /\ buckets' = Without(purger[p].victim)
  /\ purger' = [purger EXCEPT
       ![p] = [purger[p] EXCEPT !.pc = "inspect", !.victim = NoKey]]
  /\ UNCHANGED <<clock, env, task, dropping, drops>>

\* The pass is over: the cleaner sleeps again, a helper returns.
Finish(p) ==
  /\ purger[p].pc = "inspect"
  /\ purger[p].todo = {}
  /\ purger' = [purger EXCEPT ![p] =
       IF p = Cleaner
       THEN [OffPurger EXCEPT !.pc = "asleep", !.ttl = purger[p].ttl,
                              !.wake = clock + SleepInterval]
       ELSE [OffPurger EXCEPT !.pc = "returned"]]
  /\ UNCHANGED <<clock, env, buckets, task, dropping, drops>>

(***************************************************************************)
(* The admin action: the keys of the payload, removed one by one.  A key   *)
(* may be listed twice ("keys", "bottom" and "top" are concatenated).      *)
(***************************************************************************)
DropRequest(list) ==
  /\ dropping = <<>>
  /\ drops < MaxDrops
  /\ dropping' = list
  /\ drops' = drops + 1
  /\ UNCHANGED <<clock, env, buckets, task, purger>>

DropNext ==
  /\ dropping # <<>>
  /\ buckets' = Without(Head(dropping))
  /\ dropping' = Tail(dropping)
  /\ UNCHANGED <<clock, env, task, purger, drops>>

-----------------------------------------------------------------------------
TaskStep(t) == Stamp(t) \/ Admit(t) \/ Refuse(t) \/ Reply(t)

PurgerStep(p) ==
  \/ \E k \in Keys : Collect(p, k) \/ Inspect(p, k)
  \/ Evict(p)
  \/ Finish(p)

Next ==
  \/ Tick
  \/ \E e \in Envs : SetEnv(e)
  \/ \E t \in Tasks, k \in Keys : Enter(t, k)
  \/ \E t \in Tasks : TaskStep(t)
  \/ CleanerWake
  \/ \E p \in Helpers, ttl \in HelperTtls : PurgeOnce(p, ttl)
  \/ \E p \in Purgers : PurgerStep(p)
  \/ \E list \in DropLists : DropRequest(list)
  \/ DropNext

Spec == Init /\ [][Next]_vars

-----------------------------------------------------------------------------
(***************************************************************************)
(* Properties.                                                             *)
(***************************************************************************)

(***************************************************************************)
(* src/README.md:252 "evicts buckets that have not been accessed for       *)
(* `RATE_LIMIT_BUCKET_TTL_SECS` seconds": the bucket about to be removed   *)
(* has not been accessed for the cleaner's ttl.                            *)
(***************************************************************************)
EvictsOnlyIdle ==
  LET c == purger[Cleaner]
  IN c.pc = "evict" /\ Present(c.victim)
       => Stale(buckets[c.victim], clock, c.ttl)
==============================================================================
