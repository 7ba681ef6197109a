----------------------------- MODULE BucketLocks -----------------------------
(***************************************************************************)
(* The locks below RateLimiter.  BUCKETS is a DashMap: every key lives in  *)
(* a shard behind a reader-writer lock, and every bucket is behind a mutex *)
(* of its own (src/src/middlewares/rate_limiter.rs).  A request writes its *)
(* shard and locks its bucket; a purge and the debug page (debug_info)     *)
(* read a shard and lock a bucket; a removal writes a shard; an iterator   *)
(* keeps its guard on one shard until it has the next.  What RateLimiter   *)
(* does in one step takes several here.                                    *)
(*                                                                         *)
(* The requests run on Tokio's threads, so whoever waits for a lock keeps  *)
(* the guards it has.                                                      *)
(***************************************************************************)
EXTENDS RateLimiter

CONSTANTS
  ShardOf,   \* key |-> its shard
  Viewers,   \* GET /debug/rate_limiter
  NoShard    \* no shard

Shards == {ShardOf[k] : k \in Keys}

\* Those that read shards.
Readers == Purgers \cup Viewers

ASSUME LocksAssumption ==
  /\ DOMAIN ShardOf = Keys
  /\ NoShard \notin Shards
  /\ Viewers \cap Purgers = {}

VARIABLES
  stage,    \* task |-> how far it is in its critical section
  fresh,    \* keys that or_insert_with() has put into the map, not charged yet
  hold,     \* reader |-> the shard it has a guard on
  looking,  \* reader |-> the key whose bucket it has got and is about to lock
  viewer    \* viewer |-> where it is, the shards ahead, the keys to sample

locks == <<stage, fresh, hold, looking, viewer>>
allVars == <<vars, locks>>

IdleViewer == [pc |-> "off", ahead |-> {}, todo |-> {}]

\* The types of the locks' state; nobody reads a shard that is written, and a
\* bucket that is not charged yet is in somebody's hands.
LocksTypeOK ==
  /\ stage \in [Tasks -> {"out", "entry", "bucket", "charged"}]
  /\ fresh \subseteq Keys
  /\ hold \in [Readers -> Shards \cup {NoShard}]
  /\ looking \in [Readers -> Keys \cup {NoKey}]
  /\ \A r \in Readers : looking[r] # NoKey => hold[r] = ShardOf[looking[r]]
  /\ viewer \in [Viewers -> [pc : {"off", "list", "sample"},
                             ahead : SUBSET Shards, todo : SUBSET Keys]]
  /\ \A t \in Tasks, r \in Readers :
       stage[t] # "out" => hold[r] # ShardOf[task[t].key]
  /\ \A k \in fresh : \E t \in Tasks :
       task[t].key = k /\ stage[t] \in {"entry", "bucket"}

LocksInit ==
  /\ Init
  /\ stage = [t \in Tasks |-> "out"]
  /\ fresh = {}
  /\ hold = [r \in Readers |-> NoShard]
  /\ looking = [r \in Readers |-> NoKey]
  /\ viewer = [v \in Viewers |-> IdleViewer]

-----------------------------------------------------------------------------
(* Who has what                                                            *)

Writes(t, s) == stage[t] # "out" /\ ShardOf[task[t].key] = s

\* A mutation: a reader does not wait for a writer.
AlwaysReadable(s) == TRUE

Readable(s) == \A t \in Tasks : ~Writes(t, s)

Writable(s) == Readable(s) /\ \A r \in Readers : hold[r] # s

Unlocked(k) ==
  \A t \in Tasks : ~(task[t].key = k /\ stage[t] \in {"bucket", "charged"})

-----------------------------------------------------------------------------
(* A request                                                               *)

\* BUCKETS.entry(key).or_insert_with(..)
Entry(t) ==
  LET k == task[t].key
  IN /\ task[t].pc = "stamped" /\ stage[t] = "out"
     /\ Writable(ShardOf[k])
     /\ stage' = [stage EXCEPT ![t] = "entry"]
     /\ IF Present(k) THEN UNCHANGED <<buckets, fresh>>
        ELSE /\ buckets' = Put(k, Fresh(task[t].cfg, task[t].now))
             /\ fresh' = fresh \cup {k}
     /\ UNCHANGED <<clock, env, task, purger, dropping, drops, hold, looking, viewer>>

\* entry.lock()
Seize(t) ==
  /\ stage[t] = "entry" /\ Unlocked(task[t].key)
  /\ stage' = [stage EXCEPT ![t] = "bucket"]
  /\ UNCHANGED <<vars, fresh, hold, looking, viewer>>

Charge(t) ==
  /\ stage[t] = "bucket"
  /\ Admit(t) \/ Refuse(t)
  /\ stage' = [stage EXCEPT ![t] = "charged"]
  /\ fresh' = fresh \ {task[t].key}
  /\ UNCHANGED <<hold, looking, viewer>>

\* The block ends: bucket and entry are dropped.
Release(t) ==
  /\ stage[t] = "charged"
  /\ stage' = [stage EXCEPT ![t] = "out"]
  /\ UNCHANGED <<vars, fresh, hold, looking, viewer>>

Respond(t) == stage[t] = "out" /\ Reply(t) /\ UNCHANGED locks

-----------------------------------------------------------------------------
(* Reading                                                                 *)

\* An iterator gets the next shard, and gives the last one back only then.
Moves(r, s) ==
  /\ Readable(s)
  /\ hold' = [hold EXCEPT ![r] = s]

\* BUCKETS.get(&k): the guard stays with the reference it returns.
Gets(r, k) ==
  /\ hold[r] = NoShard /\ Readable(ShardOf[k])
  /\ Present(k)
  /\ hold' = [hold EXCEPT ![r] = ShardOf[k]]
  /\ looking' = [looking EXCEPT ![r] = k]

\* A mutation: the bucket is given back, the reference to it is not.
KeepsEntry(r) == UNCHANGED hold

DropsEntry(r) == hold' = [hold EXCEPT ![r] = NoShard]

LetsGo(r) ==
  /\ DropsEntry(r)
  /\ looking' = [looking EXCEPT ![r] = NoKey]

-----------------------------------------------------------------------------
(* A purge                                                                 *)

NextShard(p, s) ==
  /\ purger[p].pc = "collect"
  /\ s \in {ShardOf[k] : k \in purger[p].ahead}
  /\ \A k \in purger[p].ahead : ShardOf[k] # hold[p]
  /\ Moves(p, s)
  /\ UNCHANGED <<vars, stage, fresh, looking, viewer>>

List(p, k) ==
  /\ hold[p] = ShardOf[k]
  /\ Collect(p, k)
  /\ hold' = [hold EXCEPT ![p] = IF purger[p].ahead = {k} THEN NoShard ELSE @]
  /\ UNCHANGED <<stage, fresh, looking, viewer>>

Get(p, k) ==
  /\ purger[p].pc = "inspect" /\ k \in purger[p].todo
  /\ Gets(p, k)
  /\ UNCHANGED <<vars, stage, fresh, viewer>>

\* The key is gone.
Skip(p, k) ==
  /\ hold[p] = NoShard /\ Readable(ShardOf[k])
  /\ ~Present(k) /\ Inspect(p, k)
  /\ UNCHANGED locks

\* entry.value().lock(), the verdict, drop(bucket), drop(entry).
Judge(p) ==
  /\ looking[p] # NoKey /\ Unlocked(looking[p])
  /\ Inspect(p, looking[p])
  /\ LetsGo(p)
  /\ UNCHANGED <<stage, fresh, viewer>>

\* BUCKETS.remove(&k)
Remove(p) ==
  /\ purger[p].pc = "evict" /\ Writable(ShardOf[purger[p].victim])
  /\ Evict(p)
  /\ UNCHANGED locks

Return(p) == hold[p] = NoShard /\ Finish(p) /\ UNCHANGED locks

\* The admin's BUCKETS.remove(k)
AdminRemove ==
  /\ dropping # <<>> /\ Writable(ShardOf[Head(dropping)])
  /\ DropNext
  /\ UNCHANGED locks

-----------------------------------------------------------------------------
(* debug_info                                                              *)

View(v) ==
  /\ viewer[v].pc = "off"
  /\ viewer' = [viewer EXCEPT ![v] = [pc |-> "list", ahead |-> Shards, todo |-> {}]]
  /\ UNCHANGED <<vars, stage, fresh, hold, looking>>

\* The keys of a shard do not change under the guard.
ViewShard(v, s) ==
  /\ viewer[v].pc = "list" /\ s \in viewer[v].ahead
  /\ Moves(v, s)
  /\ viewer' = [viewer EXCEPT
       ![v].ahead = @ \ {s},
       ![v].todo = @ \cup {k \in DOMAIN buckets : ShardOf[k] = s}]
  /\ UNCHANGED <<vars, stage, fresh, looking>>

Viewed(v) ==
  /\ viewer[v].pc = "list" /\ viewer[v].ahead = {}
  /\ viewer' = [viewer EXCEPT ![v].pc = "sample"]
  /\ DropsEntry(v)
  /\ UNCHANGED <<vars, stage, fresh, looking>>

ViewGet(v, k) ==
  /\ viewer[v].pc = "sample" /\ k \in viewer[v].todo
  /\ Gets(v, k)
  /\ UNCHANGED <<vars, stage, fresh, viewer>>

ViewSkip(v, k) ==
  /\ viewer[v].pc = "sample" /\ k \in viewer[v].todo
  /\ hold[v] = NoShard /\ Readable(ShardOf[k]) /\ ~Present(k)
  /\ viewer' = [viewer EXCEPT ![v].todo = @ \ {k}]
  /\ UNCHANGED <<vars, stage, fresh, hold, looking>>

\* The bucket is locked, its tokens are copied.
Sample(v) ==
  /\ looking[v] # NoKey /\ Unlocked(looking[v])
  /\ viewer' = [viewer EXCEPT ![v].todo = @ \ {looking[v]}]
  /\ LetsGo(v)
  /\ UNCHANGED <<vars, stage, fresh>>

Answer(v) ==
  /\ viewer[v].pc = "sample" /\ viewer[v].todo = {}
  /\ viewer' = [viewer EXCEPT ![v] = IdleViewer]
  /\ UNCHANGED <<vars, stage, fresh, hold, looking>>

-----------------------------------------------------------------------------
\* What takes no lock is as in RateLimiter.
Lockfree ==
  /\ \/ Tick
     \/ \E e \in Envs : SetEnv(e)
     \/ \E t \in Tasks, k \in Keys : Enter(t, k)
     \/ \E t \in Tasks : Stamp(t)
     \/ CleanerWake
     \/ \E p \in Helpers, ttl \in HelperTtls : PurgeOnce(p, ttl)
     \/ \E list \in DropLists : DropRequest(list)
  /\ UNCHANGED locks

LocksNext ==
  \/ Lockfree
  \/ \E t \in Tasks :
       Entry(t) \/ Seize(t) \/ Charge(t) \/ Release(t) \/ Respond(t)
  \/ \E p \in Purgers :
       \/ \E s \in Shards : NextShard(p, s)
       \/ \E k \in Keys : List(p, k) \/ Get(p, k) \/ Skip(p, k)
       \/ Judge(p) \/ Remove(p) \/ Return(p)
  \/ AdminRemove
  \/ \E v \in Viewers :
       \/ View(v) \/ Viewed(v) \/ Sample(v) \/ Answer(v)
       \/ \E s \in Shards : ViewShard(v, s)
       \/ \E k \in Keys : ViewGet(v, k) \/ ViewSkip(v, k)

LocksSpec == LocksInit /\ [][LocksNext]_allVars

-----------------------------------------------------------------------------
(***************************************************************************)
(* Fairness.  None of the sections below contains an await, so the thread  *)
(* goes on; a lock that is free again and again is granted to who waits    *)
(* for it.  Nothing makes a client send a request or an operator act.      *)
(***************************************************************************)
PurgerMoves(p) ==
  \/ \E k \in Keys : List(p, k)
  \/ Judge(p)
  \/ Return(p)

PurgerWaits(p) ==
  \/ \E s \in Shards : NextShard(p, s)
  \/ \E k \in Keys : Get(p, k) \/ Skip(p, k)
  \/ Remove(p)

ViewerMoves(v) == Viewed(v) \/ Sample(v) \/ Answer(v)

ViewerWaits(v) ==
  \/ \E s \in Shards : ViewShard(v, s)
  \/ \E k \in Keys : ViewGet(v, k) \/ ViewSkip(v, k)

FairLocksSpec ==
  /\ LocksSpec
  /\ \A t \in Tasks :
       /\ WF_allVars(Seize(t) \/ Charge(t) \/ Release(t))
       /\ SF_allVars(Entry(t))
  /\ \A p \in Purgers :
       WF_allVars(PurgerMoves(p)) /\ SF_allVars(PurgerWaits(p))
  /\ \A v \in Viewers :
       WF_allVars(ViewerMoves(v)) /\ SF_allVars(ViewerWaits(v))
  /\ SF_allVars(AdminRemove)

-----------------------------------------------------------------------------
(* Properties                                                              *)

\* The map without what a request has inserted and not charged yet.
Shown == [k \in DOMAIN buckets \ fresh |-> buckets[k]]

Atomic == INSTANCE RateLimiter WITH buckets <- Shown

\* The locks make each critical section one step: seen from outside, the
\* requests, the purges and the admin do what RateLimiter says, so that its
\* properties hold at this grain too.
SectionsAreAtomic == Atomic!Spec

\* Nobody waits in a circle.  Who has come to a bucket through its shard does not
\* wait for a request to give the bucket back, for a request has its shard to
\* itself; who is about to remove a key has let go of the guard it judged it under,
\* which BUCKETS.remove() would wait for.  So whoever has a guard waits for no more
\* than a shard whose writer waits for nobody.
NoWaitInCircles ==
  /\ \A t \in Tasks : stage[t] = "entry" => Unlocked(task[t].key)
  /\ \A r \in Readers : looking[r] # NoKey => Unlocked(looking[r])
  /\ \A p \in Purgers : purger[p].pc = "evict" => hold[p] = NoShard

\* A request that has reached the map is decided: whatever purges, removals
\* and viewers hold, nobody waits for it for ever.
RequestsAreDecided ==
  \A t \in Tasks : task[t].pc = "stamped" ~> task[t].pc # "stamped"

\* A purge ends, though it reads, locks and removes among requests that keep
\* filling the map.
PurgeEnds ==
  \A p \in Purgers :
    purger[p].pc \in {"collect", "inspect", "evict"}
      ~> purger[p].pc \in {"asleep", "returned"}

\* The debug page and the admin's removals come to their end as well.
ViewsEnd ==
  /\ \A v \in Viewers : viewer[v].pc # "off" ~> viewer[v].pc = "off"
  /\ dropping # <<>> ~> dropping = <<>>
==============================================================================
