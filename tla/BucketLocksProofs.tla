-------------------------- MODULE BucketLocksProofs --------------------------
(***************************************************************************)
(* BucketLocks, for any number of requests, keys, shards, purges and       *)
(* viewers: nobody reads a shard that is written, and what happens under   *)
(* the locks is, seen from outside, one step of RateLimiter.               *)
(***************************************************************************)
EXTENDS BucketLocks, RateLimiterProofs

InSection(t) == stage[t] # "out"

\* A request in its critical section has a key, is as far as the section is,
\* and has the shard for itself.
Section(t) ==
  /\ InSection(t) => task[t].key \in Keys
  /\ stage[t] \in {"entry", "bucket"} => task[t].pc = "stamped"
  /\ stage[t] = "charged" => task[t].pc \in {"next", "dropped", "blocked"}
  /\ \A u \in Tasks : InSection(t) /\ InSection(u) /\ u # t =>
       ShardOf[task[u].key] # ShardOf[task[t].key]
  /\ \A r \in Readers : InSection(t) => hold[r] # ShardOf[task[t].key]

SectionsOK ==
  /\ stage \in [Tasks -> {"out", "entry", "bucket", "charged"}]
  /\ \A t \in Tasks : Section(t)

\* What is in the map and not charged yet is as the request that is about to
\* charge it has put it there.
InHand(k) ==
  \E t \in Tasks :
    /\ task[t].key = k /\ stage[t] \in {"entry", "bucket"}
    /\ Present(k) /\ buckets[k] = Fresh(task[t].cfg, task[t].now)

FreshOK == fresh \subseteq Keys /\ \A k \in fresh : InHand(k)

\* What a viewer can be at.
States == [pc : {"off", "list", "sample"},
           ahead : SUBSET Shards, todo : SUBSET Keys]

\* Who looks at a bucket has the guard on its shard, and is at the point where
\* one looks at buckets; who removes one knows which.
ReadersOK ==
  /\ hold \in [Readers -> Shards \cup {NoShard}]
  /\ looking \in [Readers -> Keys \cup {NoKey}]
  /\ viewer \in [Viewers -> States]
  /\ \A r \in Readers : looking[r] # NoKey => hold[r] = ShardOf[looking[r]]
  /\ \A p \in Purgers :
       /\ looking[p] # NoKey => purger[p].pc = "inspect"
       /\ purger[p].pc = "evict" =>
            purger[p].victim \in Keys /\ hold[p] = NoShard
  /\ \A v \in Viewers : looking[v] # NoKey =>
       viewer[v].pc = "sample" /\ looking[v] \in viewer[v].todo

LocksInv == TypeOK /\ SectionsOK /\ FreshOK /\ ReadersOK

-----------------------------------------------------------------------------
\* A fresh bucket is in the section of the request that has put it there: its
\* shard is written, and nobody reads it.
LEMMA FreshIsWritten ==
  ASSUME LocksInv, NEW k \in fresh
  PROVE  /\ \E t \in Tasks : Writes(t, ShardOf[k])
         /\ ~Readable(ShardOf[k])
         /\ \A r \in Readers : hold[r] # ShardOf[k]
<1>1. PICK t \in Tasks : task[t].key = k /\ stage[t] \in {"entry", "bucket"}
  BY DEF LocksInv, FreshOK, InHand
<1>2. Writes(t, ShardOf[k])
  BY <1>1 DEF Writes
<1>3. \A r \in Readers : hold[r] # ShardOf[k]
  BY <1>1 DEF LocksInv, SectionsOK, Section, InSection
<1> QED
  BY <1>2, <1>3 DEF Readable

-----------------------------------------------------------------------------
(* Steps that leave the critical sections alone                            *)

\* Requests in a section stay where they are, with the buckets in their hands;
\* whoever gets a guard gets it on a shard that nobody writes.
Bystands ==
  /\ stage' = stage /\ fresh' = fresh
  /\ \A t \in Tasks : InSection(t) => task'[t] = task[t]
  /\ \A k \in fresh : Present(k)' /\ buckets'[k] = buckets[k]
  /\ \A r \in Readers : hold'[r] \in {hold[r], NoShard} \/ Readable(hold'[r])

\* Such a step keeps what the invariant says of the sections.
LEMMA BystandersKeep ==
  ASSUME LocksInv, Bystands
  PROVE  SectionsOK' /\ FreshOK'
<1>1. ASSUME NEW t \in Tasks PROVE Section(t)'
  <2>1. Section(t)
    BY DEF LocksInv, SectionsOK
  <2>2. CASE ~InSection(t)
    BY <2>2 DEF Section, InSection, Bystands
  <2>3. CASE InSection(t)
    <3>1. task'[t] = task[t] /\ task[t].key \in Keys
      BY <2>1, <2>3 DEF Bystands, Section
    <3>2. ASSUME NEW r \in Readers PROVE hold'[r] # ShardOf[task[t].key]
      <4>1. hold[r] # ShardOf[task[t].key] /\ ShardOf[task[t].key] # NoShard
        BY <2>1, <2>3, <3>1, LocksAssumption DEF Section, Shards
      <4>2. ~Readable(ShardOf[task[t].key])
        BY <2>3 DEF Readable, Writes, InSection
      <4> QED
        BY <4>1, <4>2 DEF Bystands
    <3>3. ASSUME NEW u \in Tasks, InSection(u), u # t
          PROVE  ShardOf[task'[u].key] # ShardOf[task[t].key]
      BY <2>1, <2>3, <3>3 DEF Section, Bystands
    <3> QED
      BY <2>1, <3>1, <3>2, <3>3 DEF Section, InSection, Bystands
  <2> QED
    BY <2>2, <2>3
<1>2. ASSUME NEW k \in fresh PROVE InHand(k)'
  <2>1. PICK t \in Tasks :
          /\ task[t].key = k /\ stage[t] \in {"entry", "bucket"}
          /\ Present(k) /\ buckets[k] = Fresh(task[t].cfg, task[t].now)
    BY DEF LocksInv, FreshOK, InHand
  <2>2. task'[t] = task[t] /\ stage'[t] = stage[t] /\ Present(k)'
        /\ buckets'[k] = buckets[k]
    BY <2>1 DEF Bystands, InSection
  <2> QED
    BY <2>1, <2>2 DEF InHand, Fresh
<1> QED
  BY <1>1, <1>2 DEF LocksInv, SectionsOK, FreshOK, Bystands

\* What takes no lock.
LEMMA LockfreeKeeps ==
  ASSUME LocksInv, Lockfree
  PROVE  Bystands /\ ReadersOK'
<1>0. UNCHANGED locks
  BY DEF Lockfree
<1>1. /\ buckets' = buckets
      /\ \A t \in Tasks : InSection(t) => task'[t] = task[t]
  <2>1. ASSUME NEW t \in Tasks, NEW k \in Keys, Enter(t, k)
        PROVE  buckets' = buckets /\ task[t].pc = "idle"
                 /\ \A u \in Tasks : u # t => task'[u] = task[u]
    BY <2>1 DEF Enter, LocksInv, TypeOK
  <2>2. ASSUME NEW t \in Tasks, Stamp(t)
        PROVE  buckets' = buckets /\ task[t].pc = "configured"
                 /\ \A u \in Tasks : u # t => task'[u] = task[u]
    BY <2>2 DEF Stamp, LocksInv, TypeOK
  <2>3. ASSUME NEW t \in Tasks, task[t].pc \in {"idle", "configured"}
        PROVE  ~InSection(t)
    BY <2>3 DEF LocksInv, SectionsOK, Section, InSection
  <2>4. CASE \/ Tick \/ \E e \in Envs : SetEnv(e)
             \/ CleanerWake
             \/ \E p \in Helpers, ttl \in HelperTtls : PurgeOnce(p, ttl)
             \/ \E list \in DropLists : DropRequest(list)
    BY <2>4 DEF Tick, SetEnv, CleanerWake, PurgeOnce, Begin, DropRequest
  <2> QED
    BY <2>1, <2>2, <2>3, <2>4 DEF Lockfree
<1>2. ASSUME NEW p \in Purgers
      PROVE  \/ purger'[p] = purger[p]
             \/ /\ purger[p].pc # "inspect"
                /\ purger'[p].pc # "evict"
  <2>1. CASE \/ Tick \/ \E e \in Envs : SetEnv(e)
             \/ \E t \in Tasks, k \in Keys : Enter(t, k)
             \/ \E list \in DropLists : DropRequest(list)
    BY <2>1 DEF Tick, SetEnv, Enter, DropRequest
  <2>2. CASE \E t \in Tasks : Stamp(t)
    BY <2>2 DEF Stamp, StartCleaner, LocksInv, TypeOK, Purger
  <2>3. CASE CleanerWake
    BY <2>3 DEF CleanerWake, Begin, LocksInv, TypeOK, Purger
  <2>4. CASE \E q \in Helpers, ttl \in HelperTtls : PurgeOnce(q, ttl)
    BY <2>4 DEF PurgeOnce, Begin, LocksInv, TypeOK, Purger
  <2> QED
    BY <2>1, <2>2, <2>3, <2>4 DEF Lockfree
<1>3. ReadersOK'
  BY <1>0, <1>2 DEF LocksInv, ReadersOK, locks
<1> QED
  BY <1>0, <1>1, <1>3 DEF Bystands, locks, LocksInv, FreshOK, InHand, Present

\* The response leaves after the section.
LEMMA RespondKeeps ==
  ASSUME LocksInv, NEW t \in Tasks, Respond(t)
  PROVE  Bystands /\ ReadersOK'
<1>1. /\ UNCHANGED locks /\ UNCHANGED <<buckets, purger>>
      /\ ~InSection(t) /\ \A u \in Tasks : u # t => task'[u] = task[u]
  BY DEF Respond, Reply, InSection, LocksInv, TypeOK
<1>2. Bystands
  BY <1>1 DEF Bystands, locks, LocksInv, FreshOK, InHand, Present
<1> QED
  BY <1>1, <1>2 DEF LocksInv, ReadersOK, locks

-----------------------------------------------------------------------------
(* A purge                                                                 *)

\* A guard that is moved to a shard, or given back.
LEMMA GuardsBystand ==
  ASSUME LocksInv, UNCHANGED <<stage, fresh, task, buckets>>, NEW r \in Readers,
         NEW s, hold' = [hold EXCEPT ![r] = s], s \in {hold[r], NoShard} \/ Readable(s)
  PROVE  Bystands
<1>1. \A q \in Readers : hold'[q] \in {hold[q], NoShard} \/ Readable(hold'[q])
  BY DEF LocksInv, ReadersOK
<1> QED
  BY <1>1 DEF Bystands, LocksInv, FreshOK, InHand, Present

\* A purge reads, judges and removes.
LEMMA PurgeKeeps ==
  ASSUME LocksInv, NEW p \in Purgers,
         \/ \E s \in Shards : NextShard(p, s)
         \/ \E k \in Keys : List(p, k) \/ Get(p, k) \/ Skip(p, k)
         \/ Judge(p) \/ Remove(p) \/ Return(p)
  PROVE  Bystands /\ ReadersOK'
<1>0. p \in Readers /\ p \notin Viewers /\ ReadersOK /\ purger \in [Purgers -> Purger]
  BY LocksAssumption DEF Readers, LocksInv, TypeOK
<1>1. ASSUME NEW s \in Shards, NextShard(p, s) PROVE Bystands /\ ReadersOK'
  <2>1. looking[p] = NoKey
    BY <1>0, <1>1 DEF NextShard, ReadersOK
  <2>2. Bystands
    BY <1>0, <1>1, GuardsBystand DEF NextShard, Moves, vars
  <2>3. ReadersOK'
    BY <1>0, <1>1, <2>1 DEF NextShard, Moves, vars, ReadersOK
  <2> QED
    BY <2>2, <2>3
<1>2. ASSUME NEW k \in Keys, List(p, k) PROVE Bystands /\ ReadersOK'
  <2>1. looking[p] = NoKey
    BY <1>0, <1>2 DEF List, Collect, ReadersOK
  <2>2. Bystands
    <3>1. CASE purger[p].ahead = {k}
      BY <1>0, <1>2, <3>1, GuardsBystand DEF List, Collect
    <3>2. CASE purger[p].ahead # {k}
      BY <1>0, <1>2, <3>2, GuardsBystand DEF List, Collect
    <3> QED
      BY <3>1, <3>2
  <2>3. /\ purger'[p].pc # "evict"
        /\ \A q \in Purgers : q # p => purger'[q] = purger[q]
    BY <1>0, <1>2 DEF List, Collect, Purger
  <2>4. ReadersOK'
    BY <1>0, <1>2, <2>1, <2>3 DEF List, ReadersOK
  <2> QED
    BY <2>2, <2>4
<1>3. ASSUME NEW k \in Keys, Get(p, k) PROVE Bystands /\ ReadersOK'
  <2>1. ShardOf[k] \in Shards
    BY DEF Shards
  <2>2. Bystands
    BY <1>0, <1>3, GuardsBystand DEF Get, Gets, vars
  <2>3. ReadersOK'
    BY <1>0, <1>3, <2>1 DEF Get, Gets, vars, ReadersOK
  <2> QED
    BY <2>2, <2>3
<1>4. ASSUME NEW k \in Keys, Skip(p, k) PROVE Bystands /\ ReadersOK'
  <2>1. /\ UNCHANGED locks /\ UNCHANGED <<task, buckets>>
        /\ purger'[p].pc = purger[p].pc /\ purger'[p].victim = purger[p].victim
        /\ \A q \in Purgers : q # p => purger'[q] = purger[q]
    BY <1>0, <1>4 DEF Skip, Inspect, Purger
  <2>2. Bystands
    BY <2>1 DEF Bystands, locks, LocksInv, FreshOK, InHand, Present
  <2> QED
    BY <1>0, <2>1, <2>2 DEF ReadersOK, locks
<1>5. CASE Judge(p)
  <2>1. PICK k \in Keys : k = looking[p] /\ Inspect(p, k)
    BY <1>0, <1>5 DEF Judge, ReadersOK
  <2>2. Bystands
    BY <1>0, <1>5, <2>1, GuardsBystand DEF Judge, LetsGo, DropsEntry, Inspect
  <2>3. /\ purger'[p].pc = "evict" => purger'[p].victim \in Keys
        /\ \A q \in Purgers : q # p => purger'[q] = purger[q]
    BY <1>0, <2>1 DEF Inspect, Purger
  <2>4. ReadersOK'
    BY <1>0, <1>5, <2>3 DEF Judge, LetsGo, DropsEntry, ReadersOK
  <2> QED
    BY <2>2, <2>4
<1>6. CASE Remove(p)
  <2>1. /\ purger[p].victim \in Keys /\ Writable(ShardOf[purger[p].victim])
        /\ UNCHANGED locks /\ UNCHANGED task
        /\ buckets' = Without(purger[p].victim)
        /\ purger'[p].pc = "inspect" /\ looking[p] = NoKey
        /\ \A q \in Purgers : q # p => purger'[q] = purger[q]
    BY <1>0, <1>6 DEF Remove, Evict, ReadersOK, Purger
  <2>2. purger[p].victim \notin fresh
    BY <2>1, FreshIsWritten DEF Writable
  <2>3. Bystands
    BY <2>1, <2>2 DEF Bystands, locks, LocksInv, FreshOK, InHand, Present, Without
  <2>4. ReadersOK'
    BY <1>0, <2>1 DEF ReadersOK, locks
  <2> QED
    BY <2>3, <2>4
<1>7. CASE Return(p)
  <2>1. /\ UNCHANGED locks /\ UNCHANGED <<task, buckets>>
        /\ hold[p] = NoShard /\ purger'[p].pc # "evict"
        /\ \A q \in Purgers : q # p => purger'[q] = purger[q]
    BY <1>0, <1>7 DEF Return, Finish, OffPurger, Purger
  <2>2. looking[p] = NoKey
    BY <1>0, <2>1, LocksAssumption DEF ReadersOK, Shards
  <2>3. Bystands
    BY <2>1 DEF Bystands, locks, LocksInv, FreshOK, InHand, Present
  <2> QED
    BY <1>0, <2>1, <2>2, <2>3 DEF ReadersOK, locks
<1> QED
  BY <1>1, <1>2, <1>3, <1>4, <1>5, <1>6, <1>7

\* So does the admin.
LEMMA AdminKeeps ==
  ASSUME LocksInv, AdminRemove
  PROVE  Bystands /\ ReadersOK'
<1>1. /\ Head(dropping) \in Keys /\ Writable(ShardOf[Head(dropping)])
      /\ UNCHANGED locks /\ UNCHANGED <<task, purger>>
      /\ buckets' = Without(Head(dropping))
  BY DEF AdminRemove, DropNext, LocksInv, TypeOK
<1>2. Head(dropping) \notin fresh
  BY <1>1, FreshIsWritten DEF Writable
<1>3. Bystands
  BY <1>1, <1>2 DEF Bystands, locks, LocksInv, FreshOK, InHand, Present, Without
<1> QED
  BY <1>1, <1>3 DEF LocksInv, ReadersOK, locks

\* What is to be seen of the one viewer that takes a step.
LEMMA ViewerSteps ==
  ASSUME ReadersOK, NEW v \in Viewers, purger' = purger,
         NEW q \in States, viewer' = [viewer EXCEPT ![v] = q],
         NEW s, s \in Shards \/ s = NoShard, hold' = [hold EXCEPT ![v] = s],
         NEW k, k \in Keys \/ k = NoKey, looking' = [looking EXCEPT ![v] = k],
         k # NoKey => s = ShardOf[k] /\ q.pc = "sample" /\ k \in q.todo
  PROVE  ReadersOK'
<1>1. v \in Readers /\ v \notin Purgers /\ Viewers \subseteq Readers
      /\ Purgers \subseteq Readers
  BY LocksAssumption DEF Readers
<1>2. viewer' \in [Viewers -> States]
  BY DEF ReadersOK, States
<1>3. hold' \in [Readers -> Shards \cup {NoShard}]
  BY DEF ReadersOK
<1>4. looking' \in [Readers -> Keys \cup {NoKey}]
  BY DEF ReadersOK
<1>5. \A r \in Readers : looking'[r] # NoKey => hold'[r] = ShardOf[looking'[r]]
  BY <1>1 DEF ReadersOK
<1>6. \A p \in Purgers : looking'[p] = looking[p] /\ hold'[p] = hold[p]
  BY <1>1 DEF ReadersOK
<1>7. viewer'[v] = q /\ looking'[v] = k
  BY <1>1 DEF ReadersOK
<1>8. \A w \in Viewers : w # v => viewer'[w] = viewer[w] /\ looking'[w] = looking[w]
  BY <1>1 DEF ReadersOK
<1>9. \A w \in Viewers : looking'[w] # NoKey =>
        viewer'[w].pc = "sample" /\ looking'[w] \in viewer'[w].todo
  BY <1>7, <1>8 DEF ReadersOK
<1> QED
  BY <1>2, <1>3, <1>4, <1>5, <1>6, <1>9 DEF ReadersOK, States

\* A viewer changes nothing but its guard and what it looks at.
LEMMA ViewsKeep ==
  ASSUME LocksInv, NEW v \in Viewers,
         \/ View(v) \/ Viewed(v) \/ Sample(v) \/ Answer(v)
         \/ \E s \in Shards : ViewShard(v, s)
         \/ \E k \in Keys : ViewGet(v, k) \/ ViewSkip(v, k)
  PROVE  Bystands /\ ReadersOK' /\ UNCHANGED vars
<1>0. v \in Readers /\ v \notin Purgers /\ ReadersOK
  BY LocksAssumption DEF Readers, LocksInv
<1>1. UNCHANGED vars /\ UNCHANGED <<stage, fresh, task, buckets, purger>>
  BY DEF View, Viewed, Sample, Answer, ViewShard, ViewGet, ViewSkip, vars
<1>2. ASSUME looking[v] = NoKey, UNCHANGED <<hold, looking>>,
             viewer' = [viewer EXCEPT ![v] = viewer'[v]],
             viewer'[v] \in States
      PROVE  Bystands /\ ReadersOK'
  <2>1. Bystands
    BY <1>1, <1>2 DEF Bystands, LocksInv, FreshOK, InHand, Present
  <2> QED
    BY <1>0, <1>1, <1>2, <2>1 DEF ReadersOK
<1>3. CASE View(v)
  BY <1>0, <1>2, <1>3 DEF View, ReadersOK, States
<1>4. CASE Answer(v)
  BY <1>0, <1>2, <1>4 DEF Answer, IdleViewer, ReadersOK, States
<1>5. ASSUME NEW k \in Keys, ViewSkip(v, k) PROVE Bystands /\ ReadersOK'
  <2>1. looking[v] = NoKey
    BY <1>0, <1>5, LocksAssumption DEF ViewSkip, ReadersOK, Shards
  <2> QED
    BY <1>0, <1>2, <1>5, <2>1 DEF ViewSkip, ReadersOK, States
<1>6. ASSUME NEW s \in Shards, ViewShard(v, s) PROVE Bystands /\ ReadersOK'
  <2> DEFINE q == [viewer[v] EXCEPT
                     !.ahead = @ \ {s},
                     !.todo = @ \cup {k \in DOMAIN buckets : ShardOf[k] = s}]
  <2>1. looking[v] = NoKey /\ looking' = [looking EXCEPT ![v] = NoKey]
    BY <1>0, <1>6 DEF ViewShard, ReadersOK
  <2>2. Bystands
    BY <1>0, <1>1, <1>6, GuardsBystand DEF ViewShard, Moves
  <2>3. {k \in DOMAIN buckets : ShardOf[k] = s} \subseteq Keys
    BY DEF LocksInv, TypeOK
  <2>4. viewer[v] \in States
    BY <1>0 DEF ReadersOK, States
  <2>5. q \in States
    BY <2>3, <2>4 DEF States
  <2>6. viewer' = [viewer EXCEPT ![v] = q] /\ hold' = [hold EXCEPT ![v] = s]
    BY <1>6 DEF ViewShard, Moves
  <2>7. ReadersOK'
    BY <1>0, <1>1, <2>1, <2>5, <2>6, ViewerSteps
  <2> QED
    BY <2>2, <2>7
<1>7. CASE Viewed(v)
  <2> DEFINE q == [viewer[v] EXCEPT !.pc = "sample"]
  <2>1. looking[v] = NoKey /\ looking' = [looking EXCEPT ![v] = NoKey]
    BY <1>0, <1>7 DEF Viewed, ReadersOK
  <2>2. Bystands
    BY <1>0, <1>1, <1>7, GuardsBystand DEF Viewed, DropsEntry
  <2>3. q \in States
    BY <1>0 DEF ReadersOK, States
  <2>4. viewer' = [viewer EXCEPT ![v] = q] /\ hold' = [hold EXCEPT ![v] = NoShard]
    BY <1>7 DEF Viewed, DropsEntry
  <2> HIDE DEF q
  <2>5. ReadersOK'
    BY <1>0, <1>1, <2>1, <2>3, <2>4, ViewerSteps
  <2> QED
    BY <1>1, <2>2, <2>5
<1>8. ASSUME NEW k \in Keys, ViewGet(v, k) PROVE Bystands /\ ReadersOK'
  <2>1. ShardOf[k] \in Shards
    BY DEF Shards
  <2>2. Bystands
    BY <1>0, <1>1, <1>8, GuardsBystand DEF ViewGet, Gets
  <2>3. ReadersOK'
    BY <1>0, <1>1, <1>8, <2>1 DEF ViewGet, Gets, ReadersOK
  <2> QED
    BY <2>2, <2>3
<1>9. CASE Sample(v)
  <2> DEFINE q == [viewer[v] EXCEPT !.todo = @ \ {looking[v]}]
  <2>1. Bystands
    BY <1>0, <1>1, <1>9, GuardsBystand DEF Sample, LetsGo, DropsEntry
  <2>2. q \in States
    BY <1>0 DEF ReadersOK, States
  <2>3. /\ viewer' = [viewer EXCEPT ![v] = q]
        /\ hold' = [hold EXCEPT ![v] = NoShard]
        /\ looking' = [looking EXCEPT ![v] = NoKey]
    BY <1>9 DEF Sample, LetsGo, DropsEntry
  <2> HIDE DEF q
  <2>4. ReadersOK'
    BY <1>0, <1>1, <2>2, <2>3, ViewerSteps
  <2> QED
    BY <1>1, <2>1, <2>4
<1> QED
  BY <1>1, <1>3, <1>4, <1>5, <1>6, <1>7, <1>8, <1>9

-----------------------------------------------------------------------------
(* A critical section                                                      *)

\* The readers do not notice what a request does in its section.
LEMMA ReadersDoNotNotice ==
  ASSUME LocksInv, UNCHANGED <<purger, hold, looking, viewer>>
  PROVE  ReadersOK'
BY DEF LocksInv, ReadersOK

\* A request enters its section: nobody else has the shard.
LEMMA EntryKeeps ==
  ASSUME LocksInv, NEW t \in Tasks, Entry(t)
  PROVE  SectionsOK' /\ FreshOK' /\ ReadersOK'
<1> DEFINE k == task[t].key
<1>1. /\ k \in Keys /\ task[t].pc = "stamped" /\ Writable(ShardOf[k])
      /\ stage[t] = "out" /\ stage' = [stage EXCEPT ![t] = "entry"]
      /\ UNCHANGED <<task, purger, hold, looking, viewer>>
  BY DEF Entry, LocksInv, TypeOK, Task
<1>2. /\ \A u \in Tasks : InSection(u) => ShardOf[task[u].key] # ShardOf[k]
      /\ \A r \in Readers : hold[r] # ShardOf[k]
  BY <1>1 DEF Writable, Readable, Writes, InSection
<1>3. \A u \in Tasks : Section(u)'
  BY <1>1, <1>2 DEF LocksInv, SectionsOK, Section, InSection
<1>4. SectionsOK'
  BY <1>1, <1>3 DEF LocksInv, SectionsOK
<1>5. ASSUME NEW j \in fresh PROVE InHand(j)'
  <2>1. PICK u \in Tasks :
          /\ task[u].key = j /\ stage[u] \in {"entry", "bucket"}
          /\ Present(j) /\ buckets[j] = Fresh(task[u].cfg, task[u].now)
    BY DEF LocksInv, FreshOK, InHand
  <2>2. u # t /\ j # k
    BY <1>1, <1>2, <2>1 DEF InSection
  <2>3. Present(j)' /\ buckets'[j] = buckets[j]
    BY <2>1, <2>2 DEF Entry, Put, Present
  <2>4. stage'[u] = stage[u]
    BY <1>1, <2>2 DEF LocksInv, SectionsOK
  <2> QED
    BY <1>1, <2>1, <2>3, <2>4 DEF InHand, Fresh
<1>6. FreshOK'
  <2>1. CASE Present(k)
    BY <1>5, <2>1 DEF Entry, LocksInv, FreshOK
  <2>2. CASE ~Present(k)
    <3>1. /\ buckets' = Put(k, Fresh(task[t].cfg, task[t].now))
          /\ fresh' = fresh \cup {k}
      BY <2>2 DEF Entry
    <3>2. InHand(k)'
      BY <1>1, <3>1 DEF InHand, Put, Present, Fresh, LocksInv, SectionsOK
    <3> QED
      BY <1>1, <1>5, <3>1, <3>2 DEF LocksInv, FreshOK
  <2> QED
    BY <2>1, <2>2
<1> QED
  BY <1>1, <1>4, <1>6, ReadersDoNotNotice

\* It locks its bucket.
LEMMA SeizeKeeps ==
  ASSUME LocksInv, NEW t \in Tasks, Seize(t)
  PROVE  SectionsOK' /\ FreshOK' /\ ReadersOK'
<1>1. /\ stage[t] = "entry" /\ stage' = [stage EXCEPT ![t] = "bucket"]
      /\ UNCHANGED <<task, purger, buckets, fresh, hold, looking, viewer>>
  BY DEF Seize, vars
<1>2. SectionsOK'
  BY <1>1 DEF LocksInv, SectionsOK, Section, InSection
<1>3. FreshOK'
  BY <1>1 DEF LocksInv, SectionsOK, FreshOK, InHand, Present, Fresh
<1> QED
  BY <1>1, <1>2, <1>3, ReadersDoNotNotice

\* It charges its bucket, which is fresh no more.
LEMMA ChargeKeeps ==
  ASSUME LocksInv, NEW t \in Tasks, Charge(t)
  PROVE  SectionsOK' /\ FreshOK' /\ ReadersOK'
<1> DEFINE k == task[t].key
<1>1. /\ stage[t] = "bucket" /\ stage' = [stage EXCEPT ![t] = "charged"]
      /\ fresh' = fresh \ {k}
      /\ UNCHANGED <<purger, hold, looking, viewer>>
      /\ \E b : buckets' = Put(k, b)
      /\ task'[t].key = k /\ task'[t].pc \in {"next", "dropped", "blocked"}
      /\ \A u \in Tasks : u # t => task'[u] = task[u]
  BY DEF Charge, Admit, Refuse, LocksInv, TypeOK, Task
<1>2. \A u \in Tasks : task'[u].key = task[u].key
  BY <1>1
<1>3. SectionsOK'
  BY <1>1, <1>2 DEF LocksInv, SectionsOK, Section, InSection
<1>4. ASSUME NEW j \in fresh, j # k PROVE InHand(j)'
  <2>1. PICK u \in Tasks :
          /\ task[u].key = j /\ stage[u] \in {"entry", "bucket"}
          /\ Present(j) /\ buckets[j] = Fresh(task[u].cfg, task[u].now)
    BY DEF LocksInv, FreshOK, InHand
  <2>2. Present(j)' /\ buckets'[j] = buckets[j]
    BY <1>1, <1>4, <2>1 DEF Put, Present
  <2>3. task'[u] = task[u] /\ stage'[u] = stage[u]
    BY <1>1, <1>4, <2>1 DEF LocksInv, SectionsOK
  <2> QED
    BY <2>1, <2>2, <2>3 DEF InHand, Fresh
<1>5. FreshOK'
  BY <1>1, <1>4 DEF LocksInv, FreshOK
<1> QED
  BY <1>1, <1>3, <1>5, ReadersDoNotNotice

\* It leaves, and the shard is free.
LEMMA ReleaseKeeps ==
  ASSUME LocksInv, NEW t \in Tasks, Release(t)
  PROVE  SectionsOK' /\ FreshOK' /\ ReadersOK'
<1>1. /\ stage[t] = "charged" /\ stage' = [stage EXCEPT ![t] = "out"]
      /\ UNCHANGED <<task, purger, buckets, fresh, hold, looking, viewer>>
  BY DEF Release, vars
<1>2. SectionsOK'
  BY <1>1 DEF LocksInv, SectionsOK, Section, InSection
<1>3. ASSUME NEW k \in fresh PROVE InHand(k)'
  <2>1. PICK u \in Tasks :
          /\ task[u].key = k /\ stage[u] \in {"entry", "bucket"}
          /\ Present(k) /\ buckets[k] = Fresh(task[u].cfg, task[u].now)
    BY DEF LocksInv, FreshOK, InHand
  <2>2. stage'[u] = stage[u]
    BY <1>1, <2>1 DEF LocksInv, SectionsOK
  <2> QED
    BY <1>1, <2>1, <2>2 DEF InHand, Present, Fresh
<1>4. FreshOK'
  BY <1>1, <1>3 DEF LocksInv, FreshOK
<1> QED
  BY <1>1, <1>2, <1>4, ReadersDoNotNotice

-----------------------------------------------------------------------------
\* A step of RateLimiter, with the locks or without, keeps the limiter's types;
\* so does the one that puts an uncharged bucket into the map.
LEMMA LocksKeepTypes ==
  ASSUME LocksInv, LocksNext
  PROVE  TypeOK'
<1>1. ASSUME NEW t \in Tasks, Entry(t) PROVE TypeOK'
  <2> DEFINE k == task[t].key
             b == Fresh(task[t].cfg, task[t].now)
  <2>1. k \in Keys /\ b \in Bucket
    BY <1>1 DEF Entry, LocksInv, TypeOK, Task, Fresh, Config, Bucket
  <2>2. DOMAIN Put(k, b) \subseteq Keys /\ Put(k, b) \in [DOMAIN Put(k, b) -> Bucket]
    BY <2>1, PutType DEF LocksInv, TypeOK
  <2> QED
    BY <1>1, <2>2 DEF Entry, LocksInv, TypeOK
<1>2. CASE UNCHANGED vars
  BY <1>2, NextType DEF LocksInv
<1>3. CASE Next
  BY <1>3, NextType DEF LocksInv
<1>4. CASE Lockfree
  BY <1>3, <1>4 DEF Lockfree, Next, TaskStep
<1>5. ASSUME NEW t \in Tasks, Seize(t) \/ Charge(t) \/ Release(t) \/ Respond(t)
      PROVE  TypeOK'
  BY <1>2, <1>3, <1>5 DEF Seize, Charge, Release, Respond, Next, TaskStep
<1>6. ASSUME NEW p \in Purgers,
             \/ \E s \in Shards : NextShard(p, s)
             \/ \E k \in Keys : List(p, k) \/ Get(p, k) \/ Skip(p, k)
             \/ Judge(p) \/ Remove(p) \/ Return(p)
      PROVE  TypeOK'
  <2>1. ASSUME Judge(p) PROVE \E k \in Keys : Inspect(p, k)
    BY <2>1, <1>6 DEF Judge, LocksInv, ReadersOK, Readers
  <2>2. UNCHANGED vars \/ PurgerStep(p)
    BY <1>6, <2>1 DEF NextShard, List, Get, Skip, Remove, Return, PurgerStep
  <2> QED
    BY <1>2, <1>3, <2>2 DEF Next
<1>7. CASE AdminRemove
  BY <1>3, <1>7 DEF AdminRemove, Next
<1>8. ASSUME NEW v \in Viewers,
             \/ View(v) \/ Viewed(v) \/ Sample(v) \/ Answer(v)
             \/ \E s \in Shards : ViewShard(v, s)
             \/ \E k \in Keys : ViewGet(v, k) \/ ViewSkip(v, k)
      PROVE  TypeOK'
  BY <1>2, <1>8, ViewsKeep
<1> QED
  BY <1>1, <1>4, <1>5, <1>6, <1>7, <1>8 DEF LocksNext

\* Every step keeps the invariant.
LEMMA LocksInvNext == LocksInv /\ [LocksNext]_allVars => LocksInv'
<1> SUFFICES ASSUME LocksInv, [LocksNext]_allVars PROVE LocksInv'
  OBVIOUS
<1>1. CASE UNCHANGED allVars
  <2>1. UNCHANGED vars /\ UNCHANGED <<buckets, task, purger>> /\ UNCHANGED locks
    BY <1>1 DEF allVars, vars
  <2>2. TypeOK'
    BY <2>1, NextType DEF LocksInv
  <2>3. Bystands
    BY <2>1 DEF Bystands, locks, LocksInv, FreshOK, InHand, Present
  <2> QED
    BY <2>1, <2>2, <2>3, BystandersKeep, ReadersDoNotNotice DEF LocksInv, locks
<1>2. CASE LocksNext
  <2>1. CASE Bystands /\ ReadersOK'
    BY <1>2, <2>1, LocksKeepTypes, BystandersKeep DEF LocksInv
  <2>2. ASSUME NEW t \in Tasks,
               Entry(t) \/ Seize(t) \/ Charge(t) \/ Release(t)
        PROVE  LocksInv'
    BY <1>2, <2>2, LocksKeepTypes, EntryKeeps, SeizeKeeps, ChargeKeeps,
       ReleaseKeeps DEF LocksInv
  <2> QED
    BY <1>2, <2>1, <2>2, LockfreeKeeps, RespondKeeps, PurgeKeeps, AdminKeeps,
       ViewsKeep DEF LocksNext
<1> QED
  BY <1>1, <1>2

\* At first nobody has a lock.
LEMMA LocksInvInit == LocksInit => LocksInv
<1> SUFFICES ASSUME LocksInit PROVE LocksInv
  OBVIOUS
<1>1. TypeOK
  BY InitType DEF LocksInit
<1>2. SectionsOK /\ FreshOK
  BY DEF LocksInit, SectionsOK, Section, InSection, FreshOK
<1>3. ReadersOK
  BY LimiterAssumption DEF LocksInit, Init, OffPurger, ReadersOK, States, IdleViewer, Readers
<1> QED
  BY <1>1, <1>2, <1>3 DEF LocksInv

\* Requests in their sections exclude each other and all readers of the shard.
THEOREM LocksInvariant == LocksSpec => []LocksInv
BY LocksInvInit, LocksInvNext, PTL DEF LocksSpec

\* Nobody reads a shard that is written, and a bucket that is not charged yet
\* is in the hands of the request that is about to charge it.
THEOREM LocksTyped == LocksSpec => []LocksTypeOK
<1>1. LocksInv => LocksTypeOK
  BY DEF LocksInv, LocksTypeOK, SectionsOK, Section, InSection, FreshOK, InHand,
         ReadersOK, States
<1> QED
  BY <1>1, LocksInvariant, PTL

\* A bucket's mutex is free for whoever has come to it through its shard, and who
\* removes a key holds no guard that the removal would have to wait for.
THEOREM NoCircles == LocksSpec => []NoWaitInCircles
<1>1. ASSUME LocksInv PROVE NoWaitInCircles
  <2>1. ASSUME NEW t \in Tasks, stage[t] = "entry" PROVE Unlocked(task[t].key)
    BY <1>1, <2>1 DEF Unlocked, LocksInv, SectionsOK, Section, InSection
  <2>2. ASSUME NEW r \in Readers, looking[r] # NoKey PROVE Unlocked(looking[r])
    <3>1. hold[r] = ShardOf[looking[r]]
      BY <1>1, <2>2 DEF LocksInv, ReadersOK
    <3> QED
      BY <1>1, <3>1 DEF Unlocked, LocksInv, SectionsOK, Section, InSection
  <2>3. \A p \in Purgers : purger[p].pc = "evict" => hold[p] = NoShard
    BY <1>1 DEF LocksInv, ReadersOK
  <2> QED
    BY <2>1, <2>2, <2>3 DEF NoWaitInCircles
<1> QED
  BY <1>1, LocksInvariant, PTL

-----------------------------------------------------------------------------
(***************************************************************************)
(* The refinement: what happens under the locks is a step of RateLimiter   *)
(* on the map that shows no uncharged buckets.                             *)
(***************************************************************************)

\* What the map shows of a key that is not fresh is what it holds.
LEMMA ShownKey ==
  ASSUME NEW k, k \notin fresh
  PROVE  /\ k \in DOMAIN Shown <=> Present(k)
         /\ Present(k) => Shown[k] = buckets[k]
BY DEF Shown, Present

\* A step that leaves the map and what is fresh alone shows nothing new.
LEMMA ShownStays ==
  ASSUME UNCHANGED <<buckets, fresh>>
  PROVE  Shown' = Shown
BY DEF Shown

\* What is put into the map is not shown before it is charged.
LEMMA EntryIsHidden ==
  ASSUME LocksInv, NEW t \in Tasks, Entry(t)
  PROVE  UNCHANGED Atomic!vars
<1>1. Shown' = Shown
  BY DEF Entry, Shown, Put, Present
<1> QED
  BY <1>1 DEF Entry, Atomic!vars

\* The charge is the whole section of RateLimiter: a bucket that was put there
\* by this request counts as the new one, an older one as it is.
LEMMA ChargeIsAtomic ==
  ASSUME LocksInv, NEW t \in Tasks, Charge(t)
  PROVE  Atomic!Admit(t) \/ Atomic!Refuse(t)
<1> DEFINE k == task[t].key
           cfg == task[t].cfg
           now == task[t].now
<1>1. Atomic!Refilled(k, cfg, now) = Refilled(k, cfg, now)
  <2>1. CASE k \in fresh
    <3>1. PICK u \in Tasks :
            /\ task[u].key = k /\ stage[u] \in {"entry", "bucket"}
            /\ Present(k) /\ buckets[k] = Fresh(task[u].cfg, task[u].now)
      BY <2>1 DEF LocksInv, FreshOK, InHand
    <3>2. u = t
      BY <3>1 DEF Charge, LocksInv, SectionsOK, Section, InSection
    <3>3. Refilled(k, cfg, now) = Refill(Fresh(cfg, now), cfg, now)
      BY <3>1, <3>2 DEF Refilled
    <3>4. k \notin DOMAIN Shown
      BY <2>1 DEF Shown
    <3> QED
      BY <3>3, <3>4 DEF Atomic!Refilled, Atomic!Present, Atomic!Refill, Refill,
                        Atomic!Fresh, Fresh, Atomic!Elapsed, Elapsed,
                        Atomic!Least, Least
  <2>2. CASE k \notin fresh
    BY <2>2, ShownKey
       DEF Refilled, Atomic!Refilled, Present, Atomic!Present, Atomic!Refill,
           Refill, Atomic!Fresh, Fresh, Atomic!Elapsed, Elapsed,
           Atomic!Least, Least
  <2> QED
    BY <2>1, <2>2
<1>2. ASSUME NEW b, buckets' = Put(k, b) PROVE Shown' = Atomic!Put(k, b)
  BY <1>2 DEF Charge, Shown, Put, Atomic!Put
<1>3. CASE Admit(t)
  BY <1>1, <1>2, <1>3 DEF Admit, Atomic!Admit, Affords, Atomic!Affords, Spend, Atomic!Spend
<1>4. CASE Refuse(t)
  BY <1>1, <1>2, <1>4 DEF Refuse, Atomic!Refuse, Affords, Atomic!Affords
<1> QED
  BY <1>3, <1>4 DEF Charge

\* The two copies of read_config() are one.
LEMMA SameConfig == \A e : Atomic!ReadConfig(e) = ReadConfig(e)
BY DEF Atomic!ReadConfig, ReadConfig, Atomic!OrElse, OrElse, Atomic!Clamped,
       Clamped

\* What takes no lock does not look at the map either.
LEMMA LockfreeIsAtomic ==
  ASSUME Lockfree
  PROVE  Atomic!Next
<1>1. Shown' = Shown
  <2>1. UNCHANGED <<buckets, fresh>>
    BY DEF Lockfree, locks, Tick, SetEnv, Enter, Stamp, CleanerWake, PurgeOnce,
           Begin, DropRequest
  <2> QED
    BY <2>1, ShownStays
<1>2. CASE Tick
  BY <1>1, <1>2 DEF Tick, Atomic!Tick, Atomic!Next
<1>3. ASSUME NEW e \in Envs, SetEnv(e) PROVE Atomic!Next
  BY <1>1, <1>3 DEF SetEnv, Atomic!SetEnv, Atomic!Next
<1>4. ASSUME NEW t \in Tasks, NEW k \in Keys, Enter(t, k) PROVE Atomic!Next
  <2>1. Atomic!Enter(t, k)
    BY <1>1, <1>4, SameConfig DEF Enter, Atomic!Enter
  <2> QED
    BY <2>1 DEF Atomic!Next
<1>5. ASSUME NEW t \in Tasks, Stamp(t) PROVE Atomic!Next
  <2>1. Atomic!Stamp(t)
    BY <1>1, <1>5 DEF Stamp, Atomic!Stamp, StartCleaner, Atomic!StartCleaner
  <2> QED
    BY <2>1 DEF Atomic!Next, Atomic!TaskStep
<1>6. CASE CleanerWake
  BY <1>1, <1>6 DEF CleanerWake, Atomic!CleanerWake, Begin, Atomic!Begin, Atomic!Next
<1>7. ASSUME NEW p \in Helpers, NEW ttl \in HelperTtls, PurgeOnce(p, ttl)
      PROVE  Atomic!Next
  <2>1. Atomic!PurgeOnce(p, ttl)
    BY <1>1, <1>7 DEF PurgeOnce, Atomic!PurgeOnce, Begin, Atomic!Begin
  <2> QED
    BY <2>1 DEF Atomic!Next
<1>8. ASSUME NEW list \in DropLists, DropRequest(list) PROVE Atomic!Next
  <2>1. Atomic!DropRequest(list)
    BY <1>1, <1>8 DEF DropRequest, Atomic!DropRequest
  <2> QED
    BY <2>1 DEF Atomic!Next
<1> QED
  BY <1>2, <1>3, <1>4, <1>5, <1>6, <1>7, <1>8 DEF Lockfree

\* A key that is not fresh is removed from what is shown.
LEMMA RemovalIsShown ==
  ASSUME NEW k, k \notin fresh, buckets' = Without(k), fresh' = fresh
  PROVE  Shown' = Atomic!Without(k)
BY DEF Shown, Without, Atomic!Without

\* A verdict on a key that nobody has in hand.
LEMMA InspectIsAtomic ==
  ASSUME NEW p \in Purgers, NEW k \in Keys, k \notin fresh, Inspect(p, k), fresh' = fresh
  PROVE  Atomic!Inspect(p, k)
<1>1. Shown' = Shown
  BY ShownStays DEF Inspect
<1>2. (Atomic!Present(k) /\ Atomic!Stale(Shown[k], purger[p].at, purger[p].ttl))
        <=> (Present(k) /\ Stale(buckets[k], purger[p].at, purger[p].ttl))
  BY ShownKey DEF Atomic!Present, Atomic!Stale, Stale, Atomic!Elapsed, Elapsed
<1> QED
  BY <1>1, <1>2 DEF Inspect, Atomic!Inspect, Atomic!Remaining, Remaining

\* A purge reads shards and buckets that are in nobody's hands.
LEMMA PurgeIsAtomic ==
  ASSUME LocksInv, NEW p \in Purgers,
         \/ \E s \in Shards : NextShard(p, s)
         \/ \E k \in Keys : List(p, k) \/ Get(p, k) \/ Skip(p, k)
         \/ Judge(p) \/ Remove(p) \/ Return(p)
  PROVE  Atomic!Next \/ UNCHANGED Atomic!vars
<1>0. p \in Readers /\ p \in Atomic!Purgers
  BY DEF Readers, Purgers, Atomic!Purgers
<1>1. ASSUME UNCHANGED <<vars, fresh>> PROVE UNCHANGED Atomic!vars
  BY <1>1, ShownStays DEF vars, Atomic!vars
<1>2. ASSUME NEW k \in Keys, List(p, k) PROVE Atomic!Next
  <2>1. k \notin fresh
    BY <1>0, <1>2, FreshIsWritten DEF List
  <2>2. Shown' = Shown
    BY <1>2, ShownStays DEF List, Collect
  <2>3. Atomic!Collect(p, k)
    BY <1>2, <2>1, <2>2, ShownKey
       DEF List, Collect, Atomic!Collect, Present, Atomic!Present
  <2> QED
    BY <1>0, <2>3 DEF Atomic!Next, Atomic!PurgerStep
<1>3. ASSUME NEW k \in Keys, k \notin fresh, Inspect(p, k), fresh' = fresh
      PROVE  Atomic!Next
  <2>1. Atomic!Inspect(p, k)
    BY <1>3, InspectIsAtomic
  <2> QED
    BY <1>0, <2>1 DEF Atomic!Next, Atomic!PurgerStep
<1>4. ASSUME NEW k \in Keys, Skip(p, k) PROVE Atomic!Next
  <2>1. k \notin fresh
    BY <1>4, FreshIsWritten DEF Skip
  <2> QED
    BY <1>3, <1>4, <2>1 DEF Skip, locks
<1>5. CASE Judge(p)
  <2>1. PICK k \in Keys : k = looking[p] /\ hold[p] = ShardOf[k]
    BY <1>0, <1>5 DEF Judge, LocksInv, ReadersOK
  <2>2. k \notin fresh
    BY <1>0, <2>1, FreshIsWritten
  <2> QED
    BY <1>3, <1>5, <2>1, <2>2 DEF Judge
<1>6. CASE Remove(p)
  <2>1. purger[p].victim \notin fresh
    BY <1>6, FreshIsWritten DEF Remove, Writable
  <2>2. Shown' = Atomic!Without(purger[p].victim)
    BY <1>6, <2>1, RemovalIsShown DEF Remove, Evict, locks
  <2>3. Atomic!Evict(p)
    BY <1>6, <2>2 DEF Remove, Evict, Atomic!Evict
  <2> QED
    BY <1>0, <2>3 DEF Atomic!Next, Atomic!PurgerStep
<1>7. CASE Return(p)
  <2>1. Shown' = Shown
    BY <1>7, ShownStays DEF Return, Finish, locks
  <2>2. Atomic!Finish(p)
    BY <1>7, <2>1 DEF Return, Finish, Atomic!Finish, OffPurger, Atomic!OffPurger
  <2> QED
    BY <1>0, <2>2 DEF Atomic!Next, Atomic!PurgerStep
<1> QED
  BY <1>1, <1>2, <1>4, <1>5, <1>6, <1>7 DEF NextShard, Get

\* The locks make each critical section, each verdict and each removal one step.
THEOREM SectionsAtomic == LocksSpec => SectionsAreAtomic
<1>1. LocksInit => Atomic!Init
  BY DEF LocksInit, Init, Atomic!Init, Shown, Atomic!IdleTask, IdleTask,
         Atomic!NoConfig, NoConfig, Atomic!OffPurger, OffPurger,
         Atomic!Purgers, Purgers
<1>2. ASSUME LocksInv, [LocksNext]_allVars PROVE [Atomic!Next]_(Atomic!vars)
  <2>1. ASSUME UNCHANGED <<vars, fresh>> PROVE UNCHANGED Atomic!vars
    BY <2>1, ShownStays DEF vars, Atomic!vars
  <2>2. CASE UNCHANGED allVars
    BY <2>1, <2>2 DEF allVars, locks
  <2>3. CASE Lockfree
    BY <2>3, LockfreeIsAtomic
  <2>4. ASSUME NEW t \in Tasks,
               Entry(t) \/ Seize(t) \/ Charge(t) \/ Release(t) \/ Respond(t)
        PROVE  [Atomic!Next]_(Atomic!vars)
    <3>1. CASE Entry(t)
      BY <1>2, <3>1, EntryIsHidden
    <3>2. CASE Seize(t) \/ Release(t)
      BY <2>1, <3>2 DEF Seize, Release
    <3>3. CASE Charge(t)
      BY <1>2, <3>3, ChargeIsAtomic DEF Atomic!Next, Atomic!TaskStep
    <3>4. CASE Respond(t)
      <4>1. Shown' = Shown
        BY <3>4, ShownStays DEF Respond, Reply, locks
      <4>2. Atomic!Reply(t)
        BY <3>4, <4>1 DEF Respond, Reply, Atomic!Reply, Atomic!IdleTask, IdleTask,
                          Atomic!NoConfig, NoConfig
      <4> QED
        BY <4>2 DEF Atomic!Next, Atomic!TaskStep
    <3> QED
      BY <2>4, <3>1, <3>2, <3>3, <3>4
  <2>5. CASE AdminRemove
    <3>1. Head(dropping) \notin fresh
      BY <1>2, <2>5, FreshIsWritten DEF AdminRemove, Writable
    <3>2. Shown' = Atomic!Without(Head(dropping))
      BY <2>5, <3>1, RemovalIsShown DEF AdminRemove, DropNext, locks
    <3>3. Atomic!DropNext
      BY <2>5, <3>2 DEF AdminRemove, DropNext, Atomic!DropNext
    <3> QED
      BY <3>3 DEF Atomic!Next
  <2>6. ASSUME NEW v \in Viewers,
               \/ View(v) \/ Viewed(v) \/ Sample(v) \/ Answer(v)
               \/ \E s \in Shards : ViewShard(v, s)
               \/ \E k \in Keys : ViewGet(v, k) \/ ViewSkip(v, k)
        PROVE  [Atomic!Next]_(Atomic!vars)
    BY <1>2, <2>1, <2>6, ViewsKeep DEF Bystands
  <2> QED
    BY <1>2, <2>2, <2>3, <2>4, <2>5, <2>6, PurgeIsAtomic DEF LocksNext
<1> QED
  BY <1>1, <1>2, LocksInvariant, PTL DEF LocksSpec, SectionsAreAtomic, Atomic!Spec
==============================================================================
