-------------------------- MODULE TokenLedgerProofs --------------------------
(***************************************************************************)
(* The ledger's invariant, and what follows from it, for every set of      *)
(* requests, keys, purgers and environments and every rate and burst.      *)
(*                                                                         *)
(* The argument is a potential: what a key has paid plus what its bucket   *)
(* holds never exceeds the credit earned up to the bucket's stamp.  A      *)
(* charge moves tokens from the bucket to the payments, a refill adds at   *)
(* most the credit of the time it covers (also when it moves the stamp     *)
(* back: the slip keeps the sum), and a removal is paid for by a gift.     *)
(***************************************************************************)
EXTENDS TokenLedger, RateLimiterProofs

\* The little multiplication the argument needs.
LEMMA Scale ==
  ASSUME NEW r \in Nat, NEW x \in Int, NEW y \in Int
  PROVE  /\ r * x \in Int
         /\ r * (x + y) = r * x + r * y
         /\ x <= y => r * x <= r * y
         /\ x >= 0 => r * x >= 0
<1>1. r * x \in Int /\ r * (x + y) = r * x + r * y
  OBVIOUS
<1>2. \A d \in Nat : r * d >= 0
  OBVIOUS
<1>3. ASSUME x <= y PROVE r * x <= r * y
  <2>1. y - x \in Nat /\ y = x + (y - x)
    BY <1>3
  <2>2. r * y = r * x + r * (y - x)
    BY <2>1
  <2> QED
    BY <1>2, <2>1, <2>2
<1> QED
  BY <1>1, <1>2, <1>3

\* A rate within the bound earns no more than the bound.
LEMMA ScaleRate ==
  ASSUME NEW r \in Nat, NEW x \in Int, x <= r, NEW d \in Nat
  PROVE  d * x \in Int /\ d * x <= r * d
<1>1. d * x <= d * r
  BY Scale
<1> QED
  BY <1>1

\* A saturating difference, and what a stamp from the past does to it.
LEMMA ElapsedType ==
  ASSUME NEW now \in Nat, NEW then \in Nat
  PROVE  /\ Elapsed(now, then) \in Nat
         /\ now + NonNegative(then - now) = then + Elapsed(now, then)
BY DEF Elapsed, NonNegative

\* The model's time is counted in natural numbers.
LEMMA TimeIsNat == Time \subseteq Nat
BY LimiterAssumption DEF Time

\* A refill adds at most the credit of the time since the last stamp.
LEMMA RefillIsCovered ==
  ASSUME NEW b \in Bucket, NEW cfg \in Config, NEW now \in Time,
         cfg.rate <= RateBound, cfg.burst <= BurstBound
  PROVE  LET c == Refill(b, cfg, now)
         IN /\ c.last = now
            /\ c.last_access = now
            /\ c.tokens \in Int
            /\ c.tokens <= BurstBound
            /\ c.tokens <= b.tokens + RateBound * Elapsed(now, b.last)
<1> DEFINE d == Elapsed(now, b.last)
<1>1. /\ b.tokens \in Int /\ b.last \in Nat /\ now \in Nat
      /\ cfg.rate \in Int /\ cfg.burst \in Int
  BY TimeIsNat DEF Bucket, Config
<1>2. d \in Nat
  BY <1>1, ElapsedType
<1>3. /\ d * cfg.rate \in Int
      /\ d * cfg.rate <= RateBound * d
      /\ RateBound * d \in Int
  BY <1>1, <1>2, ScaleRate, LedgerAssumption
<1> HIDE DEF d
<1>4. Least(b.tokens + d * cfg.rate, cfg.burst) \in Int
      /\ Least(b.tokens + d * cfg.rate, cfg.burst) <= BurstBound
      /\ Least(b.tokens + d * cfg.rate, cfg.burst) <= b.tokens + RateBound * d
  BY <1>1, <1>3, LedgerAssumption DEF Least
<1> QED
  BY <1>4 DEF Refill, d

-----------------------------------------------------------------------------
\* The ledger's steps are the limiter's.
LEMMA LedgerStep == [LedgerNext]_ledgerVars => [Next]_vars
<1> SUFFICES ASSUME [LedgerNext]_ledgerVars PROVE [Next]_vars
  OBVIOUS
<1>1. CASE Quiet
  BY <1>1 DEF Quiet, Next, TaskStep, PurgerStep
<1>2. ASSUME NEW t \in Tasks, AdmitBooked(t) \/ RefuseBooked(t) PROVE Next
  BY <1>2 DEF AdmitBooked, RefuseBooked, Next, TaskStep
<1>3. ASSUME NEW p \in Purgers, EvictBooked(p) PROVE Next
  BY <1>3 DEF EvictBooked, Next, PurgerStep
<1>4. CASE DropBooked
  BY <1>4 DEF DropBooked, Next
<1>5. CASE UNCHANGED ledgerVars
  BY <1>5 DEF ledgerVars
<1> QED
  BY <1>1, <1>2, <1>3, <1>4, <1>5 DEF LedgerNext

\* A quiet step leaves the buckets alone, and the clock never goes back.
LEMMA QuietStep ==
  ASSUME TypeOK, Quiet
  PROVE  UNCHANGED buckets /\ clock' >= clock
<1>1. clock \in Nat
  BY TimeIsNat DEF TypeOK
<1>2. CASE Tick
  BY <1>1, <1>2 DEF Tick
<1>3. CASE CleanerWake
  BY <1>1, <1>3 DEF CleanerWake, Begin
<1>4. ASSUME NEW p \in Helpers, NEW ttl \in HelperTtls, PurgeOnce(p, ttl)
      PROVE  UNCHANGED buckets /\ clock' >= clock
  BY <1>1, <1>4 DEF PurgeOnce, Begin
<1>5. ASSUME NEW t \in Tasks, NEW k \in Keys, Enter(t, k)
      PROVE  UNCHANGED buckets /\ clock' >= clock
  BY <1>1, <1>5 DEF Enter
<1>6. ASSUME NEW t \in Tasks, Stamp(t) \/ Reply(t)
      PROVE  UNCHANGED buckets /\ clock' >= clock
  BY <1>1, <1>6 DEF Stamp, Reply
<1>7. ASSUME NEW p \in Purgers, NEW k \in Keys, Collect(p, k) \/ Inspect(p, k)
      PROVE  UNCHANGED buckets /\ clock' >= clock
  BY <1>1, <1>7 DEF Collect, Inspect
<1>8. ASSUME NEW p \in Purgers, Finish(p)
      PROVE  UNCHANGED buckets /\ clock' >= clock
  BY <1>1, <1>8 DEF Finish
<1>9. ASSUME NEW e, SetEnv(e)
      PROVE  UNCHANGED buckets /\ clock' >= clock
  BY <1>1, <1>9 DEF SetEnv
<1>10. ASSUME NEW list \in DropLists, DropRequest(list)
       PROVE  UNCHANGED buckets /\ clock' >= clock
  BY <1>1, <1>10 DEF DropRequest
<1> QED
  BY <1>2, <1>3, <1>4, <1>5, <1>6, <1>7, <1>8, <1>9, <1>10 DEF Quiet

\* A bucket lacks at most its refill so far plus its shortfall.
LEMMA ShortfallType ==
  ASSUME TypeOK, NEW k \in Keys, Present(k)
  PROVE  /\ Shortfall(buckets[k]) \in Nat
         /\ BurstBound - buckets[k].tokens
              <= RateBound * (clock - buckets[k].last) + Shortfall(buckets[k])
<1>1. /\ buckets[k].tokens \in Int
      /\ clock - buckets[k].last \in Int
  BY TimeIsNat DEF TypeOK, Bucket, Present
<1>2. RateBound * (clock - buckets[k].last) \in Int
  BY <1>1, LedgerAssumption
<1> DEFINE r == RateBound * (clock - buckets[k].last)
<1> HIDE DEF r
<1>3. r \in Int
  BY <1>2 DEF r
<1> QED
  BY <1>1, <1>3, LedgerAssumption DEF Shortfall, NonNegative, r

\* The ledger starts typed.
LEMMA LedgerInitType == LedgerInit => LedgerTypeOK
BY InitType DEF LedgerInit, LedgerTypeOK

\* Booking a charge keeps the ledger typed.
LEMMA BookType ==
  ASSUME LedgerTypeOK, NEW k \in Keys, NEW now \in Nat, NEW cost \in Nat,
         Book(k, now, cost)
  PROVE  /\ paid' \in [Keys -> Nat]
         /\ seen' \in [Keys -> Nat]
         /\ slip' \in [Keys -> Nat]
         /\ gift' \in [Keys -> Nat]
         /\ touched' \subseteq Purgers
<1>1. NonNegative(seen[k] - now) \in Nat
  BY DEF LedgerTypeOK, NonNegative
<1> QED
  BY <1>1 DEF LedgerTypeOK, Book

\* So does writing off a removed bucket.
LEMMA ForgetType ==
  ASSUME LedgerTypeOK, NEW k, Forget(k)
  PROVE  /\ paid' \in [Keys -> Nat]
         /\ seen' \in [Keys -> Nat]
         /\ slip' \in [Keys -> Nat]
         /\ gift' \in [Keys -> Nat]
<1>1. CASE Present(k)
  <2>1. k \in Keys /\ clock \in Nat
    BY <1>1, TimeIsNat DEF LedgerTypeOK, TypeOK, Present
  <2>2. Shortfall(buckets[k]) \in Nat
    BY <1>1, <2>1, ShortfallType DEF LedgerTypeOK
  <2> QED
    BY <1>1, <2>1, <2>2 DEF LedgerTypeOK, Forget
<1>2. CASE ~Present(k)
  BY <1>2 DEF LedgerTypeOK, Forget
<1> QED
  BY <1>1, <1>2

\* Where a request stands when it takes its bucket.
LEMMA ChargeFacts ==
  ASSUME TypeOK, NEW t \in Tasks, Admit(t) \/ Refuse(t)
  PROVE  /\ task[t].pc = "stamped"
         /\ task[t].key \in Keys
         /\ task[t].cfg \in Config
         /\ task[t].cfg.request_cost \in Nat
         /\ task[t].now \in Time
         /\ task[t].now \in Nat
BY TimeIsNat DEF TypeOK, Task, Config, Admit, Refuse

\* So does every step.
LEMMA LedgerNextType ==
  LedgerTypeOK /\ [LedgerNext]_ledgerVars => LedgerTypeOK'
<1> SUFFICES ASSUME LedgerTypeOK, [LedgerNext]_ledgerVars PROVE LedgerTypeOK'
  OBVIOUS
<1>0. TypeOK'
  BY LedgerStep, NextType DEF LedgerTypeOK
<1>1. CASE Quiet /\ UNCHANGED ledger
  BY <1>0, <1>1 DEF LedgerTypeOK, ledger
<1>2. ASSUME NEW t \in Tasks, AdmitBooked(t) \/ RefuseBooked(t)
      PROVE  LedgerTypeOK'
  BY <1>0, <1>2, ChargeFacts, BookType
     DEF LedgerTypeOK, AdmitBooked, RefuseBooked
<1>3. ASSUME NEW p \in Purgers, EvictBooked(p) PROVE LedgerTypeOK'
  BY <1>0, <1>3, ForgetType DEF LedgerTypeOK, EvictBooked
<1>4. CASE DropBooked
  BY <1>0, <1>4, ForgetType DEF LedgerTypeOK, DropBooked
<1>5. CASE UNCHANGED ledgerVars
  BY <1>0, <1>5 DEF LedgerTypeOK, ledgerVars, ledger
<1> QED
  BY <1>1, <1>2, <1>3, <1>4, <1>5 DEF LedgerNext

-----------------------------------------------------------------------------
(***************************************************************************)
(* Requests in flight.                                                     *)
(***************************************************************************)

\* The settings of every environment are within the bounds.
LEMMA ConfigBounds ==
  ASSUME TypeOK
  PROVE  LET cfg == ReadConfig(env)
         IN /\ cfg.rate <= RateBound
            /\ cfg.burst <= BurstBound
            /\ cfg.burst >= BurstFloor
            /\ NoNegativeRate => cfg.rate >= 0
BY LedgerAssumption DEF TypeOK, NoNegativeRate

\* No step gives a request a stamp from the future, or settings out of bounds.
LEMMA RequestsStep ==
  LedgerTypeOK /\ RequestsAreSound /\ [LedgerNext]_ledgerVars
    => RequestsAreSound'
<1> SUFFICES ASSUME LedgerTypeOK, RequestsAreSound, [LedgerNext]_ledgerVars
             PROVE  RequestsAreSound'
  OBVIOUS
<1> USE DEF LedgerTypeOK
<1>1. clock \in Nat /\ clock' \in Nat /\ clock' >= clock
  <2>1. clock \in Nat
    BY TimeIsNat DEF TypeOK
  <2>2. clock' \in Nat
    BY LedgerNextType, TimeIsNat DEF TypeOK
  <2>3. ASSUME NEW t \in Tasks, AdmitBooked(t) \/ RefuseBooked(t)
        PROVE  clock' = clock
    BY <2>3 DEF AdmitBooked, RefuseBooked, Admit, Refuse
  <2>4. ASSUME NEW p \in Purgers, EvictBooked(p) PROVE clock' = clock
    BY <2>4 DEF EvictBooked, Evict
  <2>5. CASE DropBooked
    BY <2>1, <2>5 DEF DropBooked, DropNext
  <2>6. CASE UNCHANGED ledgerVars
    BY <2>1, <2>6 DEF ledgerVars, vars
  <2>7. CASE Quiet
    BY <2>1, <2>2, <2>7, QuietStep
  <2> QED
    BY <2>1, <2>3, <2>4, <2>5, <2>6, <2>7 DEF LedgerNext
<1>2. \A t \in Tasks : task[t].now \in Nat
  BY TimeIsNat DEF TypeOK, Task
<1>3. CASE UNCHANGED task
  BY <1>1, <1>2, <1>3 DEF RequestsAreSound
<1>4. ASSUME NEW t \in Tasks, NEW k \in Keys, Enter(t, k)
      PROVE  RequestsAreSound'
  BY <1>1, <1>2, <1>4, ConfigBounds
     DEF RequestsAreSound, Enter, TypeOK
<1>5. ASSUME NEW t \in Tasks, Stamp(t) PROVE RequestsAreSound'
  BY <1>1, <1>2, <1>5 DEF RequestsAreSound, Stamp, TypeOK, Task
<1>6. ASSUME NEW t \in Tasks, Reply(t) PROVE RequestsAreSound'
  BY <1>1, <1>2, <1>6, LedgerAssumption
     DEF RequestsAreSound, Reply, TypeOK, IdleTask, NoConfig
<1>7. ASSUME NEW t \in Tasks, Admit(t) PROVE RequestsAreSound'
  BY <1>1, <1>2, <1>7 DEF RequestsAreSound, Admit, TypeOK, Task
<1>8. ASSUME NEW t \in Tasks, Refuse(t) PROVE RequestsAreSound'
  BY <1>1, <1>2, <1>8 DEF RequestsAreSound, Refuse, TypeOK, Task
<1>9. CASE Quiet
  <2>1. \/ \E t \in Tasks, k \in Keys : Enter(t, k)
        \/ \E t \in Tasks : Stamp(t) \/ Reply(t)
        \/ UNCHANGED task
    BY <1>9 DEF Quiet, Tick, SetEnv, CleanerWake, PurgeOnce, Begin, Collect,
                Inspect, Finish, DropRequest
  <2> QED
    BY <2>1, <1>3, <1>4, <1>5, <1>6
<1> QED
  BY <1>3, <1>7, <1>8, <1>9
     DEF LedgerNext, AdmitBooked, RefuseBooked, EvictBooked, DropBooked, Evict,
         DropNext, ledgerVars, vars

-----------------------------------------------------------------------------
(***************************************************************************)
(* The books.                                                              *)
(***************************************************************************)

\* Booking a request credits its key with the time since the last stamp.
LEMMA BookedCredit ==
  ASSUME LedgerTypeOK, NEW k \in Keys, NEW now \in Nat, NEW cost \in Nat,
         Book(k, now, cost)
  PROVE  Credited(k)' = Credited(k) + RateBound * Elapsed(now, seen[k])
<1> DEFINE d == Elapsed(now, seen[k])
           s == seen[k] + slip[k]
<1>1. seen[k] \in Nat /\ slip[k] \in Nat /\ gift[k] \in Nat /\ s \in Nat
  BY DEF LedgerTypeOK
<1>2. /\ d \in Nat
      /\ now + NonNegative(seen[k] - now) = seen[k] + d
  BY <1>1, ElapsedType
<1>3. NonNegative(seen[k] - now) \in Int
  BY <1>1 DEF NonNegative
<1>4. /\ seen'[k] = now
      /\ slip'[k] = slip[k] + NonNegative(seen[k] - now)
      /\ gift'[k] = gift[k]
  BY DEF LedgerTypeOK, Book
<1> HIDE DEF d
<1>5. seen'[k] + slip'[k] = s + d
  BY <1>1, <1>2, <1>4, <1>3
<1> HIDE DEF s
<1>6. RateBound * (s + d) = RateBound * s + RateBound * d
  BY <1>1, <1>2, Scale, LedgerAssumption
<1>7. RateBound * s \in Int /\ RateBound * d \in Int
  BY <1>1, <1>2, LedgerAssumption
<1> USE DEF s
<1> QED
  BY <1>1, <1>2, <1>4, <1>5, <1>6, <1>7, LedgerAssumption DEF Credited, d

\* The bucket a request finds fits, with the payments, into that credit.
LEMMA RefilledIsCovered ==
  ASSUME LedgerTypeOK, NEW k \in Keys, Balanced(k), NEW cfg \in Config,
         NEW now \in Time, cfg.rate <= RateBound, cfg.burst <= BurstBound
  PROVE  LET c == Refilled(k, cfg, now)
         IN /\ c.last = now
            /\ c.last_access = now
            /\ c.tokens \in Int
            /\ c.tokens <= BurstBound
            /\ paid[k] + c.tokens
                 <= Credited(k) + RateBound * Elapsed(now, seen[k])
<1> DEFINE e == RateBound * Elapsed(now, seen[k])
<1>1. now \in Nat /\ seen[k] \in Nat /\ paid[k] \in Nat
  BY TimeIsNat DEF LedgerTypeOK
<1>2. e \in Nat
  <2>1. Elapsed(now, seen[k]) \in Nat
    BY <1>1, ElapsedType
  <2> QED
    BY <2>1, Scale, LedgerAssumption
<1>3. Credited(k) \in Int
  BY LedgerAssumption DEF LedgerTypeOK, Credited
<1> HIDE DEF e
<1>4. CASE Present(k)
  <2>1. buckets[k] \in Bucket
    BY <1>4 DEF LedgerTypeOK, TypeOK, Present
  <2>2. /\ buckets[k].last = seen[k]
        /\ buckets[k].tokens \in Int
        /\ paid[k] + buckets[k].tokens <= Credited(k)
    BY <1>4, <2>1 DEF Balanced, Bucket
  <2>3. Refilled(k, cfg, now) = Refill(buckets[k], cfg, now)
    BY <1>4 DEF Refilled
  <2> QED
    BY <1>1, <1>2, <1>3, <2>1, <2>2, <2>3, RefillIsCovered DEF e
<1>5. CASE ~Present(k)
  <2>1. Fresh(cfg, now) \in Bucket
    BY DEF Fresh, Bucket, Config
  <2>2. Refilled(k, cfg, now) = Refill(Fresh(cfg, now), cfg, now)
    BY <1>5 DEF Refilled
  <2>3. paid[k] + BurstBound <= Credited(k)
    BY <1>5 DEF Balanced
  <2> QED
    BY <1>1, <1>2, <1>3, <2>1, <2>2, <2>3, RefillIsCovered, LedgerAssumption
       DEF e
<1> QED
  BY <1>4, <1>5

\* What Put and Without do to the map.
LEMMA PutLookup ==
  ASSUME NEW k, NEW b, buckets' = Put(k, b)
  PROVE  Present(k)' /\ buckets'[k] = b
BY DEF Put, Present

\* Putting a bucket touches no other key.
LEMMA PutElsewhere ==
  ASSUME NEW k, NEW b, buckets' = Put(k, b), NEW j, j # k
  PROVE  /\ Present(j)' <=> Present(j)
         /\ Present(j) => buckets'[j] = buckets[j]
BY DEF Put, Present

\* A removed key has no bucket,
LEMMA WithoutLookup ==
  ASSUME NEW k, buckets' = Without(k)
  PROVE  ~Present(k)'
BY DEF Without, Present

\* and no other key is touched.
LEMMA WithoutElsewhere ==
  ASSUME NEW k, buckets' = Without(k), NEW j, j # k
  PROVE  /\ Present(j)' <=> Present(j)
         /\ Present(j) => buckets'[j] = buckets[j]
BY DEF Without, Present

\* More time and more gifts never earn less.
LEMMA EarningsGrow ==
  ASSUME NEW x \in Int, NEW y \in Int, x <= y,
         NEW g \in Nat, NEW h \in Nat, g <= h
  PROVE  /\ BurstBound + RateBound * x + g \in Int
         /\ BurstBound + RateBound * y + h \in Int
         /\ BurstBound + RateBound * x + g <= BurstBound + RateBound * y + h
<1>1. /\ RateBound * x \in Int /\ RateBound * y \in Int
      /\ RateBound * x <= RateBound * y
  BY Scale, LedgerAssumption
<1> DEFINE a == RateBound * x
           b == RateBound * y
<1> HIDE DEF a, b
<1>2. a \in Int /\ b \in Int /\ a <= b
  BY <1>1 DEF a, b
<1> QED
  BY <1>2, LedgerAssumption DEF a, b

\* Credit never exceeds the allowance, which itself never shrinks.
LEMMA CreditWithinAllowance ==
  ASSUME LedgerTypeOK', NEW k \in Keys, seen'[k] <= clock'
  PROVE  /\ Credited(k)' \in Int /\ Allowance(k)' \in Int
         /\ Credited(k)' <= Allowance(k)'
<1>1. /\ seen'[k] + slip'[k] \in Int /\ clock' + slip'[k] \in Int
      /\ seen'[k] + slip'[k] <= clock' + slip'[k]
      /\ gift'[k] \in Nat
  BY TimeIsNat DEF LedgerTypeOK, TypeOK
<1> QED
  BY <1>1, EarningsGrow DEF Credited, Allowance

\* The same for the allowance of AdmissionBound.
LEMMA AllowanceGrows ==
  ASSUME LedgerTypeOK, LedgerTypeOK', NEW k \in Keys,
         clock' >= clock, slip'[k] >= slip[k], gift'[k] >= gift[k]
  PROVE  /\ Allowance(k) \in Int /\ Allowance(k)' \in Int
         /\ Allowance(k) <= Allowance(k)'
<1>1. /\ clock + slip[k] \in Int /\ clock' + slip'[k] \in Int
      /\ clock + slip[k] <= clock' + slip'[k]
      /\ gift[k] \in Nat /\ gift'[k] \in Nat
  BY TimeIsNat DEF LedgerTypeOK, TypeOK
<1> QED
  BY <1>1, EarningsGrow DEF Allowance

\* A key whose bucket and account do not change stays in balance.
LEMMA UntouchedBalance ==
  ASSUME LedgerTypeOK, LedgerTypeOK', NEW j \in Keys,
         Balanced(j), paid[j] <= Allowance(j), clock' >= clock,
         paid'[j] = paid[j], seen'[j] = seen[j], slip'[j] = slip[j],
         gift'[j] = gift[j],
         Present(j)' <=> Present(j), Present(j) => buckets'[j] = buckets[j]
  PROVE  Balanced(j)' /\ paid'[j] <= Allowance(j)'
<1>1. Balanced(j)'
  <2>1. seen'[j] <= clock'
    BY TimeIsNat DEF Balanced, LedgerTypeOK, TypeOK
  <2> QED
    BY <2>1 DEF Balanced, Credited
<1>2. paid'[j] <= Allowance(j)'
  <2>1. /\ Allowance(j) \in Int /\ Allowance(j)' \in Int
        /\ Allowance(j) <= Allowance(j)'
    BY AllowanceGrows DEF LedgerTypeOK
  <2> QED
    BY <2>1 DEF LedgerTypeOK
<1> QED
  BY <1>1, <1>2

\* Charging n to key k, whose refilled bucket holds c, keeps the books.
LEMMA ChargeBalances ==
  ASSUME LedgerTypeOK, LedgerTypeOK', BooksBalance, AdmissionBound,
         NEW k \in Keys, NEW now \in Nat, NEW n \in Nat, NEW c \in Int, NEW b,
         now <= clock, clock' = clock, Book(k, now, n), buckets' = Put(k, b),
         b.last = now, b.tokens = c - n, n = 0 \/ n <= c, c <= BurstBound,
         paid[k] + c <= Credited(k) + RateBound * Elapsed(now, seen[k])
  PROVE  BooksBalance' /\ AdmissionBound'
<1>0. clock \in Nat /\ clock' >= clock
  <2>1. clock \in Nat
    BY TimeIsNat DEF LedgerTypeOK, TypeOK
  <2> QED
    BY <2>1
<1>1. Credited(k)' = Credited(k) + RateBound * Elapsed(now, seen[k])
  BY BookedCredit
<1>2. /\ paid[k] \in Nat /\ paid'[k] = paid[k] + n /\ seen'[k] = now
      /\ gift'[k] = gift[k]
  BY DEF LedgerTypeOK, Book
<1>3. slip[k] \in Nat /\ slip'[k] \in Nat /\ slip'[k] >= slip[k]
  BY DEF LedgerTypeOK, Book, NonNegative
<1>4. /\ Credited(k)' \in Int /\ Allowance(k)' \in Int
      /\ Credited(k)' <= Allowance(k)'
  BY <1>2, CreditWithinAllowance
<1>5. Balanced(k)'
  <2>1. Present(k)' /\ buckets'[k] = b
    BY PutLookup
  <2> QED
    BY <1>1, <1>2, <1>4, <2>1, LedgerAssumption DEF Balanced
<1>6. paid'[k] <= Allowance(k)'
  <2>1. CASE n = 0
    <3>1. /\ Allowance(k) \in Int
          /\ Allowance(k) <= Allowance(k)'
      BY <1>0, <1>2, <1>3, AllowanceGrows DEF LedgerTypeOK
    <3> QED
      BY <1>2, <1>4, <2>1, <3>1 DEF AdmissionBound
  <2>2. CASE n <= c
    BY <1>1, <1>2, <1>4, <2>2
  <2> QED
    BY <2>1, <2>2
<1>7. ASSUME NEW j \in Keys, j # k
      PROVE  Balanced(j)' /\ paid'[j] <= Allowance(j)'
  <2>1. /\ paid'[j] = paid[j] /\ seen'[j] = seen[j] /\ slip'[j] = slip[j]
        /\ gift'[j] = gift[j]
    BY <1>7 DEF LedgerTypeOK, Book
  <2>2. /\ Present(j)' <=> Present(j)
        /\ Present(j) => buckets'[j] = buckets[j]
    BY <1>7, PutElsewhere
  <2> QED
    BY <1>0, <2>1, <2>2, UntouchedBalance DEF BooksBalance, AdmissionBound
<1> QED
  BY <1>5, <1>6, <1>7 DEF BooksBalance, AdmissionBound

\* What a charge does, in the terms of the lemma above.
LEMMA ChargeIsBooked ==
  ASSUME LedgerTypeOK, RequestsAreSound, BooksBalance,
         NEW t \in Tasks, AdmitBooked(t) \/ RefuseBooked(t)
  PROVE  \E k \in Keys, now \in Nat, n \in Nat, c \in Int, b \in Bucket :
           /\ k = task[t].key /\ now = task[t].now
           /\ now <= clock /\ clock' = clock
           /\ Book(k, now, n) /\ buckets' = Put(k, b)
           /\ b.last = now /\ b.last_access = now /\ b.tokens = c - n
           /\ n = 0 \/ n <= c
           /\ c = Refilled(k, task[t].cfg, now).tokens
           /\ c <= BurstBound
           /\ paid[k] + c <= Credited(k) + RateBound * Elapsed(now, seen[k])
<1>1. PICK k, now, cfg : k = task[t].key /\ now = task[t].now /\ cfg = task[t].cfg
  OBVIOUS
<1>2. /\ k \in Keys /\ cfg \in Config /\ now \in Time /\ now \in Nat
      /\ cfg.request_cost \in Nat
  BY <1>1, ChargeFacts DEF LedgerTypeOK, AdmitBooked, RefuseBooked
<1>3. cfg.rate <= RateBound /\ cfg.burst <= BurstBound /\ now <= clock
  BY <1>1 DEF RequestsAreSound
<1>4. PICK r : r = Refilled(k, cfg, now)
  OBVIOUS
<1>5. r \in Bucket
  BY <1>2, <1>4, RefilledType, LimiterAssumption DEF LedgerTypeOK, TypeOK
<1>6. /\ r.last = now /\ r.last_access = now /\ r.tokens \in Int
      /\ r.tokens <= BurstBound
      /\ paid[k] + r.tokens <= Credited(k) + RateBound * Elapsed(now, seen[k])
  BY <1>2, <1>3, <1>4, RefilledIsCovered DEF BooksBalance
<1>7. CASE AdmitBooked(t)
  <2>1. PICK b : b = Spend(r, cfg)
    OBVIOUS
  <2>2. /\ b \in Bucket /\ b.last = now /\ b.last_access = now
        /\ b.tokens = r.tokens - cfg.request_cost
    BY <1>2, <1>5, <1>6, <2>1 DEF Spend, Bucket
  <2>3. /\ cfg.request_cost <= r.tokens /\ buckets' = Put(k, b)
        /\ Book(k, now, cfg.request_cost) /\ clock' = clock
    BY <1>1, <1>2, <1>4, <1>6, <1>7, <2>1 DEF AdmitBooked, Admit, Affords
  <2> QED
    BY <1>1, <1>2, <1>3, <1>4, <1>6, <2>2, <2>3
<1>8. CASE RefuseBooked(t)
  <2>1. buckets' = Put(k, r) /\ Book(k, now, 0) /\ clock' = clock
    BY <1>1, <1>4, <1>8 DEF RefuseBooked, Refuse
  <2>2. r.tokens = r.tokens - 0
    BY <1>6
  <2> QED
    BY <1>1, <1>2, <1>3, <1>4, <1>5, <1>6, <2>1, <2>2
<1> QED
  BY <1>7, <1>8

\* Removing the bucket of k keeps the books: the gift pays for it.
LEMMA ForgetBalances ==
  ASSUME LedgerTypeOK, LedgerTypeOK', BooksBalance, AdmissionBound,
         NEW k, clock' = clock, Forget(k), buckets' = Without(k)
  PROVE  BooksBalance' /\ AdmissionBound'
<1>0. clock \in Nat /\ clock' >= clock
  <2>1. clock \in Nat
    BY TimeIsNat DEF LedgerTypeOK, TypeOK
  <2> QED
    BY <2>1
<1>1. ASSUME NEW j \in Keys, j # k \/ ~Present(k)
      PROVE  Balanced(j)' /\ paid'[j] <= Allowance(j)'
  <2>1. /\ paid'[j] = paid[j] /\ seen'[j] = seen[j] /\ slip'[j] = slip[j]
        /\ gift'[j] = gift[j]
    BY <1>1 DEF LedgerTypeOK, Forget
  <2>2. /\ Present(j)' <=> Present(j)
        /\ Present(j) => buckets'[j] = buckets[j]
    BY <1>1, WithoutLookup, WithoutElsewhere
  <2> QED
    BY <1>0, <2>1, <2>2, UntouchedBalance DEF BooksBalance, AdmissionBound
<1>2. ASSUME k \in Keys, Present(k)
      PROVE  Balanced(k)' /\ paid'[k] <= Allowance(k)'
  <2> DEFINE b == buckets[k]
             e == RateBound * (clock - seen[k])
             f == RateBound * (seen[k] + slip[k])
  <2>1. /\ b.last = seen[k] /\ b.tokens \in Int
        /\ paid[k] + b.tokens <= Credited(k)
        /\ paid[k] <= Allowance(k)
        /\ seen[k] <= clock
    BY <1>2 DEF BooksBalance, Balanced, AdmissionBound, LedgerTypeOK, TypeOK,
                Bucket, Present
  <2>2. /\ paid'[k] = paid[k] /\ seen'[k] = clock /\ slip'[k] = slip[k]
        /\ gift'[k] = gift[k] + Shortfall(b)
    BY <1>2 DEF LedgerTypeOK, Forget
  <2>3. /\ Shortfall(b) \in Nat
        /\ BurstBound - b.tokens <= e + Shortfall(b)
    BY <1>2, <2>1, ShortfallType DEF LedgerTypeOK
  <2>4. /\ paid[k] \in Nat /\ gift[k] \in Nat
        /\ seen[k] \in Nat /\ slip[k] \in Nat
    BY <1>2 DEF LedgerTypeOK
  <2>5. RateBound * (clock + slip[k]) = f + e
    <3>1. clock + slip[k] = (seen[k] + slip[k]) + (clock - seen[k])
      BY <1>0, <2>4
    <3> QED
      BY <1>0, <2>4, <3>1, Scale, LedgerAssumption
  <2>6. e \in Int /\ f \in Int
    BY <1>0, <2>4, LedgerAssumption
  <2>7. /\ Credited(k) = BurstBound + f + gift[k]
        /\ Credited(k)' = BurstBound + RateBound * (clock + slip[k])
                            + (gift[k] + Shortfall(b))
    BY <2>2 DEF Credited
  <2> HIDE DEF b, e, f
  <2>8. paid[k] + BurstBound <= Credited(k)'
    BY <2>1, <2>3, <2>4, <2>5, <2>6, <2>7, LedgerAssumption
  <2>9. Balanced(k)'
    BY <1>0, <2>2, <2>8, WithoutLookup DEF Balanced
  <2>10. paid'[k] <= Allowance(k)'
    <3>1. Credited(k)' <= Allowance(k)' /\ Allowance(k)' \in Int
          /\ Credited(k)' \in Int
      BY <1>0, <1>2, <2>2, CreditWithinAllowance
    <3> QED
      BY <2>2, <2>4, <2>8, <3>1, LedgerAssumption
  <2> QED
    BY <2>9, <2>10
<1> QED
  BY <1>1, <1>2 DEF BooksBalance, AdmissionBound

\* The books balance at the start.
LEMMA BooksInit == LedgerInit => BooksBalance /\ AdmissionBound
<1> SUFFICES ASSUME LedgerInit PROVE BooksBalance /\ AdmissionBound
  OBVIOUS
<1>1. ASSUME NEW k \in Keys
      PROVE  /\ paid[k] = 0 /\ seen[k] = 0 /\ slip[k] = 0 /\ gift[k] = 0
             /\ clock = 0 /\ ~Present(k)
  BY DEF LedgerInit, Init, Present
<1>2. RateBound * (0 + 0) = 0
  BY LedgerAssumption
<1> QED
  BY <1>1, <1>2, LedgerAssumption
     DEF BooksBalance, Balanced, AdmissionBound, Allowance, Credited

\* Every step keeps the books balanced.
LEMMA BooksStep ==
  ASSUME LedgerTypeOK, RequestsAreSound, BooksBalance, AdmissionBound,
         [LedgerNext]_ledgerVars
  PROVE  BooksBalance' /\ AdmissionBound'
<1>0. LedgerTypeOK'
  BY LedgerNextType
<1>1. ASSUME UNCHANGED <<buckets, ledger>>, clock' >= clock
      PROVE  BooksBalance' /\ AdmissionBound'
  <2>1. ASSUME NEW j \in Keys
        PROVE  Balanced(j)' /\ paid'[j] <= Allowance(j)'
    <3>1. /\ paid'[j] = paid[j] /\ seen'[j] = seen[j] /\ slip'[j] = slip[j]
          /\ gift'[j] = gift[j]
          /\ Present(j)' <=> Present(j)
          /\ Present(j) => buckets'[j] = buckets[j]
      BY <1>1 DEF ledger, Present
    <3> QED
      BY <1>0, <1>1, <3>1, UntouchedBalance DEF BooksBalance, AdmissionBound
  <2> QED
    BY <2>1 DEF BooksBalance, AdmissionBound
<1>2. CASE Quiet /\ UNCHANGED ledger
  BY <1>1, <1>2, QuietStep DEF LedgerTypeOK
<1>3. ASSUME NEW t \in Tasks, AdmitBooked(t) \/ RefuseBooked(t)
      PROVE  BooksBalance' /\ AdmissionBound'
  BY <1>0, <1>3, ChargeIsBooked, ChargeBalances
<1>4. ASSUME NEW p \in Purgers, EvictBooked(p)
      PROVE  BooksBalance' /\ AdmissionBound'
  <2>1. PICK k : k = purger[p].victim
    OBVIOUS
  <2> QED
    BY <1>0, <1>4, <2>1, ForgetBalances DEF EvictBooked, Evict
<1>5. CASE DropBooked
  <2>1. PICK k : k = Head(dropping)
    OBVIOUS
  <2> QED
    BY <1>0, <1>5, <2>1, ForgetBalances DEF DropBooked, DropNext
<1>6. CASE UNCHANGED ledgerVars
  <2>1. clock' >= clock
    BY <1>6, TimeIsNat DEF ledgerVars, vars, LedgerTypeOK, TypeOK
  <2> QED
    BY <1>1, <1>6, <2>1 DEF ledgerVars, vars
<1> QED
  BY <1>2, <1>3, <1>4, <1>5, <1>6 DEF LedgerNext

-----------------------------------------------------------------------------
(***************************************************************************)
(* What a purger judged idle.                                              *)
(***************************************************************************)

\* A purger is judged by its own locals and by its victim's bucket.
LEMMA JudgedStays ==
  ASSUME LedgerTypeOK, NEW p \in Purgers, Judged(p), clock' >= clock,
         clock' \in Nat, purger'[p] = purger[p],
         p \in touched => p \in touched',
         LET v == purger[p].victim
         IN purger[p].pc = "evict" /\ p \notin touched' /\ Present(v)'
              => Present(v) /\ buckets'[v] = buckets[v]
  PROVE  Judged(p)'
<1>1. clock \in Nat /\ purger[p].at \in Nat
  BY TimeIsNat DEF LedgerTypeOK, TypeOK, Purger
<1> QED
  BY <1>1 DEF Judged

\* A purger that is not about to evict has judged nothing.
LEMMA JudgedFresh ==
  ASSUME NEW p \in Purgers, purger'[p].at <= clock', purger'[p].pc # "evict"
  PROVE  Judged(p)'
BY DEF Judged

\* A purge that starts has judged nothing, and disturbs no other purger.
LEMMA BeginJudges ==
  ASSUME LedgerTypeOK, NEW p \in Purgers, NEW ttl, Begin(p, ttl)
  PROVE  /\ purger'[p].at = clock' /\ purger'[p].pc # "evict"
         /\ \A q \in Purgers \ {p} : purger'[q] = purger[q]
BY DEF Begin, LedgerTypeOK, TypeOK, Purger

\* Each quiet step leaves a purger alone, or takes it somewhere harmless, or
\* is the judgement itself.
LEMMA QuietJudges ==
  ASSUME LedgerTypeOK, JudgedAreIdle, Quiet, NEW p \in Purgers
  PROVE  \/ purger'[p] = purger[p]
         \/ purger'[p].at <= clock' /\ purger'[p].pc # "evict"
         \/ /\ purger'[p].at <= clock'
            /\ Stale(buckets[purger'[p].victim], purger'[p].at, purger'[p].ttl)
<1>0. /\ clock \in Nat /\ clock' >= clock /\ clock <= clock
      /\ purger[p] \in Purger /\ purger[p].at <= clock
  BY TimeIsNat, QuietStep
     DEF LedgerTypeOK, TypeOK, JudgedAreIdle, Judged
<1>1. CASE UNCHANGED purger
  BY <1>1
<1>2. ASSUME NEW t \in Tasks, Stamp(t)
      PROVE  \/ purger'[p] = purger[p]
             \/ purger'[p].at <= clock' /\ purger'[p].pc # "evict"
  BY <1>0, <1>2 DEF Stamp, StartCleaner, LedgerTypeOK, TypeOK, Purger
<1>3. CASE CleanerWake
  BY <1>0, <1>3, BeginJudges DEF CleanerWake, Begin, Purgers
<1>4. ASSUME NEW q \in Helpers, NEW ttl \in HelperTtls, PurgeOnce(q, ttl)
      PROVE  \/ purger'[p] = purger[p]
             \/ purger'[p].at <= clock' /\ purger'[p].pc # "evict"
  BY <1>0, <1>4, BeginJudges DEF PurgeOnce, Begin, Purgers
<1>5. ASSUME NEW q \in Purgers, NEW k \in Keys, Collect(q, k)
      PROVE  \/ purger'[p] = purger[p]
             \/ purger'[p].at <= clock' /\ purger'[p].pc # "evict"
  BY <1>0, <1>5 DEF Collect, LedgerTypeOK, TypeOK, Purger
<1>6. ASSUME NEW q \in Purgers, NEW k \in Keys, Inspect(q, k)
      PROVE  \/ purger'[p] = purger[p]
             \/ purger'[p].at <= clock' /\ purger'[p].pc # "evict"
             \/ /\ purger'[p].at <= clock'
                /\ Stale(buckets[purger'[p].victim], purger'[p].at,
                         purger'[p].ttl)
  <2>1. CASE q # p
    BY <1>6, <2>1 DEF Inspect, LedgerTypeOK, TypeOK
  <2>2. CASE q = p /\ Present(k) /\ Stale(buckets[k], purger[p].at, purger[p].ttl)
    BY <1>0, <1>6, <2>2 DEF Inspect, LedgerTypeOK, TypeOK, Purger
  <2>3. CASE q = p /\ ~(Present(k) /\ Stale(buckets[k], purger[p].at, purger[p].ttl))
    BY <1>0, <1>6, <2>3 DEF Inspect, LedgerTypeOK, TypeOK, Purger
  <2> QED
    BY <2>1, <2>2, <2>3
<1>7. ASSUME NEW q \in Purgers, Finish(q)
      PROVE  \/ purger'[p] = purger[p]
             \/ purger'[p].at <= clock' /\ purger'[p].pc # "evict"
  BY <1>0, <1>7 DEF Finish, OffPurger, LedgerTypeOK, TypeOK, Purger
<1>8. \/ UNCHANGED purger
      \/ \E t \in Tasks : Stamp(t)
      \/ CleanerWake
      \/ \E q \in Helpers, ttl \in HelperTtls : PurgeOnce(q, ttl)
      \/ \E q \in Purgers, k \in Keys : Collect(q, k) \/ Inspect(q, k)
      \/ \E q \in Purgers : Finish(q)
  BY DEF Quiet, Tick, SetEnv, Enter, Reply, DropRequest
<1> QED
  BY <1>1, <1>2, <1>3, <1>4, <1>5, <1>6, <1>7, <1>8

\* What was judged stale stays so until it is touched, whatever the step.
LEMMA JudgedStep ==
  ASSUME LedgerTypeOK, RequestsAreSound, BooksBalance, JudgedAreIdle,
         [LedgerNext]_ledgerVars
  PROVE  JudgedAreIdle'
<1> SUFFICES ASSUME NEW p \in Purgers PROVE Judged(p)'
  BY DEF JudgedAreIdle
<1>0. /\ clock \in Nat /\ clock' \in Nat /\ Judged(p)
      /\ touched \subseteq Purgers
  BY LedgerNextType, TimeIsNat DEF LedgerTypeOK, TypeOK, JudgedAreIdle
<1>1. CASE Quiet /\ UNCHANGED ledger
  <2>1. buckets' = buckets /\ touched' = touched /\ clock' >= clock
    BY <1>1, QuietStep DEF LedgerTypeOK, ledger
  <2>2. CASE purger'[p] = purger[p]
    BY <1>0, <2>1, <2>2, JudgedStays DEF Present
  <2>3. CASE purger'[p] # purger[p]
    BY <1>1, <2>1, <2>3, QuietJudges DEF Judged
  <2> QED
    BY <2>2, <2>3
<1>2. ASSUME NEW t \in Tasks, AdmitBooked(t) \/ RefuseBooked(t)
      PROVE  Judged(p)'
  <2>1. PICK k, b, now, n :
          /\ buckets' = Put(k, b) /\ Book(k, now, n)
    BY <1>2, ChargeIsBooked
  <2>2. purger' = purger /\ clock' = clock
    BY <1>2 DEF AdmitBooked, RefuseBooked, Admit, Refuse
  <2>3. touched' = touched \cup {q \in Purgers : purger[q].victim = k}
    BY <2>1 DEF Book
  <2>4. PICK v : v = purger[p].victim
    OBVIOUS
  <2>5. CASE v = k
    BY <1>0, <2>2, <2>3, <2>4, <2>5 DEF Judged
  <2>6. CASE v # k
    <3>1. /\ Present(v)' <=> Present(v)
          /\ Present(v) => buckets'[v] = buckets[v]
      BY <2>1, <2>6, PutElsewhere
    <3> QED
      BY <1>0, <2>2, <2>3, <2>4, <3>1 DEF Judged
  <2> QED
    BY <2>5, <2>6
<1>3. ASSUME NEW k, buckets' = Without(k), clock' = clock,
             purger'[p] = purger[p], p \in touched => p \in touched'
      PROVE  Judged(p)'
  <2>1. PICK v : v = purger[p].victim
    OBVIOUS
  <2>2. Present(v)' => Present(v) /\ buckets'[v] = buckets[v]
    BY <1>3, WithoutLookup, WithoutElsewhere
  <2> QED
    BY <1>0, <1>3, <2>1, <2>2 DEF Judged
<1>4. ASSUME NEW q \in Purgers, EvictBooked(q) PROVE Judged(p)'
  <2>1. PICK k : k = purger[q].victim
    OBVIOUS
  <2>2. /\ buckets' = Without(k) /\ clock' = clock /\ touched' = touched \ {q}
        /\ purger' = [purger EXCEPT
              ![q] = [purger[q] EXCEPT !.pc = "inspect", !.victim = NoKey]]
    BY <1>4, <2>1 DEF EvictBooked, Evict
  <2>3. CASE p = q
    BY <1>0, <2>2, <2>3 DEF Judged, LedgerTypeOK, TypeOK, Purger
  <2>4. CASE p # q
    <3>1. purger'[p] = purger[p]
      BY <2>2, <2>4 DEF LedgerTypeOK, TypeOK
    <3> QED
      BY <1>3, <2>2, <2>4, <3>1
  <2> QED
    BY <2>3, <2>4
<1>5. CASE DropBooked
  <2>1. PICK k : k = Head(dropping)
    OBVIOUS
  <2> QED
    BY <1>3, <1>5, <2>1 DEF DropBooked, DropNext
<1>6. CASE UNCHANGED ledgerVars
  BY <1>0, <1>6 DEF ledgerVars, vars, ledger, Judged, Present
<1> QED
  BY <1>1, <1>2, <1>4, <1>5, <1>6 DEF LedgerNext

-----------------------------------------------------------------------------
(***************************************************************************)
(* What remains of the burst.                                              *)
(***************************************************************************)

\* A refill leaves a key at least what it had not spent of the burst.
LEMMA RefilledRemains ==
  ASSUME LedgerTypeOK, NEW k \in Keys, Remains(k), NEW cfg \in Config,
         NEW now \in Time, NoNegativeRate, cfg.rate >= 0,
         cfg.burst >= BurstFloor
  PROVE  paid[k] + Refilled(k, cfg, now).tokens >= BurstFloor
<1>1. /\ now \in Nat /\ paid[k] \in Nat
      /\ cfg.rate \in Nat /\ cfg.burst \in Int
  BY TimeIsNat DEF LedgerTypeOK, Config
<1>2. PICK b : b = IF Present(k) THEN buckets[k] ELSE Fresh(cfg, now)
  OBVIOUS
<1>3. /\ b.tokens \in Int /\ b.last \in Nat
      /\ paid[k] + b.tokens >= BurstFloor
  <2>1. CASE Present(k)
    BY <1>2, <2>1, TimeIsNat
       DEF Remains, LedgerTypeOK, TypeOK, Bucket, Present
  <2>2. CASE ~Present(k)
    BY <1>1, <1>2, <2>2, LedgerAssumption DEF Fresh
  <2> QED
    BY <2>1, <2>2
<1>4. PICK e : e = Elapsed(now, b.last) * cfg.rate
  OBVIOUS
<1>5. e \in Nat
  <2>1. Elapsed(now, b.last) \in Nat
    BY <1>1, <1>3, ElapsedType
  <2> QED
    BY <1>1, <1>4, <2>1
<1>6. Refilled(k, cfg, now).tokens = Least(b.tokens + e, cfg.burst)
  BY <1>2, <1>4 DEF Refilled, Refill
<1> QED
  BY <1>1, <1>3, <1>5, <1>6, LedgerAssumption DEF Least

\* No step lets a key fall below its first burst.
LEMMA BurstStep ==
  ASSUME LedgerTypeOK, RequestsAreSound, BooksBalance, BurstRemains,
         [LedgerNext]_ledgerVars
  PROVE  BurstRemains'
<1> SUFFICES ASSUME NEW j \in Keys PROVE Remains(j)'
  BY DEF BurstRemains
<1>0. Remains(j)
  BY DEF BurstRemains
<1>1. ASSUME Present(j)' => Present(j) /\ buckets'[j] = buckets[j],
             paid'[j] = paid[j]
      PROVE  Remains(j)'
  BY <1>0, <1>1 DEF Remains, NoNegativeRate
<1>2. CASE Quiet /\ UNCHANGED ledger
  BY <1>1, <1>2, QuietStep DEF LedgerTypeOK, ledger, Present
<1>3. ASSUME NEW t \in Tasks, AdmitBooked(t) \/ RefuseBooked(t)
      PROVE  Remains(j)'
  <2>1. PICK k \in Keys, now \in Nat, n \in Nat, c \in Int, b \in Bucket :
           /\ k = task[t].key /\ now = task[t].now
           /\ Book(k, now, n) /\ buckets' = Put(k, b)
           /\ b.last = now /\ b.last_access = now /\ b.tokens = c - n
           /\ c = Refilled(k, task[t].cfg, now).tokens
    BY <1>3, ChargeIsBooked
  <2>2. /\ paid'[k] = paid[k] + n
        /\ \A i \in Keys \ {k} : paid'[i] = paid[i]
    BY <2>1 DEF LedgerTypeOK, Book
  <2>3. CASE j = k
    <3>1. NoNegativeRate => paid[k] + c >= BurstFloor
      <4>1. /\ task[t].pc = "stamped" /\ task[t].cfg \in Config
            /\ task[t].now \in Time
        BY <1>3, ChargeFacts DEF LedgerTypeOK, AdmitBooked, RefuseBooked
      <4>2. /\ task[t].cfg.burst >= BurstFloor
            /\ NoNegativeRate => task[t].cfg.rate >= 0
        BY <4>1 DEF RequestsAreSound
      <4> QED
        BY <1>0, <2>1, <2>3, <4>1, <4>2, RefilledRemains
    <3>2. buckets'[k] = b
      BY <2>1, PutLookup
    <3>3. paid[k] \in Nat
      BY DEF LedgerTypeOK
    <3>4. NoNegativeRate => paid'[k] + b.tokens >= BurstFloor
      BY <2>1, <2>2, <3>1, <3>3
    <3> QED
      BY <2>1, <2>3, <3>2, <3>4 DEF Remains, NoNegativeRate
  <2>4. CASE j # k
    BY <1>1, <2>1, <2>2, <2>4, PutElsewhere
  <2> QED
    BY <2>3, <2>4
<1>4. ASSUME NEW k, buckets' = Without(k), paid' = paid PROVE Remains(j)'
  BY <1>1, <1>4, WithoutLookup, WithoutElsewhere
<1>5. ASSUME NEW p \in Purgers, EvictBooked(p) PROVE Remains(j)'
  <2>1. PICK k : k = purger[p].victim
    OBVIOUS
  <2> QED
    BY <1>4, <1>5, <2>1 DEF EvictBooked, Evict, Forget
<1>6. CASE DropBooked
  <2>1. PICK k : k = Head(dropping)
    OBVIOUS
  <2> QED
    BY <1>4, <1>6, <2>1 DEF DropBooked, DropNext, Forget
<1>7. CASE UNCHANGED ledgerVars
  BY <1>1, <1>7 DEF ledgerVars, vars, ledger, Present
<1> QED
  BY <1>2, <1>3, <1>5, <1>6, <1>7 DEF LedgerNext

-----------------------------------------------------------------------------
\* The inductive invariant holds at the start
LEMMA LedgerInvInit == LedgerInit => LedgerInv
<1> SUFFICES ASSUME LedgerInit PROVE LedgerInv
  OBVIOUS
<1>1. RequestsAreSound
  BY LedgerAssumption, LimiterAssumption
     DEF LedgerInit, Init, RequestsAreSound, IdleTask, NoConfig
<1>2. JudgedAreIdle
  BY DEF LedgerInit, Init, JudgedAreIdle, Judged, OffPurger
<1>3. BurstRemains
  BY DEF LedgerInit, Init, BurstRemains, Remains, Present
<1> QED
  BY <1>1, <1>2, <1>3, LedgerInitType, BooksInit DEF LedgerInv

\* and is preserved by every step.
LEMMA LedgerInvNext == LedgerInv /\ [LedgerNext]_ledgerVars => LedgerInv'
BY LedgerNextType, RequestsStep, BooksStep, JudgedStep, BurstStep DEF LedgerInv

\* The strengthened invariant, of which the theorems below are consequences.
THEOREM LedgerInvariant == LedgerSpec => []LedgerInv
BY LedgerInvInit, LedgerInvNext, PTL DEF LedgerSpec

\* The limiter's variables and the ledger's keep their types: nothing is paid,
\* seen, slipped or given away in less than whole amounts, or in negative ones.
THEOREM LedgerTyped == LedgerSpec => []LedgerTypeOK
<1>1. LedgerInv => LedgerTypeOK
  BY DEF LedgerInv
<1> QED
  BY <1>1, LedgerInvariant, PTL

(***************************************************************************)
(* Whatever the settings and however many requests, purges and drops run   *)
(* at once, no key is admitted for more than its burst, the refill of the  *)
(* time that passed, and the two leaks the ledger records.                 *)
(***************************************************************************)
THEOREM AdmissionIsBounded == LedgerSpec => []AdmissionBound
<1>1. LedgerInv => AdmissionBound
  BY DEF LedgerInv
<1> QED
  BY <1>1, LedgerInvariant, PTL

(***************************************************************************)
(* Evicting an idle bucket costs nothing when nobody touched it between    *)
(* the purge's look at it and its removal, and the ttl covers a refill.    *)
(***************************************************************************)
THEOREM EvictionIsFree == LedgerSpec => UntouchedEvictionIsFree
<1>1. ASSUME LedgerInv, [LedgerNext]_ledgerVars, NEW p \in Purgers, Evict(p),
             p \notin touched, RateBound * purger[p].ttl >= BurstBound,
             Present(purger[p].victim)
               => buckets[purger[p].victim].tokens >= 0
      PROVE  UNCHANGED gift
  <2>1. \A k \in Keys : Present(k) /\ k = purger[p].victim => Shortfall(buckets[k]) = 0
    <3> SUFFICES ASSUME NEW k \in Keys, Present(k), k = purger[p].victim
                 PROVE  Shortfall(buckets[k]) = 0
      OBVIOUS
    <3> DEFINE b == buckets[k]
               r == RateBound * (clock - b.last)
    <3>1. /\ b.tokens \in Nat /\ b.last \in Nat /\ b.last_access = b.last
          /\ clock \in Nat /\ b.last <= clock
          /\ purger[p].at \in Nat /\ purger[p].at <= clock
          /\ purger[p].ttl \in Nat
          /\ Stale(b, purger[p].at, purger[p].ttl)
      BY <1>1, TimeIsNat
         DEF LedgerInv, LedgerTypeOK, TypeOK, Bucket, Purger, Present, Evict,
             JudgedAreIdle, Judged, BurstRemains, Remains, BooksBalance,
             Balanced
    <3>2. purger[p].ttl <= clock - b.last
      BY <3>1 DEF Stale, Elapsed
    <3>3. RateBound * purger[p].ttl <= r /\ r \in Int
          /\ RateBound * purger[p].ttl \in Int
      <4>1. clock - b.last \in Int
        BY <3>1
      <4> QED
        BY <3>1, <3>2, <4>1, Scale, LedgerAssumption
    <3> HIDE DEF r
    <3>4. BurstBound - (b.tokens + r) <= 0
      BY <1>1, <3>1, <3>3, LedgerAssumption
    <3>5. BurstBound - (b.tokens + r) \in Int
      BY <3>1, <3>3, LedgerAssumption
    <3> QED
      BY <3>4, <3>5 DEF Shortfall, NonNegative, r
  <2>2. gift \in [Keys -> Nat] /\ DOMAIN buckets \subseteq Keys
    BY <1>1 DEF LedgerInv, LedgerTypeOK, TypeOK
  <2>3. CASE Quiet /\ UNCHANGED ledger
    BY <2>3 DEF ledger
  <2>4. ASSUME NEW t \in Tasks, AdmitBooked(t) \/ RefuseBooked(t)
        PROVE  UNCHANGED gift
    BY <2>4 DEF AdmitBooked, RefuseBooked, Book
  <2>5. ASSUME NEW q \in Purgers, EvictBooked(q) PROVE UNCHANGED gift
    <3>1. p = q
      <4>1. purger'[p].pc = "inspect"
        BY <1>1 DEF Evict, LedgerInv, LedgerTypeOK, TypeOK, Purger
      <4>2. p # q => purger'[p] = purger[p]
        BY <2>5 DEF EvictBooked, Evict, LedgerInv, LedgerTypeOK, TypeOK
      <4> QED
        BY <1>1, <4>1, <4>2 DEF Evict
    <3> QED
      BY <2>1, <2>2, <2>5, <3>1 DEF EvictBooked, Forget, Present
  <2>6. CASE DropBooked
    <3>1. purger'[p].pc = "inspect"
      BY <1>1 DEF Evict, LedgerInv, LedgerTypeOK, TypeOK, Purger
    <3> QED
      BY <1>1, <2>6, <3>1 DEF DropBooked, DropNext, Evict
  <2>7. CASE UNCHANGED ledgerVars
    BY <2>7 DEF ledgerVars, ledger
  <2> QED
    BY <1>1, <2>3, <2>4, <2>5, <2>6, <2>7 DEF LedgerNext
<1>2. LedgerInv /\ [LedgerNext]_ledgerVars
        => [\A p \in Purgers :
              /\ Evict(p)
              /\ p \notin touched
              /\ RateBound * purger[p].ttl >= BurstBound
              /\ Present(purger[p].victim)
                   => buckets[purger[p].victim].tokens >= 0
              => UNCHANGED gift]_ledgerVars
  BY <1>1
<1> QED
  BY <1>2, LedgerInvariant, PTL DEF LedgerSpec, UntouchedEvictionIsFree

(***************************************************************************)
(* A request is refused only when its key has really used up the burst.    *)
(***************************************************************************)
THEOREM BurstHonoured == LedgerSpec => BurstIsHonoured
<1>1. ASSUME LedgerInv, NoNegativeRate, NEW t \in Tasks, Refuse(t)
      PROVE  paid[task[t].key] + task[t].cfg.request_cost > BurstFloor
  <2>1. PICK k, cfg, now :
          k = task[t].key /\ cfg = task[t].cfg /\ now = task[t].now
    OBVIOUS
  <2>2. /\ k \in Keys /\ cfg \in Config /\ now \in Time
        /\ cfg.request_cost \in Nat /\ task[t].pc = "stamped"
    BY <1>1, <2>1, ChargeFacts DEF LedgerInv, LedgerTypeOK
  <2>3. cfg.burst >= BurstFloor /\ cfg.rate >= 0
    BY <1>1, <2>1, <2>2 DEF LedgerInv, RequestsAreSound
  <2>4. paid[k] + Refilled(k, cfg, now).tokens >= BurstFloor
    BY <1>1, <2>2, <2>3, RefilledRemains DEF LedgerInv, BurstRemains
  <2>5. ~(Refilled(k, cfg, now).tokens >= cfg.request_cost)
    BY <1>1, <2>1 DEF Refuse, Affords
  <2>6. Refilled(k, cfg, now).tokens \in Int
    BY <1>1, <2>2, RefilledType, LimiterAssumption
       DEF LedgerInv, LedgerTypeOK, TypeOK, Bucket
  <2>7. paid[k] \in Nat
    BY <1>1, <2>2 DEF LedgerInv, LedgerTypeOK
  <2> QED
    BY <2>1, <2>2, <2>4, <2>5, <2>6, <2>7, LedgerAssumption
<1>2. LedgerInv
        => [NoNegativeRate =>
              \A t \in Tasks :
                Refuse(t) =>
                  paid[task[t].key] + task[t].cfg.request_cost
                    > BurstFloor]_ledgerVars
  BY <1>1
<1> QED
  BY <1>2, LedgerInvariant, PTL DEF BurstIsHonoured

-----------------------------------------------------------------------------
(***************************************************************************)
(* The refinement.                                                         *)
(***************************************************************************)
Leaked == [k \in Keys |-> RateBound * slip[k] + gift[k]]

\* One key's account moves as the abstract budget allows.
LEMMA ServesOne ==
  ASSUME LedgerInv, LedgerInv', NEW k \in Keys, clock' = clock,
         paid' = [paid EXCEPT ![k] = paid'[k]], paid[k] <= paid'[k],
         slip' = [slip EXCEPT ![k] = slip'[k]], slip[k] <= slip'[k],
         gift' = [gift EXCEPT ![k] = gift'[k]], gift[k] <= gift'[k]
  PROVE  Budget!Serve(k)
<1>1. /\ slip[k] \in Nat /\ slip'[k] \in Nat
      /\ gift[k] \in Nat /\ gift'[k] \in Nat /\ clock \in Nat
  BY TimeIsNat DEF LedgerInv, LedgerTypeOK, TypeOK
<1>2. Leaked' = [Leaked EXCEPT ![k] = Leaked'[k]]
  <2>1. ASSUME NEW j \in Keys, j # k
        PROVE  slip'[j] = slip[j] /\ gift'[j] = gift[j]
    BY <2>1 DEF LedgerInv, LedgerTypeOK
  <2>2. ASSUME NEW j \in Keys
        PROVE  Leaked'[j] = [Leaked EXCEPT ![k] = Leaked'[k]][j]
    BY <2>1 DEF Leaked
  <2>3. /\ Leaked' = [j \in Keys |-> Leaked'[j]]
        /\ [Leaked EXCEPT ![k] = Leaked'[k]]
             = [j \in Keys |-> [Leaked EXCEPT ![k] = Leaked'[k]][j]]
    BY DEF Leaked
  <2> QED
    BY <2>2, <2>3
<1>3. Leaked[k] <= Leaked'[k]
  <2>1. /\ RateBound * slip[k] <= RateBound * slip'[k]
        /\ RateBound * slip[k] \in Int /\ RateBound * slip'[k] \in Int
    BY <1>1, Scale, LedgerAssumption
  <2> QED
    BY <1>1, <2>1 DEF Leaked
<1>4. paid'[k] <= BurstBound + RateBound * clock + Leaked'[k]
  <2>1. /\ RateBound * (clock + slip'[k]) = RateBound * clock + RateBound * slip'[k]
        /\ RateBound * clock \in Int /\ RateBound * slip'[k] \in Int
    BY <1>1, Scale, LedgerAssumption
  <2>2. paid'[k] <= BurstBound + RateBound * (clock + slip'[k]) + gift'[k]
    BY DEF LedgerInv, AdmissionBound, Allowance
  <2> QED
    BY <1>1, <2>1, <2>2, LedgerAssumption DEF Leaked, LedgerInv, LedgerTypeOK
<1> QED
  BY <1>2, <1>3, <1>4 DEF Budget!Serve, Leaked

\* A removal is a leak of its key, or nothing at all.
LEMMA ForgetServes ==
  ASSUME LedgerInv, LedgerInv', NEW k, Forget(k), clock' = clock
  PROVE  [Budget!Next]_(Budget!budget)
<1>1. CASE Present(k)
  <2>1. k \in Keys
    BY <1>1 DEF LedgerInv, LedgerTypeOK, TypeOK, Present
  <2>2. Shortfall(buckets[k]) \in Nat /\ gift[k] \in Nat
    BY <1>1, <2>1, ShortfallType DEF LedgerInv, LedgerTypeOK
  <2>3. /\ paid' = paid /\ slip' = slip
        /\ gift' = [gift EXCEPT ![k] = gift'[k]] /\ gift[k] <= gift'[k]
    BY <1>1, <2>1, <2>2 DEF Forget, LedgerInv, LedgerTypeOK
  <2>4. /\ paid' = [paid EXCEPT ![k] = paid'[k]] /\ paid[k] <= paid'[k]
        /\ slip' = [slip EXCEPT ![k] = slip'[k]] /\ slip[k] <= slip'[k]
    BY <2>1, <2>3 DEF LedgerInv, LedgerTypeOK
  <2> QED
    BY <2>1, <2>3, <2>4, ServesOne DEF Budget!Next
<1>2. CASE ~Present(k)
  BY <1>2 DEF Forget, Budget!budget
<1> QED
  BY <1>1, <1>2

(***************************************************************************)
(* The limiter with its ledger implements the abstract token budget.       *)
(***************************************************************************)
THEOREM LedgerKeepsBudget == LedgerSpec => KeepsBudget
<1>1. LedgerInit => Budget!Init
  <2>1. RateBound * 0 + 0 = 0
    BY LedgerAssumption
  <2> QED
    BY <2>1 DEF LedgerInit, Init, Budget!Init
<1>2. ASSUME LedgerInv, LedgerInv', [LedgerNext]_ledgerVars
      PROVE  [Budget!Next]_(Budget!budget)
  <2>1. CASE UNCHANGED <<clock, paid, slip, gift>>
    BY <2>1 DEF Budget!budget
  <2>2. CASE Quiet /\ UNCHANGED ledger
    <3>1. CASE Tick
      BY <2>2, <3>1 DEF Tick, ledger, Budget!Next, Budget!Tick
    <3>2. CASE ~Tick
      <4>1. clock' = clock
        BY <2>2, <3>2 DEF Quiet, SetEnv, Enter, Stamp, Reply, CleanerWake,
                          PurgeOnce, Begin, Collect, Inspect, Finish,
                          DropRequest
      <4> QED
        BY <2>1, <2>2, <4>1 DEF ledger
    <3> QED
      BY <3>1, <3>2
  <2>3. ASSUME NEW t \in Tasks, AdmitBooked(t) \/ RefuseBooked(t)
        PROVE  [Budget!Next]_(Budget!budget)
    <3>1. PICK k \in Keys, now \in Nat, n \in Nat :
            Book(k, now, n) /\ clock' = clock
      BY <1>2, <2>3, ChargeIsBooked DEF LedgerInv
    <3>2. /\ paid' = [paid EXCEPT ![k] = paid'[k]] /\ paid[k] <= paid'[k]
          /\ gift' = [gift EXCEPT ![k] = gift'[k]] /\ gift[k] <= gift'[k]
      BY <1>2, <3>1 DEF Book, LedgerInv, LedgerTypeOK
    <3>3. slip' = [slip EXCEPT ![k] = slip'[k]] /\ slip[k] <= slip'[k]
      BY <1>2, <3>1 DEF Book, NonNegative, LedgerInv, LedgerTypeOK
    <3> QED
      BY <1>2, <3>1, <3>2, <3>3, ServesOne DEF Budget!Next
  <2>4. ASSUME NEW p \in Purgers, EvictBooked(p)
        PROVE  [Budget!Next]_(Budget!budget)
    <3>1. PICK k : k = purger[p].victim
      OBVIOUS
    <3> QED
      BY <1>2, <2>4, <3>1, ForgetServes DEF EvictBooked, Evict
  <2>5. CASE DropBooked
    <3>1. PICK k : k = Head(dropping)
      OBVIOUS
    <3> QED
      BY <1>2, <2>5, <3>1, ForgetServes DEF DropBooked, DropNext
  <2>6. CASE UNCHANGED ledgerVars
    BY <2>1, <2>6 DEF ledgerVars, vars, ledger
  <2> QED
    BY <1>2, <2>2, <2>3, <2>4, <2>5, <2>6 DEF LedgerNext
<1> QED
  BY <1>1, <1>2, LedgerInvariant, PTL DEF LedgerSpec, KeepsBudget, Budget!Spec
==============================================================================
