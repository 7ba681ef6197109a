--------------------------- MODULE MigrationsProofs ---------------------------
(***************************************************************************)
(* Migrations, for any number of instances, crashes, users and addresses:  *)
(* an instance serves on the unique index only, no start takes a user from *)
(* an instance that serves, and no start loses an address.                 *)
(***************************************************************************)
EXTENDS Migrations, WellFoundedInduction, TLAPS

\* What a recorded migration 2 and a run that is past it stand for.
Done == {"applied", "changed"}

\* Where a run has the lock.
Running == {"check", "begin", "dedup", "index", "mark", "unlock"}

\* What a run has read of migration 2 stays true, as the index is never dropped,
\* and what it is about to do fits where it is.
RunOK(i) ==
  /\ pc[i] \in Running => lock = i
  /\ seen[i][2] \in Done => indexed
  /\ pc[i] \in {"unlock", "serve"} => indexed
  /\ pc[i] = "mark" /\ at[i] = 2 => indexed
  /\ pc[i] \in {"dedup", "index", "mark"} => table
  /\ pc[i] \in {"dedup", "index"} => at[i] = 2

MigrationsInv ==
  /\ TypeOK
  /\ ledger[2] \in Done => indexed
  /\ \A i \in Instances : RunOK(i)

\* The first of some versions is one of them.
LEMMA MinIsVersion ==
  ASSUME NEW S \in SUBSET Versions, S # {}
  PROVE  Min(S) \in S
<1>1. \E x \in S : \A y \in S : x <= y
  <2>1. CASE 1 \in S
    BY <2>1 DEF Versions
  <2>2. CASE 1 \notin S
    BY <2>2, 2 \in S DEF Versions
  <2> QED
    BY <2>1, <2>2
<1> QED
  BY <1>1 DEF Min

\* A run that goes on is at home where it goes, if it read the ledger truly.
LEMMA ProceedsKeeps ==
  ASSUME MigrationsInv, NEW i \in Instances, NEW v \in {1, 2, 3},
         NEW rows \in [Versions -> Row],
         rows[2] \in Done => indexed,
         v = 3 => indexed,
         lock = i,
         Proceeds(i, v, rows)
  PROVE  /\ pc' \in [Instances -> {"off", "lock", "check", "begin", "dedup", "index",
                                   "mark", "unlock", "delete", "serve"}]
         /\ at' \in [Instances -> Versions]
         /\ lock' \in Instances \cup {None} /\ kept' \in BOOLEAN
         /\ kept' => lock' # None
         /\ pc'[i] \in Running => lock' = i
         /\ \A j \in Instances \ {i} : pc'[j] = pc[j] /\ at'[j] = at[j]
         /\ pc'[i] \in {"unlock", "begin", "off", "delete"}
         /\ pc'[i] = "unlock" => indexed
<1> DEFINE left == {w \in Versions : w >= v /\ rows[w] # "applied"}
<1>1. left # {} => Min(left) \in left
  BY MinIsVersion
<1>2. left = {} => indexed
  BY DEF Versions, Done
<1>3. CASE left = {} /\ Goes(i, "unlock") /\ UNCHANGED <<at, held>>
  BY <1>2, <1>3 DEF MigrationsInv, TypeOK, Goes, held, Running
<1>4. CASE left # {} /\ rows[Min(left)] = "changed" /\ Fails(i, Min(left))
  BY <1>1, <1>4, MigrationsAssumption DEF MigrationsInv, TypeOK, Goes, Fails, AfterFailure, Running
<1>5. CASE /\ left # {} /\ rows[Min(left)] = "absent"
           /\ at' = [at EXCEPT ![i] = Min(left)]
           /\ Goes(i, "begin")
           /\ UNCHANGED held
  BY <1>1, <1>5 DEF MigrationsInv, TypeOK, Goes, held, Running
<1> QED
  BY <1>3, <1>4, <1>5 DEF Proceeds

\* The states a start may find.
LEMMA InitHolds == Init => MigrationsInv
<1> SUFFICES ASSUME Init PROVE MigrationsInv
  OBVIOUS
<1> USE MigrationsAssumption DEF Init
<1>1. \A i \in Instances : RunOK(i)
  BY DEF RunOK, Running, Done, Versions, Row
<1>2. users \subseteq User /\ next \in 1..(MaxRows + 1)
  <2>1. next \in 1..3 /\ MaxRows >= 2
    OBVIOUS
  <2>2. PICK owner \in [1..(next - 1) -> Emails] :
          users = {[id |-> n, email |-> owner[n]] : n \in 1..(next - 1)}
    OBVIOUS
  <2>3. \A n \in 1..(next - 1) : n \in 1..MaxRows
    BY <2>1
  <2> QED
    BY <2>1, <2>2, <2>3 DEF User
<1>3. indexed => table /\ Unique(users)
  OBVIOUS
<1>4. kept \in BOOLEAN /\ (kept => lock # None)
  OBVIOUS
<1>5. ledger \in [Versions -> Row] /\ seen \in [Instances -> [Versions -> Row]]
  BY DEF Versions, Row
<1>6. /\ pc \in [Instances -> {"off", "lock", "check", "begin", "dedup", "index",
                              "mark", "unlock", "delete", "serve"}]
      /\ at \in [Instances -> Versions] /\ retried \in [Instances -> BOOLEAN]
      /\ lock \in Instances \cup {None} /\ table \in BOOLEAN /\ indexed \in BOOLEAN
      /\ crashes \in 0..MaxCrashes
  BY DEF Versions
<1>7. TypeOK
  BY <1>2, <1>3, <1>4, <1>5, <1>6 DEF TypeOK
<1> QED
  BY <1>1, <1>7 DEF MigrationsInv, Done, Versions, Row

\* Rows that are taken away, or one whose address is new, leave addresses unique.
LEMMA UniqueSubset ==
  ASSUME NEW R, NEW S \in SUBSET R, Unique(R)
  PROVE  Unique(S)
BY DEF Unique

\* The one step that takes rows away: it keeps the eldest row of each address,
\* and all rows where addresses are unique.
LEMMA EldestOfUnique ==
  ASSUME NEW R \in SUBSET User, Unique(R)
  PROVE  Eldest(R) = R
BY DEF Unique, Eldest, User

\* One step of an instance.
LEMMA StepKeeps ==
  ASSUME MigrationsInv, NEW i \in Instances, Step(i)
  PROVE  MigrationsInv'
<1> USE DEF MigrationsInv
<1>t. TypeOK /\ \A j \in Instances : RunOK(j)
  OBVIOUS
<1>1. CASE Start(i)
  BY <1>1 DEF Start, Goes, held, database, TypeOK, RunOK, Running
<1>2. CASE Lock(i)
  BY <1>2, MigrationsAssumption DEF Lock, Goes, database, TypeOK, RunOK, Running
<1>3. CASE Check(i)
  <2> DEFINE dirty == {v \in Versions : ledger[v] = "unfinished"}
  <2>1. /\ seen' = [seen EXCEPT ![i] = ledger]
        /\ UNCHANGED <<retried, database, crashes>>
    BY <1>3 DEF Check
  <2>0. lock = i /\ i # None
    BY <1>3, MigrationsAssumption DEF Check, RunOK, Running
  <2>2. /\ pc' \in [Instances -> {"off", "lock", "check", "begin", "dedup", "index",
                                  "mark", "unlock", "delete", "serve"}]
        /\ at' \in [Instances -> Versions]
        /\ lock' \in Instances \cup {None} /\ kept' \in BOOLEAN
        /\ kept' => lock' # None
        /\ pc'[i] \in Running => lock' = i
        /\ \A j \in Instances \ {i} : pc'[j] = pc[j] /\ at'[j] = at[j]
        /\ pc'[i] \in {"unlock", "begin", "off", "delete"}
        /\ pc'[i] = "unlock" => indexed
    <3>1. CASE dirty # {} /\ Fails(i, Min(dirty))
      <4>1. Min(dirty) \in Versions
        BY <3>1, MinIsVersion
      <4> QED
        BY <3>1, <4>1, <2>0 DEF Fails, Goes, AfterFailure, TypeOK, Running
    <3>2. CASE Proceeds(i, 1, ledger)
      BY <3>2, <2>0, ProceedsKeeps DEF TypeOK
    <3> QED
      BY <1>3, <3>1, <3>2 DEF Check
  <2> QED
    BY <2>0, <2>1, <2>2 DEF TypeOK, RunOK, Running, database
<1>4. CASE Begin(i)
  BY <1>4 DEF Begin, Goes, held, TypeOK, RunOK, Running, Versions, Row, Done
<1>5. CASE Dedup(i)
  <2>1. Eldest(users) \subseteq users
    BY DEF Eldest
  <2>2. Unique(users) => Unique(Eldest(users))
    BY <2>1, UniqueSubset
  <2> QED
    BY <1>5, <2>1, <2>2 DEF Dedup, Goes, held, TypeOK, RunOK, Running
<1>6. CASE AddIndex(i)
  BY <1>6 DEF AddIndex, Goes, held, TypeOK, RunOK, Running
<1>7. CASE Mark(i)
  <2>1. Proceeds(i, at[i] + 1, seen[i]) /\ pc[i] = "mark"
    BY <1>7 DEF Mark
  <2>2. at[i] + 1 \in {1, 2, 3} /\ (at[i] + 1 = 3 => at[i] = 2)
    BY DEF TypeOK, Versions
  <2>3. seen[i] \in [Versions -> Row] /\ (seen[i][2] \in Done => indexed)
    BY DEF TypeOK, RunOK
  <2>4. lock = i /\ (at[i] = 2 => indexed)
    BY <2>1 DEF RunOK, Running
  <2>5. /\ pc' \in [Instances -> {"off", "lock", "check", "begin", "dedup", "index",
                                  "mark", "unlock", "delete", "serve"}]
        /\ at' \in [Instances -> Versions]
        /\ lock' \in Instances \cup {None} /\ kept' \in BOOLEAN
        /\ kept' => lock' # None
        /\ pc'[i] \in Running => lock' = i
        /\ \A j \in Instances \ {i} : pc'[j] = pc[j] /\ at'[j] = at[j]
        /\ pc'[i] \in {"unlock", "begin", "off", "delete"}
        /\ pc'[i] = "unlock" => indexed
    BY <2>1, <2>2, <2>3, <2>4, ProceedsKeeps
  <2>6. ledger' \in [Versions -> Row] /\ (ledger'[2] \in Done => indexed)
    BY <1>7, <2>4 DEF Mark, TypeOK, Versions, Row, Done
  <2> QED
    BY <1>7, <2>5, <2>6 DEF Mark, TypeOK, RunOK, Running
<1>8. CASE Unlock(i)
  BY <1>8 DEF Unlock, Goes, database, TypeOK, RunOK, Running
<1>9. CASE Delete(i)
  BY <1>9 DEF Delete, Goes, held, TypeOK, RunOK, Running, Versions, Row, Done
<1> QED
  BY <1>1, <1>2, <1>3, <1>4, <1>5, <1>6, <1>7, <1>8, <1>9 DEF Step

\* A crash, a connection that is closed, and a registration.
LEMMA OthersKeep ==
  ASSUME MigrationsInv,
         (\E i \in Instances : Crash(i) \/ Reap(i)) \/ (\E e \in Emails : Insert(e))
  PROVE  MigrationsInv'
<1> USE DEF MigrationsInv
<1>1. ASSUME NEW i \in Instances, Crash(i) PROVE MigrationsInv'
  <2>1. kept' \in BOOLEAN /\ (kept' => lock' # None)
    BY <1>1 DEF Crash, TypeOK
  <2>2. /\ pc' \in [Instances -> {"off", "lock", "check", "begin", "dedup", "index",
                                  "mark", "unlock", "delete", "serve"}]
        /\ lock' \in Instances \cup {None} /\ crashes' \in 0..MaxCrashes
    BY <1>1, MigrationsAssumption DEF Crash, Goes, TypeOK
  <2>3. TypeOK'
    BY <1>1, <2>1, <2>2 DEF Crash, database, TypeOK
  <2>4. ASSUME NEW j \in Instances PROVE RunOK(j)'
    BY <1>1 DEF Crash, Goes, database, TypeOK, RunOK, Running
  <2> QED
    BY <1>1, <2>3, <2>4 DEF Crash, database
<1>2. ASSUME NEW i \in Instances, Reap(i) PROVE MigrationsInv'
  BY <1>2 DEF Reap, local, database, TypeOK, RunOK, Running
<1>3. ASSUME NEW e \in Emails, Insert(e) PROVE MigrationsInv'
  <2> DEFINE new == [id |-> next, email |-> e]
  <2>1. next \in 1..MaxRows /\ next' \in 1..(MaxRows + 1)
    BY <1>3, MigrationsAssumption DEF Insert, TypeOK
  <2>2. new \in User
    BY <2>1 DEF User
  <2>3. indexed => Unique(users \cup {new})
    BY <1>3 DEF Insert, Accepts, TypeOK, Unique
  <2> QED
    BY <1>3, <2>1, <2>2, <2>3 DEF Insert, local, held, TypeOK, RunOK
<1> QED
  BY <1>1, <1>2, <1>3

\* The invariant is inductive.
THEOREM MigrationsInvariant == Spec => []MigrationsInv
<1>1. MigrationsInv /\ [Next]_vars => MigrationsInv'
  <2> SUFFICES ASSUME MigrationsInv, [Next]_vars PROVE MigrationsInv'
    OBVIOUS
  <2>1. CASE UNCHANGED vars
    BY <2>1 DEF vars, local, held, database, MigrationsInv, TypeOK, RunOK
  <2>2. CASE Next
    BY <2>2, StepKeeps, OthersKeep DEF Next
  <2> QED
    BY <2>1, <2>2
<1> QED
  BY InitHolds, <1>1, PTL DEF Spec

\* The types of the variables, and the index holds (TypeOK).
THEOREM MigrationsTypeCorrect == Spec => []TypeOK
<1>1. MigrationsInv => TypeOK
  BY DEF MigrationsInv
<1> QED
  BY <1>1, MigrationsInvariant, PTL

\* An instance that serves, serves on the unique index.
THEOREM ServesIndexed == Spec => []ServingMeansIndexed
<1>1. MigrationsInv => ServingMeansIndexed
  BY DEF MigrationsInv, RunOK, ServingMeansIndexed
<1> QED
  BY <1>1, MigrationsInvariant, PTL

\* Users are taken away by the deduplication only.
LEMMA OnlyDedupRemoves ==
  ASSUME [Next]_vars
  PROVE  users \subseteq users' \/ users' = Eldest(users)
<1>1. CASE UNCHANGED vars
  BY <1>1 DEF vars, database
<1>2. ASSUME NEW i \in Instances, Step(i) \/ Reap(i) \/ Crash(i)
      PROVE  users \subseteq users' \/ users' = Eldest(users)
  BY <1>2 DEF Step, Start, Lock, Check, Begin, Dedup, AddIndex, Mark, Unlock,
              Delete, Reap, Crash, local, database
<1>3. ASSUME NEW e \in Emails, Insert(e) PROVE users \subseteq users'
  BY <1>3 DEF Insert
<1> QED
  BY <1>1, <1>2, <1>3 DEF Next

\* No start takes a user from an instance that serves.
THEOREM ServingKeeps == Spec => ServingKeepsUsers
<1>1. ASSUME MigrationsInv, [Next]_vars, \E i \in Instances : pc[i] = "serve"
      PROVE  users \subseteq users'
  <2>1. users \in SUBSET User /\ Unique(users)
    BY <1>1 DEF MigrationsInv, RunOK, TypeOK
  <2> QED
    BY <1>1, <2>1, OnlyDedupRemoves, EldestOfUnique
<1>2. MigrationsInv /\ [Next]_vars
        => [(\E i \in Instances : pc[i] = "serve") => users \subseteq users']_vars
  BY <1>1
<1> QED
  BY <1>2, MigrationsInvariant, PTL DEF Spec, ServingKeepsUsers

Below == OpToRel(<, Nat)

\* Every nonempty set of natural numbers has a least element.
LEMMA LeastExists ==
  ASSUME NEW T, T \subseteq Nat, T # {}
  PROVE  \E n \in T : \A m \in T : n <= m
<1>1. IsWellFoundedOn(Below, Nat)
  BY NatLessThanWellFounded, Zenon DEF Below
<1>2. PICK n \in T : \A m \in T : ~ (<<m, n>> \in Below)
  BY <1>1, WFMin, Zenon
<1>3. \A m \in Nat : m < n => <<m, n>> \in Below
  BY DEF Below, OpToRel
<1>4. \A m \in T : m \in Nat /\ ~ (m < n)
  BY <1>2, <1>3
<1>5. \A m \in T : n <= m
  BY <1>4
<1> QED
  BY <1>5

\* Among the rows of one address there is an eldest.
LEMMA EldestExists ==
  ASSUME NEW R \in SUBSET User, NEW u \in R
  PROVE  \E v \in Eldest(R) : v.email = u.email /\ v.id <= u.id
<1> DEFINE ids == {v.id : v \in {w \in R : w.email = u.email}}
<1>1. ids \in SUBSET Nat /\ u.id \in ids
  BY DEF User
<1>2. PICK n \in ids : \A m \in ids : n <= m
  <2> HIDE DEF ids
  <2> QED
    BY <1>1, LeastExists
<1>3. PICK v \in R : v.email = u.email /\ v.id = n
  OBVIOUS
<1>4. v \in Eldest(R)
  BY <1>1, <1>2, <1>3 DEF Eldest
<1> QED
  BY <1>1, <1>2, <1>3, <1>4

\* No start loses an address.
THEOREM EldestStays == Spec => EldestSurvive
<1> DEFINE Kept == \A u \in users \ users' :
                     \E v \in users' : v.email = u.email /\ v.id < u.id
<1>1. ASSUME MigrationsInv, [Next]_vars, NEW u \in users \ users'
      PROVE  \E v \in users' : v.email = u.email /\ v.id < u.id
  <2>1. users \in SUBSET User /\ users' = Eldest(users)
    BY <1>1, OnlyDedupRemoves DEF MigrationsInv, TypeOK
  <2>2. PICK w \in users : w.email = u.email /\ ~ (w.id >= u.id)
    BY <1>1, <2>1 DEF Eldest
  <2>3. PICK v \in Eldest(users) : v.email = w.email /\ v.id <= w.id
    BY <2>1, EldestExists
  <2>4. v \in users /\ v.id \in Nat /\ w.id \in Nat /\ u.id \in Nat
    BY <1>1, <2>1, <2>3 DEF Eldest, User
  <2> QED
    BY <2>1, <2>2, <2>3, <2>4
<1>2. MigrationsInv /\ [Next]_vars => [Kept]_vars
  BY <1>1
<1> QED
  BY <1>2, MigrationsInvariant, PTL DEF Spec, EldestSurvive
==============================================================================
