----------------------------- MODULE Migrations -----------------------------
(***************************************************************************)
(* The start of an instance: establish_connection() runs the two           *)
(* migrations and recovers once (src/src/config/database.rs).  Several     *)
(* instances start against one database, an older release may still be     *)
(* writing to it, and an instance may crash, or lose the database and      *)
(* exit, between any two statements.                                       *)
(*                                                                         *)
(* sqlx's migrator and MySQL are modelled as this code uses them: a run    *)
(* holds an advisory lock and reads the ledger _sqlx_migrations once; a    *)
(* migration's row is inserted unfinished and committed by its first DDL   *)
(* statement, whatever follows commits by itself.  A run that fails ends   *)
(* without unlocking, and its connection goes back to the pool and keeps   *)
(* the lock until the pool closes it; GET_LOCK is granted again, and once  *)
(* more to be released, to the connection that has it already.             *)
(***************************************************************************)
EXTENDS Naturals, FiniteSets, FiniteSetsExt

CONSTANTS
  Instances,
  Emails,      \* addresses, as the collation compares them
  None,        \* nobody
  MaxRows,     \* bound of the model: the ids of users
  MaxCrashes   \* bound of the model: crashes

ASSUME MigrationsAssumption ==
  /\ None \notin Instances
  /\ MaxRows \in Nat \ {0, 1}
  /\ MaxCrashes \in Nat

\* 1 creates the table, 2 adds the unique index.
Versions == {1, 2}

\* "changed": applied from another text of the file, with another checksum.
Row == {"absent", "unfinished", "applied", "changed"}

User == [id : 1..MaxRows, email : Emails]

VARIABLES
  pc,       \* instance |-> its next statement
  at,       \* instance |-> the migration it is about
  retried,  \* instance |-> whether this is the run after a recovery
  seen,     \* instance |-> the ledger as its run has read it
  lock,     \* whose pool holds the advisory lock
  kept,     \* a connection has kept it from a run that failed
  ledger,   \* version |-> its row in _sqlx_migrations
  table,    \* the table users exists
  indexed,  \* it has the index ux_users_email
  users,    \* its rows
  next,     \* its next AUTO_INCREMENT
  crashes   \* bound of the model: crashes so far

local == <<pc, at, retried, seen>>
held == <<lock, kept>>
database == <<ledger, table, indexed, users, next>>
vars == <<local, held, database, crashes>>

-----------------------------------------------------------------------------
Unique(rows) == \A u, v \in rows : u.email = v.email => u = v

\* The types of the variables; the index holds.
TypeOK ==
  /\ pc \in [Instances -> {"off", "lock", "check", "begin", "dedup", "index",
                           "mark", "unlock", "delete", "serve"}]
  /\ at \in [Instances -> Versions]
  /\ retried \in [Instances -> BOOLEAN]
  /\ seen \in [Instances -> [Versions -> Row]]
  /\ lock \in Instances \cup {None}
  /\ kept \in BOOLEAN /\ (kept => lock # None)
  /\ ledger \in [Versions -> Row]
  /\ table \in BOOLEAN
  /\ indexed \in BOOLEAN /\ (indexed => table /\ Unique(users))
  /\ users \subseteq User
  /\ next \in 1..(MaxRows + 1)
  /\ crashes \in 0..MaxCrashes

\* A fresh database, or what an earlier release left: a migration recorded as
\* applied has done its work.
Init ==
  /\ pc = [i \in Instances |-> "off"]
  /\ at = [i \in Instances |-> 1]
  /\ retried = [i \in Instances |-> FALSE]
  /\ ledger \in [Versions -> Row \ {"unfinished"}]
  /\ seen = [i \in Instances |-> ledger]
  /\ lock = None /\ kept = FALSE
  /\ table \in BOOLEAN /\ indexed \in BOOLEAN
  /\ ledger[1] # "absent" => table
  /\ ledger[2] # "absent" => indexed
  /\ next \in 1..3
  /\ users \in {{[id |-> n, email |-> owner[n]] : n \in 1..(next - 1)} :
                 owner \in [1..(next - 1) -> Emails]}
  /\ users # {} => table
  /\ indexed => table /\ Unique(users)
  /\ crashes = 0

-----------------------------------------------------------------------------
Goes(i, step) == pc' = [pc EXCEPT ![i] = step]

\* A mutation: after a failed retry the process serves all the same.
ServesAnyway(again) == IF again THEN "serve" ELSE "delete"

\* A mutation: there is no recovery.
ExitsAtOnce(again) == "off"

\* delete_and_retry() follows a first failure, the second ends the process.
AfterFailure(again) == IF again THEN "off" ELSE "delete"

\* The run ends with Dirty(v) or VersionMismatch(v), and nothing unlocks: the
\* connection has the lock until the process ends, if it does not end at once.
Fails(i, v) ==
  LET then == AfterFailure(retried[i])
  IN /\ at' = [at EXCEPT ![i] = v]
     /\ Goes(i, then)
     /\ lock' = IF then = "off" THEN None ELSE lock
     /\ kept' = (then # "off")

\* The run goes on with the first migration from v on that is not as it should
\* be, as far as this run has read the ledger.
Proceeds(i, v, rows) ==
  LET left == {w \in Versions : w >= v /\ rows[w] # "applied"}
  IN \/ left = {} /\ Goes(i, "unlock") /\ UNCHANGED <<at, held>>
     \/ left # {} /\ rows[Min(left)] = "changed" /\ Fails(i, Min(left))
     \/ /\ left # {} /\ rows[Min(left)] = "absent"
        /\ at' = [at EXCEPT ![i] = Min(left)]
        /\ Goes(i, "begin")
        /\ UNCHANGED held

\* The process starts and the pool is connected.
Start(i) ==
  /\ pc[i] = "off"
  /\ Goes(i, "lock")
  /\ retried' = [retried EXCEPT ![i] = FALSE]
  /\ UNCHANGED <<at, seen, held, database, crashes>>

\* GET_LOCK waits for as long as it takes, for a connection of its own pool too.
Lock(i) ==
  /\ pc[i] = "lock" /\ lock = None
  /\ lock' = i
  /\ Goes(i, "check")
  /\ UNCHANGED <<at, retried, seen, kept, database, crashes>>

\* The run reads the ledger: the smallest unfinished version is Dirty.
Check(i) ==
  /\ pc[i] = "check"
  /\ seen' = [seen EXCEPT ![i] = ledger]
  /\ LET dirty == {v \in Versions : ledger[v] = "unfinished"}
     IN \/ dirty # {} /\ Fails(i, Min(dirty))
        \/ dirty = {} /\ Proceeds(i, 1, ledger)
  /\ UNCHANGED <<retried, database, crashes>>

\* The row is inserted and committed by CREATE TABLE IF NOT EXISTS.
Begin(i) ==
  /\ pc[i] = "begin"
  /\ ledger' = [ledger EXCEPT ![at[i]] = "unfinished"]
  /\ table' = TRUE
  /\ Goes(i, IF at[i] = 1 THEN "mark" ELSE "dedup")
  /\ UNCHANGED <<at, retried, seen, held, indexed, users, next, crashes>>

\* A mutation: u1.id < u2.id.
Youngest(rows) == {u \in rows : \A v \in rows : v.email = u.email => v.id <= u.id}

\* DELETE u1 ... ON u1.email = u2.email AND u1.id > u2.id
Eldest(rows) == {u \in rows : \A v \in rows : v.email = u.email => v.id >= u.id}

Dedup(i) ==
  /\ pc[i] = "dedup"
  /\ users' = Eldest(users)
  /\ Goes(i, "index")
  /\ UNCHANGED <<at, retried, seen, held, ledger, table, indexed, next, crashes>>

\* ALTER TABLE, unless the index is there; a duplicate that came in meanwhile
\* makes it fail, with an error that establish_connection() does not recover from.
AddIndex(i) ==
  /\ pc[i] = "index"
  /\ IF indexed \/ Unique(users)
     THEN indexed' = TRUE /\ Goes(i, "mark") /\ UNCHANGED held
     ELSE lock' = None /\ kept' = FALSE /\ Goes(i, "off") /\ UNCHANGED indexed
  /\ UNCHANGED <<at, retried, seen, ledger, table, users, next, crashes>>

\* UPDATE: there may be no row any more.
Mark(i) ==
  /\ pc[i] = "mark"
  /\ ledger' = [ledger EXCEPT ![at[i]] = IF @ = "absent" THEN @ ELSE "applied"]
  /\ Proceeds(i, at[i] + 1, seen[i])
  /\ UNCHANGED <<retried, seen, table, indexed, users, next, crashes>>

\* RELEASE_LOCK releases once: a lock that was kept and taken again stays.
Unlock(i) ==
  /\ pc[i] = "unlock"
  /\ lock' = IF kept THEN lock ELSE None
  /\ Goes(i, "serve")
  /\ UNCHANGED <<at, retried, seen, kept, database, crashes>>

\* delete_and_retry(): the row is deleted whoever has the lock.  The retry gets
\* the connection that has kept the lock, and need not wait, or another one.
Delete(i) ==
  /\ pc[i] = "delete"
  /\ ledger' = [ledger EXCEPT ![at[i]] = "absent"]
  /\ retried' = [retried EXCEPT ![i] = TRUE]
  /\ Goes(i, "lock") \/ (lock = i /\ Goes(i, "check"))
  /\ UNCHANGED <<at, seen, held, table, indexed, users, next, crashes>>

\* The pool closes the connection that has kept the lock while it lies idle, as
\* sqlx's idle_timeout and max_lifetime, which the code leaves alone, let it.
Reap(i) ==
  /\ lock = i /\ kept /\ pc[i] \in {"delete", "lock", "serve"}
  /\ lock' = None /\ kept' = FALSE
  /\ UNCHANGED <<local, database, crashes>>

\* The process is killed, or exits because the database does not answer; its
\* connections are closed, and with them the lock.
Crash(i) ==
  /\ pc[i] # "off" /\ crashes < MaxCrashes
  /\ crashes' = crashes + 1
  /\ lock' = IF lock = i THEN None ELSE lock
  /\ kept' = (kept /\ lock # i)
  /\ Goes(i, "off")
  /\ UNCHANGED <<at, retried, seen, database>>

\* A mutation: the index on the address is not UNIQUE.
AcceptsAll(e) == TRUE

Accepts(e) == indexed => \A u \in users : u.email # e

\* A registration, by an instance that serves or by an older release.
Insert(e) ==
  /\ table /\ next <= MaxRows
  /\ Accepts(e)
  /\ users' = users \cup {[id |-> next, email |-> e]}
  /\ next' = next + 1
  /\ UNCHANGED <<local, held, ledger, table, indexed, crashes>>

Step(i) ==
  \/ Start(i) \/ Lock(i) \/ Check(i) \/ Begin(i) \/ Dedup(i) \/ AddIndex(i)
  \/ Mark(i) \/ Unlock(i) \/ Delete(i)

Next ==
  \/ \E i \in Instances : Step(i) \/ Reap(i) \/ Crash(i)
  \/ \E e \in Emails : Insert(e)

\* Whoever runs the service starts an instance again that has ended; GET_LOCK
\* is granted to who keeps waiting for it.  That the pool ever closes a connection
\* is not assumed.
Spec ==
  /\ Init /\ [][Next]_vars
  /\ \A i \in Instances : WF_vars(Step(i)) /\ SF_vars(Lock(i))

-----------------------------------------------------------------------------
(* Properties                                                              *)

\* An instance serves only on a table whose addresses are unique and stay so,
\* whoever crashed, retried or deleted a row of the ledger meanwhile: register
\* and store rely on the index to turn a duplicate away.
ServingMeansIndexed == (\E i \in Instances : pc[i] = "serve") => indexed

\* No start loses an address: a user is removed only as the later duplicate of
\* one that stays.
EldestSurvive ==
  [][\A u \in users \ users' :
       \E v \in users' : v.email = u.email /\ v.id < u.id]_vars

\* A start takes no user away from an instance that serves, though it may run
\* the deduplication again next to it.
ServingKeepsUsers ==
  [][(\E i \in Instances : pc[i] = "serve") => users \subseteq users']_vars

\* However starts, crashes and recoveries cross, starting an instance over and
\* over brings it up, and no ledger keeps it down for good.  What can is the lock
\* that a failed run has left to a pool: then all that do not serve wait for it,
\* the instance that recovers included, and nothing in this code ends the wait.
OnlyAKeptLockBlocks ==
  \/ \A i \in Instances : []<>(pc[i] = "serve")
  \/ <>[](kept /\ \A i \in Instances : pc[i] \in {"lock", "serve"})
=============================================================================
