---------------------------- MODULE MCUserService ----------------------------
(***************************************************************************)
(* UserService for TLC: two addresses, one of them also typed in another   *)
(* case, an address that does not validate, and two passwords.             *)
(***************************************************************************)
EXTENDS UserService, TLC

CONSTANTS r1, r2, r3, i1, i2, i3, ann, Ann, bob, nonsense, pw1, pw2

MCCanonical ==
  (ann :> ann) @@ (Ann :> ann) @@ (bob :> bob) @@ (nonsense :> bob)

Ask(op, id, email, password) ==
  [op |-> op, id |-> id, email |-> email, password |-> password]

Ann1 == [email |-> ann, password |-> pw1]
Bob1 == [email |-> bob, password |-> pw1]

\* An empty table, and one that holds ann, or ann and bob.
MCEmpty == {[i \in {} |-> Ann1]}
MCAnn == {i1 :> Ann1}
MCAnnBob == {(i1 :> Ann1) @@ (i2 :> Bob1)}

\* Two ways to create ann, one to create bob; user i1 renamed to bob, updated
\* without an address, removed, shown; a login that any of them may meet.
MCWrites ==
  {Ask("register", Absent, Ann, pw1), Ask("store", Absent, ann, pw2),
   Ask("register", Absent, nonsense, pw1), Ask("register", Absent, bob, pw1),
   Ask("update", i1, bob, Absent), Ask("update", i1, Absent, Absent),
   Ask("destroy", i1, Absent, Absent), Ask("show", i1, Absent, Absent),
   Ask("login", Absent, Ann, pw1)}

\* Logins of ann and bob, among registrations, renamings and removals.
MCLogins ==
  {Ask("login", Absent, Ann, pw1), Ask("login", Absent, ann, pw2),
   Ask("login", Absent, bob, pw1), Ask("register", Absent, Ann, pw2),
   Ask("update", i1, bob, Absent), Ask("update", i2, Ann, Absent),
   Ask("destroy", i1, Absent, Absent)}

\* A new password for ann.
MCPasswords == {Ask("update", i1, Absent, pw2)}

RequestSymmetry == Permutations({r1, r2, r3})
==============================================================================
