------------------------------ MODULE UserPages ------------------------------
(***************************************************************************)
(* GET /users: index() of src/src/handlers/user_handler.rs selects one     *)
(* page of the users and then counts them all, in two statements, while    *)
(* users are registered and removed.  A client walks through the pages.    *)
(*                                                                         *)
(* A user is its id; ids are AUTO_INCREMENT.  An INSERT has its id before  *)
(* its row can be seen, so rows may come to light in another order.        *)
(***************************************************************************)
EXTENDS Integers, FiniteSets

CONSTANTS
  Walkers,         \* clients that read all the pages
  PageParams,      \* the parameter page of a first request
  PerParams,       \* the parameter per_page
  Missing,         \* a parameter that is not given
  DefaultPer,      \* 50 in the code
  MaxPer,          \* 100 in the code
  MaxId            \* bound of the model: the ids given out

ASSUME PagesAssumption ==
  /\ Missing \notin Nat
  /\ PageParams \subseteq {Missing, 0, 1}
  /\ PerParams \subseteq Nat \cup {Missing}
  /\ DefaultPer \in 1..MaxPer
  /\ MaxPer \in Nat
  /\ MaxId \in Nat

VARIABLES
  users,   \* the ids in the table, as a SELECT finds them
  coming,  \* the ids of INSERTs that are not committed
  next,    \* the next AUTO_INCREMENT
  walk     \* walker |-> its request, what it has seen, and what others did

table == <<users, coming, next>>
vars == <<table, walk>>

Ids == 1..MaxId

Walk == [pc       : {"off", "ask", "select", "count", "walked"},
         page     : Nat,
         per      : Nat,
         shown    : SUBSET Ids,
         total    : Nat,
         seen     : SUBSET Ids,
         repeated : Nat,          \* history: how often it got one it had seen
         late     : Nat,          \* history: see Late
         stayed   : SUBSET Ids,   \* history: there since the walk began
         removed  : Nat,          \* history: removals since then
         lost     : Nat,          \* history: removals between the statements
         added    : Nat]          \* history: registrations between them

NoWalk == [pc |-> "off", page |-> 1, per |-> 1, shown |-> {}, total |-> 0,
           seen |-> {}, repeated |-> 0, late |-> 0, stayed |-> {},
           removed |-> 0, lost |-> 0, added |-> 0]

\* The types; a page is no longer than the limit.
TypeOK ==
  /\ next \in 1..(MaxId + 1)
  /\ users \subseteq 1..(next - 1)
  /\ coming \subseteq 1..(next - 1)
  /\ walk \in [Walkers -> Walk]
  /\ \A w \in Walkers : walk[w].page >= 1 /\ walk[w].per \in 1..MaxPer
  /\ \A w \in Walkers : Cardinality(walk[w].shown) <= walk[w].per

Init ==
  /\ next \in 1..(MaxId + 1)
  /\ users \in SUBSET (1..(next - 1))
  /\ coming = {}
  /\ walk = [w \in Walkers |-> NoWalk]

-----------------------------------------------------------------------------
(* What a request asks for                                                 *)

Given(param, default) == IF param = Missing THEN default ELSE param

\* params.page.unwrap_or(1).max(1)
PageOf(param) == IF Given(param, 1) < 1 THEN 1 ELSE Given(param, 1)

\* A mutation: per_page has no upper bound.
PerUnclamped(param) ==
  IF Given(param, DefaultPer) < 1 THEN 1 ELSE Given(param, DefaultPer)

\* params.per_page.unwrap_or(50).clamp(1, 100)
PerOf(param) ==
  LET per == Given(param, DefaultPer)
  IN IF per < 1 THEN 1 ELSE IF per > MaxPer THEN MaxPer ELSE per

\* A mutation: the first page is skipped.
OffsetOne(page, per) == page * per

Offset(page, per) == (page - 1) * per

\* A mutation: ORDER BY id DESC.
RankNewest(u, rows) == Cardinality({v \in rows : v >= u})

\* The place of a row in ORDER BY id, from 1.
Rank(u, rows) == Cardinality({v \in rows : v <= u})

\* LIMIT limit OFFSET offset
Rows(rows, limit, offset) ==
  {u \in rows : offset < Rank(u, rows) /\ Rank(u, rows) <= offset + limit}

\* A mutation: the total is taken from the page.
CountShown(w) == Cardinality(walk[w].shown)

\* SELECT COUNT(1) FROM users
Count(w) == Cardinality(users)

-----------------------------------------------------------------------------
Goes(w, fields) == walk' = [walk EXCEPT ![w] = fields]

Begin(w, page, per) ==
  /\ walk[w].pc = "off"
  /\ Goes(w, [NoWalk EXCEPT !.pc = "select", !.page = PageOf(page),
                            !.per = PerOf(per), !.stayed = users])
  /\ UNCHANGED table

Select(w) ==
  /\ walk[w].pc = "select"
  /\ LET page == Rows(users, walk[w].per, Offset(walk[w].page, walk[w].per))
     IN Goes(w, [walk[w] EXCEPT !.pc = "count", !.shown = page,
                                !.lost = 0, !.added = 0])
  /\ UNCHANGED table

\* Both statements worked: the client gets the page and the total.
CountAll(w) ==
  /\ walk[w].pc = "count"
  /\ Goes(w, [walk[w] EXCEPT
       !.pc = "ask", !.total = Count(w), !.seen = @ \cup walk[w].shown,
       !.repeated = @ + Cardinality(walk[w].shown \cap walk[w].seen)])
  /\ UNCHANGED table

\* One of them failed; the other is executed all the same.  The answer is 500,
\* and the client asks for this page again.
Breaks(w) ==
  /\ walk[w].pc = "count"
  /\ Goes(w, [walk[w] EXCEPT !.pc = "select", !.shown = {}])
  /\ UNCHANGED table

\* The client asks for the next page until one is not full.
Ask(w) ==
  /\ walk[w].pc = "ask"
  /\ Goes(w, IF Cardinality(walk[w].shown) < walk[w].per
             THEN [walk[w] EXCEPT !.pc = "walked"]
             ELSE [walk[w] EXCEPT !.pc = "select", !.page = @ + 1, !.shown = {}])
  /\ UNCHANGED table

-----------------------------------------------------------------------------
(* Other requests                                                          *)

Walking(w) == walk[w].pc \in {"select", "count", "ask"}

\* An INSERT begins: AUTO_INCREMENT gives out no id twice.
Allocate ==
  /\ next <= MaxId
  /\ coming' = coming \cup {next}
  /\ next' = next + 1
  /\ UNCHANGED <<users, walk>>

\* The walk has read a user whose id is later.
Late(w, n) == \E u \in users \cap (walk[w].seen \cup walk[w].shown) : n < u

\* It is committed, though INSERTs with earlier ids may not be.
Commit(n) ==
  /\ n \in coming
  /\ coming' = coming \ {n}
  /\ users' = users \cup {n}
  /\ walk' = [w \in Walkers |-> [walk[w] EXCEPT
                !.late = IF Walking(w) /\ Late(w, n) THEN @ + 1 ELSE @,
                !.added = IF walk[w].pc = "count" THEN @ + 1 ELSE @]]
  /\ UNCHANGED next

\* Or it fails; its id is gone.
RollBack(n) ==
  /\ n \in coming
  /\ coming' = coming \ {n}
  /\ UNCHANGED <<users, next, walk>>

Destroy(u) ==
  /\ u \in users
  /\ users' = users \ {u}
  /\ walk' = [w \in Walkers |-> [walk[w] EXCEPT
                !.stayed = IF Walking(w) THEN @ \ {u} ELSE @,
                !.removed = IF Walking(w) THEN @ + 1 ELSE @,
                !.lost = IF walk[w].pc = "count" THEN @ + 1 ELSE @]]
  /\ UNCHANGED <<coming, next>>

Next ==
  \/ \E w \in Walkers, page \in PageParams, per \in PerParams : Begin(w, page, per)
  \/ \E w \in Walkers : Select(w) \/ CountAll(w) \/ Breaks(w) \/ Ask(w)
  \/ Allocate
  \/ \E n \in coming : Commit(n) \/ RollBack(n)
  \/ \E u \in users : Destroy(u)

Spec == Init /\ [][Next]_vars

-----------------------------------------------------------------------------
(* Properties                                                              *)

\* Removals and registrations that come to light in the order of their ids
\* make a walk show nobody twice.  An INSERT that is overtaken, and whose row
\* appears in front of users that the walk has read, may repeat one of them on
\* the next page, and no more than one.
RepeatsAreLate ==
  \A w \in Walkers : walk[w].repeated <= walk[w].late

\* A walk may miss users who were there all the time, because a removal moves
\* them to a page that it has read already; it misses one at most per removal.
MissedAreRemovals ==
  \A w \in Walkers : walk[w].pc = "walked" =>
    Cardinality(walk[w].stayed \ walk[w].seen) <= walk[w].removed

\* The total and the page are of two moments; they disagree by no more than
\* was registered and removed in between.
TotalsAgree ==
  \A w \in Walkers : walk[w].pc = "ask" =>
    LET last == Offset(walk[w].page, walk[w].per) + Cardinality(walk[w].shown)
    IN /\ walk[w].shown # {} => walk[w].total + walk[w].lost >= last
       /\ Cardinality(walk[w].shown) < walk[w].per =>
            walk[w].total <= last + walk[w].added
==============================================================================
