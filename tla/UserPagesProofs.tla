--------------------------- MODULE UserPagesProofs ---------------------------
(***************************************************************************)
(* UserPages, for any number of walks, pages of any size and any number of *)
(* users: all the properties of the module.  First the place of a row in   *)
(* the table, then what a walk has covered, then the invariant.            *)
(***************************************************************************)
EXTENDS UserPages, FiniteSetTheorems, TLAPS

\* A rank is a number from 1 to the number of rows.
LEMMA RankType ==
  ASSUME NEW R \in SUBSET Nat, IsFiniteSet(R), NEW u \in Nat
  PROVE  /\ Rank(u, R) \in Nat
         /\ Rank(u, R) <= Cardinality(R)
         /\ u \in R => Rank(u, R) >= 1
<1> DEFINE below == {v \in R : v <= u}
<1>1. IsFiniteSet(below) /\ Cardinality(below) <= Cardinality(R)
  BY FS_Subset
<1>2. Cardinality(below) \in Nat /\ Cardinality(R) \in Nat
  BY <1>1, FS_CardinalityType
<1>3. u \in R => Cardinality(below) # 0
  BY <1>1, FS_EmptySet
<1> QED
  BY <1>1, <1>2, <1>3 DEF Rank

\* A later row has a higher rank.
LEMMA RankGrows ==
  ASSUME NEW R \in SUBSET Nat, IsFiniteSet(R), NEW u \in Nat, NEW v \in R, u < v
  PROVE  Rank(u, R) < Rank(v, R)
<1> DEFINE low == {x \in R : x <= u}
           high == {x \in R : x <= v}
<1>1. IsFiniteSet(high) /\ low \subseteq high /\ low # high
  <2>1. IsFiniteSet(high)
    BY FS_Subset
  <2>2. v \in high /\ v \notin low
    <3>1. v \in Nat
      OBVIOUS
    <3> QED
      BY <3>1
  <2>3. low \subseteq high
    <3>1. ASSUME NEW x \in R, x <= u PROVE x <= v
      <4>1. x \in Nat /\ v \in Nat
        OBVIOUS
      <4> QED
        BY <3>1, <4>1
    <3> QED
      BY <3>1
  <2> QED
    BY <2>1, <2>2, <2>3
<1>2. Cardinality(low) <= Cardinality(high) /\ Cardinality(low) # Cardinality(high)
  <2> HIDE DEF low, high
  <2> QED
    BY <1>1, FS_Subset
<1>3. Cardinality(low) \in Nat /\ Cardinality(high) \in Nat
  BY RankType DEF Rank
<1> QED
  BY <1>2, <1>3 DEF Rank

\* Two rows have different ranks.
LEMMA RankInjective ==
  ASSUME NEW R \in SUBSET Nat, IsFiniteSet(R), NEW u \in R, NEW v \in R,
         Rank(u, R) = Rank(v, R)
  PROVE  u = v
<1>1. Rank(u, R) \in Nat /\ Rank(v, R) \in Nat
  BY RankType
<1>2. ~ (u < v)
  BY <1>1, RankGrows
<1>3. ~ (v < u)
  BY <1>1, RankGrows
<1> QED
  BY <1>2, <1>3

\* Every number up to the number of rows is the rank of one.
LEMMA RankOnto ==
  ASSUME NEW R \in SUBSET Nat, IsFiniteSet(R), NEW n \in 1..Cardinality(R)
  PROVE  \E u \in R : Rank(u, R) = n
<1> DEFINE N == Cardinality(R)
           f == [u \in R |-> Rank(u, R)]
<1>1. N \in Nat
  BY FS_CardinalityType
<1>2. f \in [R -> 1..N]
  BY <1>1, RankType
<1>3. \A u, v \in R : f[u] = f[v] => u = v
  BY RankInjective
<1>4. f \in Injection(R, 1..N)
  BY <1>2, <1>3 DEF Injection, IsInjective
<1>5. IsFiniteSet(1..N) /\ Cardinality(1..N) = N
  BY <1>1, FS_Interval
<1>6. f \in Surjection(R, 1..N)
  BY <1>4, <1>5, FS_Injection
<1> QED
  BY <1>6 DEF Surjection

\* How long a page is: full, or what is left behind the offset.
LEMMA RowsCount ==
  ASSUME NEW R \in SUBSET Nat, IsFiniteSet(R), NEW limit \in Nat, NEW offset \in Nat
  PROVE  /\ Cardinality(R) <= offset => Rows(R, limit, offset) = {}
         /\ offset < Cardinality(R) =>
              Cardinality(Rows(R, limit, offset)) =
                IF Cardinality(R) <= offset + limit THEN Cardinality(R) - offset
                ELSE limit
<1> DEFINE N == Cardinality(R)
           page == Rows(R, limit, offset)
           last == IF N <= offset + limit THEN N ELSE offset + limit
           f == [u \in page |-> Rank(u, R)]
<1>1. N \in Nat /\ page \in SUBSET R
  BY FS_CardinalityType DEF Rows
<1>2. ASSUME NEW u \in R PROVE Rank(u, R) \in 1..N
  <2>1. Rank(u, R) \in Nat /\ Rank(u, R) <= N /\ Rank(u, R) >= 1
    BY RankType
  <2> QED
    BY <1>1, <2>1
<1>3. ASSUME N <= offset PROVE page = {}
  <2>1. ASSUME NEW u \in R PROVE ~ (offset < Rank(u, R))
    <3>1. Rank(u, R) \in 1..N
      BY <1>2
    <3> QED
      BY <1>1, <1>3, <3>1
  <2> QED
    BY <2>1 DEF Rows
<1>4. ASSUME offset < N
      PROVE  Cardinality(page) = last - offset
  <2>1. ASSUME NEW u \in page PROVE Rank(u, R) \in (offset + 1)..last
    <3>1. u \in R /\ offset < Rank(u, R) /\ Rank(u, R) <= offset + limit
      BY DEF Rows
    <3>2. Rank(u, R) \in 1..N
      BY <1>2, <3>1
    <3> QED
      BY <1>1, <3>1, <3>2
  <2>8. f \in [page -> (offset + 1)..last]
    BY <2>1
  <2>2. \A u, v \in page : f[u] = f[v] => u = v
    BY <1>1, RankInjective
  <2>3. \A n \in (offset + 1)..last : \E u \in page : f[u] = n
    <3> SUFFICES ASSUME NEW n \in (offset + 1)..last
                 PROVE  \E u \in page : f[u] = n
      OBVIOUS
    <3>1. n \in 1..N /\ n <= offset + limit /\ offset < n
      BY <1>1
    <3>2. PICK u \in R : Rank(u, R) = n
      BY <3>1, RankOnto
    <3> QED
      BY <3>1, <3>2 DEF Rows
  <2>4. f \in Bijection(page, (offset + 1)..last)
    BY <2>8, <2>2, <2>3 DEF Bijection, Injection, IsInjective, Surjection
  <2>5. IsFiniteSet(page)
    BY <1>1, FS_Subset
  <2>6. Cardinality((offset + 1)..last) = Cardinality(page)
    <3>1. ExistsBijection(page, (offset + 1)..last)
      BY <2>4 DEF ExistsBijection
    <3> HIDE DEF page, last
    <3> QED
      BY <2>5, <3>1, FS_Bijection
  <2>7. Cardinality((offset + 1)..last) = last - offset
    <3>1. last \in Nat /\ offset <= last
      BY <1>1, <1>4
    <3> HIDE DEF last
    <3>2. Cardinality((offset + 1)..last) =
            IF offset + 1 > last THEN 0 ELSE last - (offset + 1) + 1
      BY <3>1, FS_Interval
    <3> QED
      BY <3>1, <3>2
  <2> QED
    BY <2>6, <2>7
<1> QED
  BY <1>1, <1>3, <1>4

\* A row that comes in leaves those before it alone and moves those behind it
\* by one place.
LEMMA RankAfterInsert ==
  ASSUME NEW R \in SUBSET Nat, IsFiniteSet(R), NEW n \in Nat, n \notin R, NEW u \in Nat
  PROVE  /\ u < n => Rank(u, R \cup {n}) = Rank(u, R)
         /\ Rank(u, R) <= Rank(u, R \cup {n})
         /\ Rank(u, R \cup {n}) <= Rank(u, R) + 1
         /\ Rank(u, R) \in Nat /\ Rank(u, R \cup {n}) \in Nat
<1> DEFINE below == {v \in R : v <= u}
<1>1. IsFiniteSet(below) /\ Cardinality(below) \in Nat /\ n \notin below
  BY FS_Subset, FS_CardinalityType
<1>2. CASE n <= u
  <2>1. {v \in R \cup {n} : v <= u} = below \cup {n}
    BY <1>2
  <2>2. Cardinality(below \cup {n}) = Cardinality(below) + 1
    <3> HIDE DEF below
    <3> QED
      BY <1>1, FS_AddElement
  <2>3. Rank(u, R) = Cardinality(below) /\ Rank(u, R \cup {n}) = Cardinality(below) + 1
    BY <2>1, <2>2 DEF Rank
  <2> HIDE DEF below
  <2> QED
    BY <1>1, <1>2, <2>3
<1>3. CASE ~ (n <= u)
  <2>1. {v \in R \cup {n} : v <= u} = below
    BY <1>3
  <2>2. Rank(u, R) = Cardinality(below) /\ Rank(u, R \cup {n}) = Cardinality(below)
    BY <2>1 DEF Rank
  <2> HIDE DEF below
  <2> QED
    BY <1>1, <2>2
<1> QED
  BY <1>2, <1>3

\* A row taken away moves the others forwards by one place at most.
LEMMA RankAfterDelete ==
  ASSUME NEW R \in SUBSET Nat, IsFiniteSet(R), NEW d, NEW u \in Nat
  PROVE  /\ Rank(u, R \ {d}) <= Rank(u, R)
         /\ Rank(u, R) <= Rank(u, R \ {d}) + 1
         /\ IsFiniteSet(R \ {d})
         /\ Rank(u, R) \in Nat /\ Rank(u, R \ {d}) \in Nat
<1> DEFINE below == {v \in R : v <= u}
<1>1. {v \in R \ {d} : v <= u} = below \ {d}
  OBVIOUS
<1>2. IsFiniteSet(below) /\ Cardinality(below) \in Nat
  BY FS_Subset, FS_CardinalityType
<1>3. Cardinality(below \ {d}) =
        IF d \in below THEN Cardinality(below) - 1 ELSE Cardinality(below)
  <2> HIDE DEF below
  <2> QED
    BY <1>2, FS_RemoveElement
<1>4. Cardinality(below \ {d}) \in Nat
  <2> HIDE DEF below
  <2> QED
    BY <1>2, FS_RemoveElement, FS_CardinalityType
<1>5. IsFiniteSet(R \ {d})
  BY FS_RemoveElement
<1>6. Rank(u, R) = Cardinality(below) /\ Rank(u, R \ {d}) = Cardinality(below \ {d})
  BY <1>1 DEF Rank
<1> HIDE DEF below
<1> QED
  BY <1>2, <1>3, <1>4, <1>5, <1>6

\* A set that gains no more than the row of one rank gains one element at most.
LEMMA OneAcross ==
  ASSUME NEW R \in SUBSET Nat, IsFiniteSet(R), NEW j,
         NEW old, IsFiniteSet(old), NEW new,
         new \subseteq old \cup {u \in R : Rank(u, R) = j}
  PROVE  /\ IsFiniteSet(new) /\ Cardinality(new) \in Nat /\ Cardinality(old) \in Nat
         /\ Cardinality(new) <= Cardinality(old) + 1
<1> DEFINE edge == {u \in R : Rank(u, R) = j}
<1>0. Cardinality(old) \in Nat
  BY FS_CardinalityType
<1>1. CASE edge = {}
  <2>1. new \in SUBSET old
    BY <1>1
  <2> HIDE DEF edge
  <2>2. /\ IsFiniteSet(new) /\ Cardinality(new) <= Cardinality(old)
        /\ Cardinality(new) \in Nat
    BY <2>1, FS_Subset, FS_CardinalityType
  <2> QED
    BY <1>0, <2>2
<1>2. ASSUME NEW e \in edge
      PROVE  /\ IsFiniteSet(new) /\ Cardinality(new) \in Nat
             /\ Cardinality(new) <= Cardinality(old) + 1
  <2>1. \A u \in edge : u = e
    BY RankInjective
  <2>2. new \in SUBSET (old \cup {e})
    BY <2>1
  <2> HIDE DEF edge
  <2>3. /\ IsFiniteSet(old \cup {e})
        /\ Cardinality(old \cup {e}) =
             IF e \in old THEN Cardinality(old) ELSE Cardinality(old) + 1
    BY FS_AddElement
  <2>4. /\ IsFiniteSet(new) /\ Cardinality(new) \in Nat
        /\ Cardinality(new) <= Cardinality(old \cup {e})
    BY <2>2, <2>3, FS_Subset, FS_CardinalityType
  <2> QED
    BY <1>0, <2>3, <2>4
<1> QED
  BY <1>0, <1>1, <1>2

-----------------------------------------------------------------------------
\* The rows of S that are in front of place k, and those that are behind it.
Missed(S, R, k) == {u \in S : Rank(u, R) <= k}
Ahead(S, R, k) == {u \in S \cap R : Rank(u, R) > k}

\* Whoever is in front of the walk's place unseen was moved there by a removal.
Covered(seen, stayed, removed, R, k) ==
  Cardinality(Missed(stayed \ seen, R, k)) <= removed

\* Each late registration has repeated a row, or moved one behind the walk's place
\* that it has seen and will see again.
Repeated(seen, times, late, R, k) ==
  Cardinality(Ahead(seen, R, k)) + times <= late

\* A registration moves nobody to the front.
LEMMA CoveredAfterInsert ==
  ASSUME NEW R \in SUBSET Nat, IsFiniteSet(R), NEW n \in Nat, n \notin R,
         NEW seen, NEW stayed \in SUBSET R, NEW removed \in Nat, NEW k \in Nat,
         Covered(seen, stayed, removed, R, k)
  PROVE  Covered(seen, stayed, removed, R \cup {n}, k)
<1> DEFINE old == Missed(stayed \ seen, R, k)
           new == Missed(stayed \ seen, R \cup {n}, k)
<1>1. new \in SUBSET old
  <2> SUFFICES ASSUME NEW u \in new PROVE u \in old
    OBVIOUS
  <2>1. u \in stayed \ seen /\ u \in Nat /\ Rank(u, R \cup {n}) <= k
    BY DEF Missed
  <2>2. /\ Rank(u, R) <= Rank(u, R \cup {n})
        /\ Rank(u, R) \in Nat /\ Rank(u, R \cup {n}) \in Nat
    BY <2>1, RankAfterInsert
  <2>3. Rank(u, R) <= k
    BY <2>1, <2>2
  <2> QED
    BY <2>1, <2>3 DEF Missed
<1>2. IsFiniteSet(old)
  <2>1. old \in SUBSET R
    BY DEF Missed
  <2> QED
    BY <2>1, FS_Subset
<1>3. Cardinality(old) <= removed
  BY DEF Covered
<1>4. Cardinality(new) <= removed
  <2> HIDE DEF old, new
  <2>1. /\ Cardinality(new) <= Cardinality(old)
        /\ Cardinality(new) \in Nat /\ Cardinality(old) \in Nat
    BY <1>1, <1>2, FS_Subset, FS_CardinalityType
  <2> QED
    BY <1>3, <2>1
<1> QED
  BY <1>4 DEF Covered

\* A removal moves at most one row to the front.
LEMMA CoveredAfterDelete ==
  ASSUME NEW R \in SUBSET Nat, IsFiniteSet(R), NEW d \in R,
         NEW seen, NEW stayed \in SUBSET R, NEW removed \in Nat, NEW k \in Nat,
         Covered(seen, stayed, removed, R, k)
  PROVE  Covered(seen, stayed \ {d}, removed + 1, R \ {d}, k)
<1> DEFINE old == Missed(stayed \ seen, R, k)
           new == Missed((stayed \ {d}) \ seen, R \ {d}, k)
<1>1. IsFiniteSet(old) /\ Cardinality(old) <= removed
  BY FS_Subset DEF Missed, Covered
<1>2. new \subseteq old \cup {u \in R : Rank(u, R) = k + 1}
  <2> SUFFICES ASSUME NEW u \in new
               PROVE  u \in old \cup {v \in R : Rank(v, R) = k + 1}
    OBVIOUS
  <2>1. u \in stayed \ seen /\ u \in R /\ u \in Nat /\ Rank(u, R \ {d}) <= k
    BY DEF Missed
  <2>2. /\ Rank(u, R) <= Rank(u, R \ {d}) + 1
        /\ Rank(u, R) \in Nat /\ Rank(u, R \ {d}) \in Nat
    BY <2>1, RankAfterDelete
  <2>3. Rank(u, R) <= k \/ Rank(u, R) = k + 1
    BY <2>1, <2>2
  <2> QED
    BY <2>1, <2>3 DEF Missed
<1>3. Cardinality(new) <= removed + 1
  <2> HIDE DEF old, new
  <2>1. /\ Cardinality(new) \in Nat /\ Cardinality(old) \in Nat
        /\ Cardinality(new) <= Cardinality(old) + 1
    BY <1>1, <1>2, OneAcross
  <2> QED
    BY <1>1, <2>1
<1> QED
  BY <1>3 DEF Covered

\* A registration that comes in late moves at most one row behind the place, one
\* that does not moves none that was seen.
LEMMA RepeatedAfterInsert ==
  ASSUME NEW R \in SUBSET Nat, IsFiniteSet(R), NEW n \in Nat, n \notin R,
         NEW seen \in SUBSET Nat, n \notin seen, NEW read, seen \subseteq read,
         NEW times \in Nat, NEW late \in Nat, NEW k \in Nat,
         Repeated(seen, times, late, R, k)
  PROVE  /\ Repeated(seen, times, late + 1, R \cup {n}, k)
         /\ ~ (\E u \in R \cap read : n < u) =>
              Repeated(seen, times, late, R \cup {n}, k)
<1> DEFINE old == Ahead(seen, R, k)
           new == Ahead(seen, R \cup {n}, k)
<1>1. IsFiniteSet(old) /\ Cardinality(old) \in Nat /\ Cardinality(old) + times <= late
  <2>1. old \in SUBSET R
    BY DEF Ahead
  <2> QED
    BY <2>1, FS_Subset, FS_CardinalityType DEF Repeated
<1>2. ASSUME NEW u \in new
      PROVE  /\ u \in seen \cap R /\ u \in Nat /\ Rank(u, R \cup {n}) > k
             /\ Rank(u, R) \in Nat /\ Rank(u, R \cup {n}) \in Nat
  <2>1. u \in seen \cap R /\ u \in Nat /\ Rank(u, R \cup {n}) > k
    BY DEF Ahead
  <2> QED
    BY <2>1, RankAfterInsert
<1>3. Repeated(seen, times, late + 1, R \cup {n}, k)
  <2>1. new \subseteq old \cup {u \in R : Rank(u, R) = k}
    <3> SUFFICES ASSUME NEW u \in new PROVE u \in old \cup {v \in R : Rank(v, R) = k}
      OBVIOUS
    <3>1. Rank(u, R \cup {n}) <= Rank(u, R) + 1
      BY <1>2, RankAfterInsert
    <3>2. Rank(u, R) > k \/ Rank(u, R) = k
      BY <1>2, <3>1
    <3> QED
      BY <1>2, <3>2 DEF Ahead
  <2>2. Cardinality(new) + times <= late + 1
    <3> HIDE DEF old, new
    <3>1. Cardinality(new) \in Nat /\ Cardinality(new) <= Cardinality(old) + 1
      BY <1>1, <2>1, OneAcross
    <3> QED
      BY <1>1, <3>1
  <2> QED
    BY <2>2 DEF Repeated
<1>4. ASSUME ~ (\E u \in R \cap read : n < u)
      PROVE  Repeated(seen, times, late, R \cup {n}, k)
  <2>1. new \in SUBSET old
    <3> SUFFICES ASSUME NEW u \in new PROVE u \in old
      OBVIOUS
    <3>1. u \in R \cap read /\ u \in Nat /\ u # n
      BY <1>2
    <3>2. u < n
      BY <1>4, <3>1
    <3>3. Rank(u, R \cup {n}) = Rank(u, R)
      BY <3>1, <3>2, RankAfterInsert
    <3> QED
      BY <1>2, <3>3 DEF Ahead
  <2>2. Cardinality(new) + times <= late
    <3> HIDE DEF old, new
    <3>1. Cardinality(new) \in Nat /\ Cardinality(new) <= Cardinality(old)
      BY <1>1, <2>1, FS_Subset, FS_CardinalityType
    <3> QED
      BY <1>1, <3>1
  <2> QED
    BY <2>2 DEF Repeated
<1> QED
  BY <1>3, <1>4

\* A removal moves nobody behind the place.
LEMMA RepeatedAfterDelete ==
  ASSUME NEW R \in SUBSET Nat, IsFiniteSet(R), NEW d \in R,
         NEW seen, NEW times \in Nat, NEW late \in Nat, NEW k \in Nat,
         Repeated(seen, times, late, R, k)
  PROVE  Repeated(seen, times, late, R \ {d}, k)
<1> DEFINE old == Ahead(seen, R, k)
           new == Ahead(seen, R \ {d}, k)
<1>1. IsFiniteSet(old) /\ Cardinality(old) \in Nat /\ Cardinality(old) + times <= late
  <2>1. old \in SUBSET R
    BY DEF Ahead
  <2> QED
    BY <2>1, FS_Subset, FS_CardinalityType DEF Repeated
<1>2. new \in SUBSET old
  <2> SUFFICES ASSUME NEW u \in new PROVE u \in old
    OBVIOUS
  <2>1. u \in seen \cap R /\ u \in Nat /\ Rank(u, R \ {d}) > k
    BY DEF Ahead
  <2>2. /\ Rank(u, R \ {d}) <= Rank(u, R)
        /\ Rank(u, R) \in Nat /\ Rank(u, R \ {d}) \in Nat
    BY <2>1, RankAfterDelete
  <2>3. Rank(u, R) > k
    BY <2>1, <2>2
  <2> QED
    BY <2>1, <2>3 DEF Ahead
<1>3. Cardinality(new) + times <= late
  <2> HIDE DEF old, new
  <2>1. Cardinality(new) \in Nat /\ Cardinality(new) <= Cardinality(old)
    BY <1>1, <1>2, FS_Subset, FS_CardinalityType
  <2> QED
    BY <1>1, <2>1
<1> QED
  BY <1>3 DEF Repeated

-----------------------------------------------------------------------------
\* The rows in front of the page of walk r, and those up to its end.
Before(r) == Offset(r.page, r.per)
After(r) == Before(r) + r.per

\* What count, a number of rows, has to do with the page that was selected.
Agrees(r, count) ==
  /\ r.shown # {} => count + r.lost >= Before(r) + Cardinality(r.shown)
  /\ Cardinality(r.shown) < r.per =>
       count <= Before(r) + Cardinality(r.shown) + r.added

\* A page that is not full was the last.
ShortIsLast(r) ==
  Cardinality(r.shown) < r.per =>
    Cardinality(r.stayed \ (r.seen \cup r.shown)) <= r.removed

\* A walk in front of a page.
AtPage(r, R) ==
  /\ Covered(r.seen, r.stayed, r.removed, R, Before(r))
  /\ Repeated(r.seen, r.repeated, r.late, R, Before(r))

\* A walk with a page that it has not counted.
HasPage(r, R) ==
  /\ Covered(r.seen \cup r.shown, r.stayed, r.removed, R, After(r))
  /\ Repeated(r.seen \cup r.shown, r.repeated + Cardinality(r.shown \cap r.seen),
              r.late, R, After(r))
  /\ Agrees(r, Cardinality(R))
  /\ ShortIsLast(r)

\* A walk behind a page.
PastPage(r, R) ==
  /\ r.shown \subseteq r.seen
  /\ Covered(r.seen, r.stayed, r.removed, R, After(r))
  /\ Repeated(r.seen, r.repeated, r.late, R, After(r))
  /\ Agrees(r, r.total)
  /\ ShortIsLast(r)

WalkInv(r, R, C, n) ==
  /\ r.seen \cup r.shown \subseteq 1..(n - 1)
  /\ (r.seen \cup r.shown) \cap C = {}
  /\ r.repeated <= r.late
  /\ r.pc \in {"select", "count", "ask"} => r.stayed \subseteq R
  /\ r.pc \in {"select", "count"} => AtPage(r, R)
  /\ r.pc = "count" => HasPage(r, R)
  /\ r.pc = "ask" => PastPage(r, R)
  /\ r.pc = "walked" => Cardinality(r.stayed \ r.seen) <= r.removed

\* What the table is, besides its types: no row is visible and coming.
PagesInv ==
  /\ TypeOK
  /\ users \cap coming = {}
  /\ \A w \in Walkers : WalkInv(walk[w], users, coming, next)

\* The numbers and sets of a walk.
LEMMA WalkTypes ==
  ASSUME TypeOK, NEW w \in Walkers
  PROVE  /\ walk[w] \in Walk
         /\ walk[w].page \in Nat /\ walk[w].page >= 1
         /\ walk[w].per \in Nat /\ walk[w].per >= 1
         /\ Before(walk[w]) \in Nat /\ After(walk[w]) \in Nat
         /\ IsFiniteSet(walk[w].shown) /\ Cardinality(walk[w].shown) \in Nat
         /\ walk[w].removed \in Nat /\ walk[w].late \in Nat /\ walk[w].repeated \in Nat
         /\ IsFiniteSet(walk[w].seen) /\ walk[w].seen \in SUBSET Nat
         /\ walk[w].shown \in SUBSET Nat
         /\ IsFiniteSet(users) /\ users \in SUBSET Nat /\ Cardinality(users) \in Nat
         /\ next \in Nat /\ \A u \in users : u < next
<1>1. /\ walk[w] \in Walk
      /\ walk[w].page \in Nat /\ walk[w].page >= 1
      /\ walk[w].per \in Nat /\ walk[w].per >= 1
      /\ walk[w].shown \subseteq Ids /\ walk[w].seen \subseteq Ids
      /\ walk[w].removed \in Nat /\ walk[w].late \in Nat /\ walk[w].repeated \in Nat
  BY PagesAssumption DEF TypeOK, Walk
<1>2. Before(walk[w]) \in Nat /\ After(walk[w]) \in Nat
  BY <1>1 DEF Before, After, Offset
<1>3. IsFiniteSet(Ids) /\ Ids \subseteq Nat
  BY PagesAssumption, FS_Interval DEF Ids
<1>4. /\ IsFiniteSet(walk[w].shown) /\ Cardinality(walk[w].shown) \in Nat
      /\ IsFiniteSet(walk[w].seen) /\ walk[w].seen \in SUBSET Nat
      /\ walk[w].shown \in SUBSET Nat
  BY <1>1, <1>3, FS_Subset, FS_CardinalityType
<1>5. users \in SUBSET Ids /\ next \in Nat /\ \A u \in users : u < next
  BY PagesAssumption DEF TypeOK, Ids
<1>6. IsFiniteSet(users) /\ users \in SUBSET Nat /\ Cardinality(users) \in Nat
  BY <1>3, <1>5, FS_Subset, FS_CardinalityType
<1> QED
  BY <1>1, <1>2, <1>4, <1>5, <1>6

\* The next page begins where the last one ended.
LEMMA OffsetNext ==
  ASSUME NEW page \in Nat, NEW per \in Nat
  PROVE  Offset(page + 1, per) = Offset(page, per) + per
<1>1. (page + 1) - 1 = (page - 1) + 1
  OBVIOUS
<1>2. ((page - 1) + 1) * per = (page - 1) * per + per
  OBVIOUS
<1> QED
  BY <1>1, <1>2 DEF Offset

\* The parameters of a request are adjusted to a page that exists.
LEMMA ParamTypes ==
  ASSUME NEW page \in PageParams, NEW per \in PerParams
  PROVE  PageOf(page) = 1 /\ PerOf(per) \in 1..MaxPer
<1>1. PageOf(page) = 1
  BY PagesAssumption DEF PageOf, Given
<1>2. PerOf(per) \in 1..MaxPer
  BY PagesAssumption DEF PerOf, Given
<1> QED
  BY <1>1, <1>2

-----------------------------------------------------------------------------
\* What the select of a page gives a walk that is in front of it.
LEMMA SelectedPage ==
  ASSUME TypeOK, NEW w \in Walkers, walk[w].stayed \subseteq users,
         AtPage(walk[w], users),
         NEW r, r = [walk[w] EXCEPT !.pc = "count",
                       !.shown = Rows(users, walk[w].per, Before(walk[w])),
                       !.lost = 0, !.added = 0]
  PROVE  /\ HasPage(r, users)
         /\ AtPage(r, users)
         /\ r.shown \in SUBSET users
         /\ Cardinality(r.shown) <= r.per
<1> DEFINE o == Before(walk[w])
           per == walk[w].per
           page == Rows(users, per, o)
           N == Cardinality(users)
           seen == walk[w].seen
           stayed == walk[w].stayed
           missed == Missed(stayed \ seen, users, o)
           left == stayed \ (seen \cup page)
<1>1. /\ o \in Nat /\ per \in Nat /\ N \in Nat /\ o + per = After(walk[w])
      /\ IsFiniteSet(users) /\ users \in SUBSET Nat
      /\ walk[w].removed \in Nat /\ walk[w].late \in Nat /\ walk[w].repeated \in Nat
  BY WalkTypes DEF After
<1>2. /\ r.page = walk[w].page /\ r.per = per /\ r.shown = page /\ r.seen = seen
      /\ r.stayed = stayed /\ r.removed = walk[w].removed
      /\ r.late = walk[w].late /\ r.repeated = walk[w].repeated
      /\ r.lost = 0 /\ r.added = 0 /\ Before(r) = o /\ After(r) = o + per
  BY WalkTypes DEF Walk, Before, After
<1>3. ASSUME NEW u \in users
      PROVE  /\ Rank(u, users) \in Nat /\ Rank(u, users) <= N
             /\ u \in page <=> o < Rank(u, users) /\ Rank(u, users) <= o + per
  BY <1>1, RankType DEF Rows
<1>4. page \in SUBSET users
  BY DEF Rows
<1>5. /\ N <= o => page = {}
      /\ o < N => Cardinality(page) = IF N <= o + per THEN N - o ELSE per
  BY <1>1, RowsCount
<1>6. Cardinality({}) = 0
  BY FS_EmptySet
<1>7. ASSUME NEW u \in left, Rank(u, users) <= o + per PROVE u \in missed
  <2>1. u \in users /\ u \in stayed \ seen /\ u \notin page
    OBVIOUS
  <2>2. Rank(u, users) \in Nat /\ ~ (o < Rank(u, users))
    BY <1>3, <1>7, <2>1
  <2>3. Rank(u, users) <= o
    <3> HIDE DEF o
    <3> QED
      BY <1>1, <2>2
  <2> QED
    BY <2>1, <2>3 DEF Missed
<1>8. ASSUME NEW S \in SUBSET missed
      PROVE  Cardinality(S) <= walk[w].removed
  <2>1. IsFiniteSet(missed) /\ Cardinality(missed) <= walk[w].removed
    <3>1. missed \in SUBSET users
      BY DEF Missed
    <3> QED
      BY <1>1, <3>1, FS_Subset DEF AtPage, Covered
  <2> HIDE DEF missed
  <2>2. /\ Cardinality(S) <= Cardinality(missed)
        /\ Cardinality(S) \in Nat /\ Cardinality(missed) \in Nat
    BY <2>1, FS_Subset, FS_CardinalityType
  <2> QED
    BY <1>1, <2>1, <2>2
<1>9. Covered(seen \cup page, stayed, walk[w].removed, users, o + per)
  <2>1. Missed(left, users, o + per) \in SUBSET missed
    <3> SUFFICES ASSUME NEW u \in Missed(left, users, o + per) PROVE u \in missed
      OBVIOUS
    <3>1. u \in left /\ Rank(u, users) <= o + per
      BY DEF Missed
    <3> QED
      BY <1>7, <3>1
  <2>2. Cardinality(Missed(left, users, o + per)) <= walk[w].removed
    <3> HIDE DEF missed, left
    <3> QED
      BY <1>8, <2>1
  <2> QED
    BY <2>2 DEF Covered
<1>10. Repeated(seen \cup page, walk[w].repeated + Cardinality(page \cap seen),
                walk[w].late, users, o + per)
  <2> DEFINE old == Ahead(seen, users, o)
             new == Ahead(seen \cup page, users, o + per)
             again == page \cap seen
  <2>1. old \in SUBSET users
    BY DEF Ahead
  <2>2. IsFiniteSet(old) /\ Cardinality(old) \in Nat
        /\ Cardinality(old) + walk[w].repeated <= walk[w].late
    BY <1>1, <2>1, FS_Subset, FS_CardinalityType DEF AtPage, Repeated
  <2>3. again \subseteq old
    <3> SUFFICES ASSUME NEW u \in page, u \in seen PROVE u \in old
      OBVIOUS
    <3>1. u \in users /\ o < Rank(u, users) /\ Rank(u, users) \in Nat
      BY <1>3, <1>4
    <3>2. Rank(u, users) > o
      BY <3>1
    <3> QED
      BY <3>1, <3>2 DEF Ahead
  <2>4. ASSUME NEW u \in new PROVE u \in old /\ u \notin again
    <3>1. u \in users /\ u \in seen \cup page /\ Rank(u, users) > o + per
      BY DEF Ahead
    <3>2. Rank(u, users) \in Nat
      BY <1>3, <3>1
    <3>3. ~ (Rank(u, users) <= o + per) /\ Rank(u, users) > o
      <4> HIDE DEF o, per
      <4> QED
        BY <1>1, <3>1, <3>2
    <3>4. u \notin page
      BY <1>3, <3>1, <3>3
    <3> QED
      BY <3>1, <3>3, <3>4 DEF Ahead
  <2>5. new \cap again = {} /\ new \cup again \in SUBSET old
    BY <2>3, <2>4
  <2>6. Cardinality(new) + Cardinality(again) <= Cardinality(old)
        /\ Cardinality(new) \in Nat /\ Cardinality(again) \in Nat
    <3> HIDE DEF old, new, again
    <3>1. IsFiniteSet(new) /\ IsFiniteSet(again)
      BY <2>2, <2>5, FS_Subset
    <3>2. Cardinality(new \cup again) = Cardinality(new) + Cardinality(again)
      <4>1. Cardinality(new \cup again) = Cardinality(new) + Cardinality(again) - 0
        BY <2>5, <3>1, FS_Union, FS_EmptySet
      <4>2. Cardinality(new) \in Nat /\ Cardinality(again) \in Nat
        BY <3>1, FS_CardinalityType
      <4> QED
        BY <4>1, <4>2
    <3>3. Cardinality(new \cup again) <= Cardinality(old)
      BY <2>2, <2>5, FS_Subset
    <3> QED
      BY <3>1, <3>2, <3>3, FS_CardinalityType
  <2>7. Cardinality(new) + (walk[w].repeated + Cardinality(again)) <= walk[w].late
    <3> HIDE DEF old, new, again
    <3> QED
      BY <1>1, <2>2, <2>6
  <2> QED
    BY <2>7 DEF Repeated
<1>11. Agrees(r, N) /\ Cardinality(page) <= per
  <2> HIDE DEF o, per, page, N
  <2>1. page # {} => N + 0 >= o + Cardinality(page)
    BY <1>1, <1>5
  <2>4. N <= o => Cardinality(page) = 0
    <3> SUFFICES ASSUME N <= o PROVE Cardinality(page) = 0
      OBVIOUS
    <3>1. page = {}
      BY <1>5
    <3> QED
      BY <1>6, <3>1, Zenon
  <2>2. Cardinality(page) < per => N <= o + Cardinality(page) + 0
    BY <1>1, <1>5, <2>4
  <2>3. Cardinality(page) <= per
    BY <1>1, <1>5, <2>4
  <2> QED
    BY <1>2, <2>1, <2>2, <2>3 DEF Agrees
<1>12. ShortIsLast(r)
  <2> SUFFICES ASSUME Cardinality(page) < per
               PROVE  Cardinality(left) <= walk[w].removed
    BY <1>2 DEF ShortIsLast
  <2>1. N <= o + per
    <3> HIDE DEF o, per, page, N
    <3> QED
      BY <1>1, <1>5
  <2>2. left \in SUBSET missed
    <3> SUFFICES ASSUME NEW u \in left PROVE u \in missed
      OBVIOUS
    <3>1. Rank(u, users) <= N /\ Rank(u, users) \in Nat
      BY <1>3
    <3>2. Rank(u, users) <= o + per
      <4> HIDE DEF o, per, N
      <4> QED
        BY <1>1, <2>1, <3>1
    <3> QED
      BY <1>7, <3>2
  <2> HIDE DEF left, missed
  <2> QED
    BY <1>8, <2>2
<1>13. AtPage(r, users)
  BY <1>2 DEF AtPage
<1> HIDE DEF page, o, per, N
<1> QED
  BY <1>2, <1>4, <1>9, <1>10, <1>11, <1>12, <1>13 DEF HasPage, N

\* A registration that comes to light keeps what is known of a walk.
LEMMA CommitKeeps ==
  ASSUME TypeOK, users \cap coming = {}, NEW w \in Walkers, NEW n \in coming,
         WalkInv(walk[w], users, coming, next),
         NEW r, r = [walk[w] EXCEPT
                       !.late = IF Walking(w) /\ Late(w, n) THEN @ + 1 ELSE @,
                       !.added = IF walk[w].pc = "count" THEN @ + 1 ELSE @]
  PROVE  WalkInv(r, users \cup {n}, coming \ {n}, next)
<1> DEFINE old == walk[w]
           R == users \cup {n}
           read == old.seen \cup old.shown
<1>1. /\ r.pc = old.pc /\ r.page = old.page /\ r.per = old.per /\ r.shown = old.shown
      /\ r.total = old.total /\ r.seen = old.seen /\ r.stayed = old.stayed
      /\ r.removed = old.removed /\ r.lost = old.lost /\ r.repeated = old.repeated
      /\ old.pc = "count" => r.added = old.added + 1
      /\ old.pc # "count" => r.added = old.added
      /\ r.late = IF Walking(w) /\ Late(w, n) THEN old.late + 1 ELSE old.late
  BY WalkTypes DEF Walk
<1>2. Before(r) = Before(old) /\ After(r) = After(old)
  BY <1>1 DEF Before, After
<1>3. /\ IsFiniteSet(users) /\ users \in SUBSET Nat /\ n \in Nat /\ n \notin users
      /\ old.seen \in SUBSET Nat /\ old.shown \in SUBSET Nat /\ n \notin read
      /\ old.removed \in Nat /\ old.late \in Nat /\ old.repeated \in Nat
      /\ Before(old) \in Nat /\ After(old) \in Nat
      /\ IsFiniteSet(old.shown)
  BY WalkTypes, PagesAssumption DEF WalkInv, TypeOK
<1>4. /\ r.seen \cup r.shown \subseteq 1..(next - 1)
      /\ (r.seen \cup r.shown) \cap (coming \ {n}) = {}
      /\ r.repeated <= r.late
  <2>1. old.repeated <= old.late
    BY DEF WalkInv
  <2> QED
    BY <1>1, <1>3, <2>1 DEF WalkInv
<1>5. ASSUME NEW times \in Nat, NEW k \in Nat, NEW S \in SUBSET Nat, S \subseteq read,
             Walking(w), Repeated(S, times, old.late, users, k)
      PROVE  Repeated(S, times, r.late, R, k)
  <2>1. Late(w, n) <=> \E u \in users \cap read : n < u
    BY DEF Late
  <2>2. /\ Repeated(S, times, old.late + 1, R, k)
        /\ ~ (\E u \in users \cap read : n < u) => Repeated(S, times, old.late, R, k)
    BY <1>3, <1>5, RepeatedAfterInsert
  <2> HIDE DEF read
  <2> QED
    BY <1>1, <1>5, <2>1, <2>2
<1>6. ASSUME old.pc \in {"select", "count"} PROVE AtPage(r, R)
  <2>1. AtPage(old, users) /\ old.stayed \subseteq users /\ Walking(w)
    BY <1>6 DEF WalkInv, Walking
  <2>2. Covered(old.seen, old.stayed, old.removed, R, Before(old))
    BY <1>3, <2>1, CoveredAfterInsert DEF AtPage
  <2>3. Repeated(old.seen, old.repeated, r.late, R, Before(old))
    BY <1>3, <1>5, <2>1 DEF AtPage
  <2> QED
    BY <1>1, <1>2, <2>2, <2>3 DEF AtPage
<1>7. ShortIsLast(old) => ShortIsLast(r)
  BY <1>1 DEF ShortIsLast
<1>8. ASSUME old.pc = "count" PROVE HasPage(r, R)
  <2>1. HasPage(old, users) /\ old.stayed \subseteq users /\ Walking(w)
    BY <1>8 DEF WalkInv, Walking
  <2>2. Covered(old.seen \cup old.shown, old.stayed, old.removed, R, After(old))
    BY <1>3, <2>1, CoveredAfterInsert DEF HasPage
  <2>3. old.repeated + Cardinality(old.shown \cap old.seen) \in Nat
    <3>1. Cardinality(old.shown \cap old.seen) \in Nat
      BY <1>3, FS_Subset, FS_CardinalityType
    <3> QED
      BY <1>3, <3>1
  <2>4. Repeated(old.seen \cup old.shown, old.repeated + Cardinality(old.shown \cap old.seen),
                 r.late, R, After(old))
    <3>1. old.seen \cup old.shown \in SUBSET Nat
      BY <1>3
    <3>2. Repeated(old.seen \cup old.shown,
                   old.repeated + Cardinality(old.shown \cap old.seen),
                   old.late, users, After(old))
      BY <2>1 DEF HasPage
    <3> QED
      BY <1>3, <1>5, <2>1, <2>3, <3>1, <3>2
  <2>5. Cardinality(R) = Cardinality(users) + 1
    BY <1>3, FS_AddElement
  <2>6. Agrees(r, Cardinality(users) + 1)
    <3>1. Agrees(old, Cardinality(users))
      BY <2>1 DEF HasPage
    <3>2. /\ Cardinality(users) \in Nat /\ Before(old) \in Nat /\ old.lost \in Nat
          /\ Cardinality(old.shown) \in Nat /\ old.added \in Nat
      BY WalkTypes DEF Walk
    <3> QED
      BY <1>1, <1>2, <1>8, <3>1, <3>2 DEF Agrees
  <2>7. ShortIsLast(r)
    BY <1>7, <2>1 DEF HasPage
  <2> QED
    BY <1>1, <1>2, <2>2, <2>4, <2>5, <2>6, <2>7 DEF HasPage
<1>9. ASSUME old.pc = "ask" PROVE PastPage(r, R)
  <2>1. PastPage(old, users) /\ old.stayed \subseteq users /\ Walking(w)
    BY <1>9 DEF WalkInv, Walking
  <2>2. Covered(old.seen, old.stayed, old.removed, R, After(old))
    BY <1>3, <2>1, CoveredAfterInsert DEF PastPage
  <2>3. Repeated(old.seen, old.repeated, r.late, R, After(old))
    BY <1>3, <1>5, <2>1 DEF PastPage
  <2>4. Agrees(r, r.total)
    BY <1>1, <1>2, <1>9, <2>1 DEF PastPage, Agrees
  <2> QED
    BY <1>1, <1>2, <1>7, <2>1, <2>2, <2>3, <2>4 DEF PastPage
<1>10. /\ r.pc \in {"select", "count", "ask"} => r.stayed \subseteq R
       /\ r.pc = "walked" => Cardinality(r.stayed \ r.seen) <= r.removed
  BY <1>1 DEF WalkInv
<1> QED
  BY <1>1, <1>4, <1>6, <1>8, <1>9, <1>10 DEF WalkInv

\* A removal keeps what is known of a walk.
LEMMA DestroyKeeps ==
  ASSUME TypeOK, NEW w \in Walkers, WalkInv(walk[w], users, coming, next),
         NEW d \in users,
         NEW r, r = [walk[w] EXCEPT
                       !.stayed = IF Walking(w) THEN @ \ {d} ELSE @,
                       !.removed = IF Walking(w) THEN @ + 1 ELSE @,
                       !.lost = IF walk[w].pc = "count" THEN @ + 1 ELSE @]
  PROVE  WalkInv(r, users \ {d}, coming, next)
<1> DEFINE old == walk[w]
           R == users \ {d}
<1>1. /\ r.pc = old.pc /\ r.page = old.page /\ r.per = old.per /\ r.shown = old.shown
      /\ r.total = old.total /\ r.seen = old.seen /\ r.added = old.added
      /\ r.repeated = old.repeated /\ r.late = old.late
      /\ old.pc \in {"select", "count", "ask"} =>
           r.stayed = old.stayed \ {d} /\ r.removed = old.removed + 1
      /\ old.pc \notin {"select", "count", "ask"} =>
           r.stayed = old.stayed /\ r.removed = old.removed
      /\ old.pc = "count" => r.lost = old.lost + 1
      /\ old.pc # "count" => r.lost = old.lost
  BY WalkTypes DEF Walk, Walking
<1>2. Before(r) = Before(old) /\ After(r) = After(old)
  BY <1>1 DEF Before, After
<1>3. /\ r.seen \cup r.shown \subseteq 1..(next - 1)
      /\ (r.seen \cup r.shown) \cap coming = {} /\ r.repeated <= r.late
      /\ users \in SUBSET Nat /\ IsFiniteSet(users) /\ IsFiniteSet(old.shown)
      /\ old.removed \in Nat /\ Before(old) \in Nat /\ After(old) \in Nat
      /\ old.late \in Nat /\ old.repeated \in Nat
  BY <1>1, WalkTypes DEF WalkInv
<1>4. ASSUME old.pc \in {"select", "count"} PROVE AtPage(r, R)
  <2>1. AtPage(old, users) /\ old.stayed \subseteq users
    BY <1>4 DEF WalkInv
  <2>2. Covered(old.seen, old.stayed \ {d}, old.removed + 1, R, Before(old))
    BY <1>3, <2>1, CoveredAfterDelete DEF AtPage
  <2>3. Repeated(old.seen, old.repeated, old.late, R, Before(old))
    BY <1>3, <2>1, RepeatedAfterDelete DEF AtPage
  <2> QED
    BY <1>1, <1>2, <1>4, <2>2, <2>3 DEF AtPage
<1>5. ASSUME old.pc \in {"count", "ask"}, old.stayed \subseteq users, ShortIsLast(old)
      PROVE  ShortIsLast(r)
  <2> DEFINE left == old.stayed \ (old.seen \cup old.shown)
             less == (old.stayed \ {d}) \ (old.seen \cup old.shown)
  <2>1. IsFiniteSet(left) /\ less \in SUBSET left
    BY <1>3, <1>5, FS_Subset
  <2>2. /\ Cardinality(less) <= Cardinality(left)
        /\ Cardinality(less) \in Nat /\ Cardinality(left) \in Nat
    <3> HIDE DEF left, less
    <3> QED
      BY <2>1, FS_Subset, FS_CardinalityType
  <2>3. Cardinality(left) <= old.removed => Cardinality(less) <= old.removed + 1
    <3> HIDE DEF left, less
    <3> QED
      BY <1>3, <2>2
  <2> QED
    BY <1>1, <1>5, <2>3 DEF ShortIsLast
<1>6. ASSUME old.pc = "count" PROVE HasPage(r, R)
  <2>1. HasPage(old, users) /\ old.stayed \subseteq users
    BY <1>6 DEF WalkInv
  <2>2. Covered(old.seen \cup old.shown, old.stayed \ {d}, old.removed + 1, R, After(old))
    BY <1>3, <2>1, CoveredAfterDelete DEF HasPage
  <2>3. old.repeated + Cardinality(old.shown \cap old.seen) \in Nat
    <3>1. Cardinality(old.shown \cap old.seen) \in Nat
      BY <1>3, FS_Subset, FS_CardinalityType
    <3> QED
      BY <1>3, <3>1
  <2>4. Repeated(old.seen \cup old.shown, old.repeated + Cardinality(old.shown \cap old.seen),
                 old.late, R, After(old))
    BY <1>3, <2>1, <2>3, RepeatedAfterDelete DEF HasPage
  <2>5. Cardinality(R) = Cardinality(users) - 1 /\ Cardinality(users) \in Nat
    <3>1. d \in users /\ IsFiniteSet(users)
      BY <1>3
    <3> QED
      BY <3>1, FS_RemoveElement, FS_CardinalityType
  <2>6. Agrees(r, Cardinality(users) - 1)
    <3>1. Agrees(old, Cardinality(users))
      BY <2>1 DEF HasPage
    <3>2. /\ Cardinality(users) \in Nat /\ Before(old) \in Nat /\ old.lost \in Nat
          /\ Cardinality(old.shown) \in Nat /\ old.added \in Nat
      BY WalkTypes DEF Walk
    <3> QED
      BY <1>1, <1>2, <1>6, <3>1, <3>2 DEF Agrees
  <2>7. ShortIsLast(r)
    BY <1>5, <1>6, <2>1 DEF HasPage
  <2> QED
    BY <1>1, <1>2, <1>6, <2>2, <2>4, <2>5, <2>6, <2>7 DEF HasPage
<1>7. ASSUME old.pc = "ask" PROVE PastPage(r, R)
  <2>1. PastPage(old, users) /\ old.stayed \subseteq users
    BY <1>7 DEF WalkInv
  <2>2. Covered(old.seen, old.stayed \ {d}, old.removed + 1, R, After(old))
    BY <1>3, <2>1, CoveredAfterDelete DEF PastPage
  <2>3. Repeated(old.seen, old.repeated, old.late, R, After(old))
    BY <1>3, <2>1, RepeatedAfterDelete DEF PastPage
  <2>4. ShortIsLast(r)
    BY <1>5, <1>7, <2>1 DEF PastPage
  <2> QED
    BY <1>1, <1>2, <1>7, <2>1, <2>2, <2>3, <2>4 DEF PastPage, Agrees
<1>8. old.pc \in {"select", "count", "ask"} => r.stayed \subseteq R
  BY <1>1 DEF WalkInv
<1>9. old.pc = "walked" => Cardinality(r.stayed \ r.seen) <= r.removed
  BY <1>1 DEF WalkInv
<1> QED
  BY <1>1, <1>3, <1>4, <1>6, <1>7, <1>8, <1>9 DEF WalkInv

-----------------------------------------------------------------------------
\* Nobody walks at first.
LEMMA PagesInit == Init => PagesInv
<1> SUFFICES ASSUME Init PROVE PagesInv
  OBVIOUS
<1>1. NoWalk \in Walk /\ NoWalk.page >= 1 /\ NoWalk.per \in 1..MaxPer
      /\ NoWalk.shown = {} /\ NoWalk.seen = {} /\ NoWalk.pc = "off"
      /\ NoWalk.repeated = 0 /\ NoWalk.late = 0
  BY PagesAssumption DEF NoWalk, Walk
<1>2. \A w \in Walkers : walk[w] = NoWalk
  BY DEF Init
<1>3. Cardinality(NoWalk.shown) <= NoWalk.per
  <2>1. Cardinality({}) = 0
    BY FS_EmptySet
  <2>2. Cardinality(NoWalk.shown) = 0
    BY <1>1, <2>1, Zenon
  <2> QED
    BY <1>1, <2>2, PagesAssumption
<1>4. TypeOK
  <2>1. walk \in [Walkers -> Walk]
    BY <1>1 DEF Init
  <2>2. next \in 1..(MaxId + 1) /\ users \subseteq 1..(next - 1)
        /\ coming \subseteq 1..(next - 1)
    BY DEF Init
  <2> QED
    BY <1>1, <1>2, <1>3, <2>1, <2>2 DEF TypeOK
<1>5. \A w \in Walkers : WalkInv(walk[w], users, coming, next)
  BY <1>1, <1>2 DEF WalkInv
<1>6. users \cap coming = {}
  BY DEF Init
<1> QED
  BY <1>4, <1>5, <1>6 DEF PagesInv

\* A step of one walk: the others and the table stay.
LEMMA OneWalks ==
  ASSUME PagesInv, NEW w \in Walkers, NEW r \in Walk, Goes(w, r),
         UNCHANGED table,
         r.page >= 1, r.per \in 1..MaxPer, Cardinality(r.shown) <= r.per,
         WalkInv(r, users, coming, next)
  PROVE  PagesInv'
<1>1. /\ walk' \in [Walkers -> Walk]
      /\ \A v \in Walkers : walk'[v] = IF v = w THEN r ELSE walk[v]
  BY DEF PagesInv, TypeOK, Goes
<1>2. TypeOK'
  BY <1>1 DEF PagesInv, TypeOK, table
<1>3. ASSUME NEW v \in Walkers PROVE WalkInv(walk'[v], users', coming', next')
  BY <1>1 DEF PagesInv, table
<1> QED
  BY <1>2, <1>3 DEF PagesInv, table

\* The first request of a walk is in front of everything.
LEMMA BeginStep ==
  ASSUME PagesInv, NEW w \in Walkers, NEW page \in PageParams, NEW per \in PerParams,
         Begin(w, page, per)
  PROVE  PagesInv'
<1> DEFINE r == [NoWalk EXCEPT !.pc = "select", !.page = PageOf(page),
                               !.per = PerOf(per), !.stayed = users]
<1>1. PageOf(page) = 1 /\ PerOf(per) \in 1..MaxPer /\ PerOf(per) \in Nat
  BY ParamTypes
<1>2. users \subseteq Ids
  BY PagesAssumption DEF PagesInv, TypeOK, Ids
<1>3. /\ r \in Walk /\ r.pc = "select" /\ r.page = 1 /\ r.per = PerOf(per)
      /\ r.stayed = users /\ r.shown = {} /\ r.seen = {} /\ r.removed = 0
      /\ r.repeated = 0 /\ r.late = 0
  <2>1. {} \in SUBSET Ids /\ 1 \in Nat /\ 0 \in Nat /\ PageOf(page) \in Nat
    BY <1>1
  <2> QED
    BY <1>1, <1>2, <2>1 DEF NoWalk, Walk
<1>4. IsFiniteSet(users) /\ users \in SUBSET Nat
  BY WalkTypes DEF PagesInv
<1> HIDE DEF r
<1>5. Cardinality({}) = 0
  BY FS_EmptySet
<1>6. Cardinality(r.shown) <= r.per
  <2>1. Cardinality(r.shown) = 0
    BY <1>3, <1>5, Zenon
  <2> QED
    BY <1>1, <1>3, <2>1
<1>7. Before(r) = 0
  BY <1>1, <1>3 DEF Before, Offset
<1>8. AtPage(r, users)
  <2>1. Missed(r.stayed \ r.seen, users, 0) = {}
    <3> SUFFICES ASSUME NEW u \in users, Rank(u, users) <= 0 PROVE FALSE
      BY <1>3 DEF Missed
    <3>1. Rank(u, users) >= 1 /\ Rank(u, users) \in Nat
      BY <1>4, RankType
    <3> QED
      BY <3>1
  <2>2. Cardinality(Missed(r.stayed \ r.seen, users, 0)) = 0
    BY <1>5, <2>1, Zenon
  <2>3. Ahead(r.seen, users, 0) = {}
    BY <1>3 DEF Ahead
  <2>4. Cardinality(Ahead(r.seen, users, 0)) = 0
    BY <1>5, <2>3, Zenon
  <2> QED
    BY <1>3, <1>7, <2>2, <2>4 DEF AtPage, Covered, Repeated
<1>9. WalkInv(r, users, coming, next)
  BY <1>3, <1>8 DEF WalkInv
<1>10. Goes(w, r) /\ UNCHANGED table
  BY DEF Begin, r
<1> QED
  BY <1>1, <1>3, <1>6, <1>9, <1>10, OneWalks

\* The page that is selected goes on where the walk has got to.
LEMMA SelectStep ==
  ASSUME PagesInv, NEW w \in Walkers, Select(w)
  PROVE  PagesInv'
<1> DEFINE page == Rows(users, walk[w].per, Before(walk[w]))
           r == [walk[w] EXCEPT !.pc = "count", !.shown = page,
                                !.lost = 0, !.added = 0]
<1>1. TypeOK /\ WalkInv(walk[w], users, coming, next) /\ walk[w] \in Walk
      /\ walk[w].pc = "select"
      /\ users \subseteq 1..(next - 1) /\ next \in 1..(MaxId + 1)
      /\ walk[w].page >= 1 /\ walk[w].per \in 1..MaxPer
  BY DEF PagesInv, TypeOK, Select
<1>2. walk[w].stayed \subseteq users /\ AtPage(walk[w], users)
      /\ walk[w].seen \subseteq 1..(next - 1) /\ walk[w].seen \cap coming = {}
      /\ users \cap coming = {} /\ walk[w].repeated <= walk[w].late
  BY <1>1 DEF PagesInv, WalkInv
<1>3. /\ HasPage(r, users) /\ AtPage(r, users)
      /\ r.shown \in SUBSET users /\ Cardinality(r.shown) <= r.per
  <2>1. walk[w].stayed \subseteq users /\ AtPage(walk[w], users) /\ TypeOK
    BY <1>1, <1>2
  <2> QED
    BY <2>1, SelectedPage
<1>4. page \subseteq Ids
  <2>1. page \subseteq users
    BY DEF Rows
  <2>2. users \subseteq Ids
    BY <1>1, PagesAssumption DEF Ids
  <2> QED
    BY <2>1, <2>2
<1>5. /\ r \in Walk /\ r.pc = "count" /\ r.page = walk[w].page /\ r.per = walk[w].per
      /\ r.seen = walk[w].seen /\ r.stayed = walk[w].stayed
      /\ r.repeated = walk[w].repeated /\ r.late = walk[w].late
  BY <1>1, <1>4 DEF Walk
<1>6. Goes(w, r) /\ UNCHANGED table
  BY DEF Select, Before
<1> HIDE DEF r
<1>7. WalkInv(r, users, coming, next)
  BY <1>1, <1>2, <1>3, <1>5 DEF WalkInv
<1> QED
  BY <1>1, <1>3, <1>5, <1>6, <1>7, OneWalks

\* The count is of the table as it is, after what came and went since the page.
LEMMA CountAllStep ==
  ASSUME PagesInv, NEW w \in Walkers, CountAll(w)
  PROVE  PagesInv'
<1> DEFINE again == walk[w].shown \cap walk[w].seen
           r == [walk[w] EXCEPT
                   !.pc = "ask", !.total = Count(w), !.seen = @ \cup walk[w].shown,
                   !.repeated = @ + Cardinality(again)]
<1>1. TypeOK /\ WalkInv(walk[w], users, coming, next) /\ walk[w] \in Walk
      /\ walk[w].pc = "count" /\ walk[w].page >= 1 /\ walk[w].per \in 1..MaxPer
      /\ Cardinality(walk[w].shown) <= walk[w].per
  BY DEF PagesInv, TypeOK, CountAll
<1>2. Count(w) \in Nat /\ Count(w) = Cardinality(users)
  BY <1>1, WalkTypes DEF Count
<1>9. Cardinality(again) \in Nat
  BY <1>1, WalkTypes, FS_Subset, FS_CardinalityType
<1>4. Goes(w, r) /\ UNCHANGED table
  BY DEF CountAll
<1> HIDE DEF again
<1>3. /\ r \in Walk /\ r.pc = "ask" /\ r.page = walk[w].page /\ r.per = walk[w].per
      /\ r.shown = walk[w].shown /\ r.total = Cardinality(users)
      /\ r.seen = walk[w].seen \cup walk[w].shown /\ r.stayed = walk[w].stayed
      /\ r.removed = walk[w].removed /\ r.lost = walk[w].lost /\ r.added = walk[w].added
      /\ r.late = walk[w].late /\ r.repeated = walk[w].repeated + Cardinality(again)
  <2> DEFINE times == walk[w].repeated + Cardinality(again)
             all == walk[w].seen \cup walk[w].shown
  <2>1. times \in Nat /\ all \in SUBSET Ids
    BY <1>1, <1>9 DEF Walk
  <2>2. r = [walk[w] EXCEPT !.pc = "ask", !.total = Count(w), !.seen = all,
                            !.repeated = times]
    OBVIOUS
  <2> HIDE DEF times, all, r
  <2>3. /\ r \in Walk /\ r.pc = "ask" /\ r.page = walk[w].page /\ r.per = walk[w].per
        /\ r.shown = walk[w].shown /\ r.total = Count(w) /\ r.seen = all
        /\ r.stayed = walk[w].stayed /\ r.removed = walk[w].removed
        /\ r.lost = walk[w].lost /\ r.added = walk[w].added
        /\ r.late = walk[w].late /\ r.repeated = times
    BY <1>1, <1>2, <2>1, <2>2 DEF Walk
  <2> QED
    BY <1>2, <2>3 DEF times, all
<1> HIDE DEF r
<1>5. Before(r) = Before(walk[w]) /\ After(r) = After(walk[w])
  BY <1>3 DEF Before, After
<1>6. HasPage(walk[w], users)
  BY <1>1 DEF WalkInv
<1>7. PastPage(r, users)
  <2>1. ShortIsLast(r)
    <3>1. r.seen \cup r.shown = walk[w].seen \cup walk[w].shown
      BY <1>3
    <3> QED
      BY <1>3, <1>6, <3>1 DEF HasPage, ShortIsLast
  <2>2. Repeated(r.seen, r.repeated, r.late, users, After(r))
    BY <1>3, <1>5, <1>6 DEF HasPage, again
  <2> QED
    BY <1>3, <1>5, <1>6, <2>1, <2>2 DEF HasPage, PastPage, Agrees
<1>10. r.repeated <= r.late
  <2>1. Cardinality(Ahead(r.seen, users, After(r))) + r.repeated <= r.late
    BY <1>7 DEF PastPage, Repeated
  <2>2. Cardinality(Ahead(r.seen, users, After(r))) \in Nat
    <3>1. Ahead(r.seen, users, After(r)) \in SUBSET users
      BY DEF Ahead
    <3> QED
      BY <1>1, <3>1, WalkTypes, FS_Subset, FS_CardinalityType
  <2>3. r.repeated \in Nat /\ r.late \in Nat
    BY <1>3 DEF Walk
  <2> QED
    BY <2>1, <2>2, <2>3
<1>8. WalkInv(r, users, coming, next)
  BY <1>1, <1>3, <1>7, <1>10 DEF WalkInv
<1> QED
  BY <1>1, <1>3, <1>4, <1>8, OneWalks

\* A failed statement leaves the walk in front of the page it asked for.
LEMMA BreaksStep ==
  ASSUME PagesInv, NEW w \in Walkers, Breaks(w)
  PROVE  PagesInv'
<1> DEFINE r == [walk[w] EXCEPT !.pc = "select", !.shown = {}]
<1>1. TypeOK /\ WalkInv(walk[w], users, coming, next) /\ walk[w] \in Walk
      /\ walk[w].pc = "count" /\ walk[w].page >= 1 /\ walk[w].per \in 1..MaxPer
  BY DEF PagesInv, TypeOK, Breaks
<1>2. /\ r \in Walk /\ r.pc = "select" /\ r.page = walk[w].page /\ r.per = walk[w].per
      /\ r.shown = {} /\ r.seen = walk[w].seen /\ r.stayed = walk[w].stayed
      /\ r.removed = walk[w].removed
      /\ r.repeated = walk[w].repeated /\ r.late = walk[w].late
  BY <1>1 DEF Walk
<1>3. Goes(w, r) /\ UNCHANGED table
  BY DEF Breaks
<1> HIDE DEF r
<1>4. Cardinality(r.shown) <= r.per
  <2>1. Cardinality(r.shown) = 0
    BY <1>2, FS_EmptySet
  <2> QED
    BY <1>1, <1>2, <2>1, WalkTypes
<1>5. AtPage(r, users)
  BY <1>1, <1>2 DEF WalkInv, AtPage, Before
<1>6. WalkInv(r, users, coming, next)
  BY <1>1, <1>2, <1>5 DEF WalkInv
<1> QED
  BY <1>1, <1>2, <1>3, <1>4, <1>6, OneWalks

\* The next page begins where this one ended; a short one was the last.
LEMMA AskStep ==
  ASSUME PagesInv, NEW w \in Walkers, Ask(w)
  PROVE  PagesInv'
<1>1. TypeOK /\ WalkInv(walk[w], users, coming, next) /\ walk[w] \in Walk
      /\ walk[w].pc = "ask" /\ walk[w].page >= 1 /\ walk[w].per \in 1..MaxPer
      /\ Cardinality(walk[w].shown) <= walk[w].per
      /\ UNCHANGED table
  BY DEF PagesInv, TypeOK, Ask
<1>2. PastPage(walk[w], users) /\ walk[w].stayed \subseteq users
  BY <1>1 DEF WalkInv
<1>3. /\ walk[w].page \in Nat /\ walk[w].per \in Nat
      /\ IsFiniteSet(walk[w].shown) /\ Cardinality(walk[w].shown) \in Nat
  BY <1>1, WalkTypes
<1>4. CASE Cardinality(walk[w].shown) < walk[w].per
  <2> DEFINE r == [walk[w] EXCEPT !.pc = "walked"]
  <2>1. /\ r \in Walk /\ r.pc = "walked" /\ r.page = walk[w].page /\ r.per = walk[w].per
        /\ r.shown = walk[w].shown /\ r.seen = walk[w].seen
        /\ r.stayed = walk[w].stayed /\ r.removed = walk[w].removed
        /\ r.repeated = walk[w].repeated /\ r.late = walk[w].late
    BY <1>1 DEF Walk
  <2>2. Goes(w, r)
    BY <1>4 DEF Ask
  <2> HIDE DEF r
  <2>3. walk[w].stayed \ (walk[w].seen \cup walk[w].shown) =
          walk[w].stayed \ walk[w].seen
    BY <1>2 DEF PastPage
  <2>4. Cardinality(walk[w].stayed \ walk[w].seen) <= walk[w].removed
    BY <1>2, <1>4, <2>3 DEF PastPage, ShortIsLast
  <2>5. WalkInv(r, users, coming, next)
    BY <1>1, <2>1, <2>4 DEF WalkInv
  <2> QED
    BY <1>1, <2>1, <2>2, <2>5, OneWalks
<1>5. CASE ~ (Cardinality(walk[w].shown) < walk[w].per)
  <2> DEFINE r == [walk[w] EXCEPT !.pc = "select", !.page = @ + 1, !.shown = {}]
  <2>1. /\ r \in Walk /\ r.pc = "select" /\ r.page = walk[w].page + 1
        /\ r.per = walk[w].per /\ r.shown = {} /\ r.seen = walk[w].seen
        /\ r.stayed = walk[w].stayed /\ r.removed = walk[w].removed
        /\ r.repeated = walk[w].repeated /\ r.late = walk[w].late
    <3>1. walk[w].page + 1 \in Nat /\ {} \in SUBSET Ids
      BY <1>3
    <3> QED
      BY <1>1, <3>1 DEF Walk
  <2>2. Goes(w, r)
    BY <1>5 DEF Ask
  <2> HIDE DEF r
  <2>3. Cardinality(r.shown) <= r.per
    <3>1. Cardinality(r.shown) = 0
      BY <2>1, FS_EmptySet
    <3> QED
      BY <1>3, <2>1, <3>1
  <2>4. Before(r) = After(walk[w])
    BY <1>3, <2>1, OffsetNext DEF Before, After
  <2>5. AtPage(r, users)
    BY <1>2, <2>1, <2>4 DEF PastPage, AtPage
  <2>6. WalkInv(r, users, coming, next)
    BY <1>1, <2>1, <2>5 DEF WalkInv
  <2>7. r.page >= 1
    BY <1>1, <1>3, <2>1
  <2> QED
    BY <1>1, <2>1, <2>2, <2>3, <2>6, <2>7, OneWalks
<1> QED
  BY <1>4, <1>5

\* An id is given out: nobody sees it yet.
LEMMA AllocateStep ==
  ASSUME PagesInv, Allocate
  PROVE  PagesInv'
<1>1. TypeOK /\ users \cap coming = {} /\ next \in Nat
      /\ \A w \in Walkers : WalkInv(walk[w], users, coming, next)
  BY PagesAssumption DEF PagesInv, TypeOK
<1>2. /\ coming' = coming \cup {next} /\ next' = next + 1
      /\ users' = users /\ walk' = walk
  BY DEF Allocate
<1>3. TypeOK'
  BY <1>1, <1>2, PagesAssumption DEF Allocate, TypeOK
<1>4. users' \cap coming' = {}
  BY <1>1, <1>2 DEF TypeOK
<1>5. ASSUME NEW w \in Walkers PROVE WalkInv(walk[w], users, coming \cup {next}, next + 1)
  <2>1. WalkInv(walk[w], users, coming, next)
    BY <1>1
  <2>2. /\ walk[w].seen \cup walk[w].shown \subseteq 1..(next - 1)
        /\ (walk[w].seen \cup walk[w].shown) \cap coming = {}
    BY <2>1 DEF WalkInv
  <2>3. /\ walk[w].seen \cup walk[w].shown \subseteq 1..((next + 1) - 1)
        /\ (walk[w].seen \cup walk[w].shown) \cap (coming \cup {next}) = {}
    BY <1>1, <2>2
  <2> QED
    BY <2>1, <2>3 DEF WalkInv
<1> QED
  BY <1>2, <1>3, <1>4, <1>5 DEF PagesInv

\* A row comes to light.
LEMMA CommitStep ==
  ASSUME PagesInv, NEW n \in coming, Commit(n)
  PROVE  PagesInv'
<1>1. TypeOK /\ users \cap coming = {}
      /\ \A w \in Walkers : WalkInv(walk[w], users, coming, next)
  BY DEF PagesInv
<1>2. ASSUME NEW w \in Walkers
      PROVE  walk'[w] = [walk[w] EXCEPT
                           !.late = IF Walking(w) /\ Late(w, n) THEN @ + 1 ELSE @,
                           !.added = IF walk[w].pc = "count" THEN @ + 1 ELSE @]
  BY DEF Commit
<1>3. ASSUME NEW w \in Walkers
      PROVE  /\ walk'[w] \in Walk /\ walk'[w].page = walk[w].page
             /\ walk'[w].per = walk[w].per /\ walk'[w].shown = walk[w].shown
  <2> DEFINE more == IF walk[w].pc = "count" THEN walk[w].added + 1 ELSE walk[w].added
             after == IF Walking(w) /\ Late(w, n) THEN walk[w].late + 1 ELSE walk[w].late
  <2>1. walk[w] \in Walk
    BY <1>1, WalkTypes
  <2>2. more \in Nat /\ after \in Nat
    BY <2>1 DEF Walk
  <2>3. walk'[w] = [walk[w] EXCEPT !.late = after, !.added = more]
    BY <1>2
  <2> HIDE DEF more, after
  <2> QED
    BY <2>1, <2>2, <2>3 DEF Walk
<1>4. users' = users \cup {n} /\ coming' = coming \ {n} /\ next' = next
  BY DEF Commit
<1>5. TypeOK'
  <2>1. users' \subseteq 1..(next' - 1) /\ coming' \subseteq 1..(next' - 1)
    BY <1>1, <1>4 DEF TypeOK
  <2>2. walk' \in [Walkers -> Walk]
    BY <1>3 DEF Commit
  <2> QED
    BY <1>1, <1>3, <1>4, <2>1, <2>2 DEF TypeOK
<1>6. ASSUME NEW w \in Walkers PROVE WalkInv(walk'[w], users', coming', next')
  BY <1>1, <1>2, <1>4, CommitKeeps
<1>7. users' \cap coming' = {}
  BY <1>1, <1>4
<1> QED
  BY <1>5, <1>6, <1>7 DEF PagesInv

\* An INSERT fails: its id was nobody's.
LEMMA RollBackStep ==
  ASSUME PagesInv, NEW n \in coming, RollBack(n)
  PROVE  PagesInv'
<1>1. /\ coming' = coming \ {n} /\ users' = users /\ next' = next /\ walk' = walk
      /\ TypeOK /\ users \cap coming = {}
      /\ \A w \in Walkers : WalkInv(walk[w], users, coming, next)
  BY DEF PagesInv, RollBack
<1>2. TypeOK' /\ users' \cap coming' = {}
  BY <1>1 DEF TypeOK
<1>3. ASSUME NEW w \in Walkers PROVE WalkInv(walk[w], users, coming \ {n}, next)
  BY <1>1 DEF WalkInv
<1> QED
  BY <1>1, <1>2, <1>3 DEF PagesInv

\* A removal keeps what is known of every walk.
LEMMA DestroyStep ==
  ASSUME PagesInv, NEW d \in users, Destroy(d)
  PROVE  PagesInv'
<1>1. TypeOK /\ \A w \in Walkers : WalkInv(walk[w], users, coming, next)
  BY DEF PagesInv
<1>2. ASSUME NEW w \in Walkers
      PROVE  walk'[w] = [walk[w] EXCEPT
                           !.stayed = IF Walking(w) THEN @ \ {d} ELSE @,
                           !.removed = IF Walking(w) THEN @ + 1 ELSE @,
                           !.lost = IF walk[w].pc = "count" THEN @ + 1 ELSE @]
  BY DEF Destroy
<1>3. ASSUME NEW w \in Walkers
      PROVE  /\ walk'[w] \in Walk /\ walk'[w].page = walk[w].page
             /\ walk'[w].per = walk[w].per /\ walk'[w].shown = walk[w].shown
  <2> DEFINE kept == IF Walking(w) THEN walk[w].stayed \ {d} ELSE walk[w].stayed
             gone == IF Walking(w) THEN walk[w].removed + 1 ELSE walk[w].removed
             less == IF walk[w].pc = "count" THEN walk[w].lost + 1 ELSE walk[w].lost
  <2>1. walk[w] \in Walk
    BY <1>1, WalkTypes
  <2>2. kept \in SUBSET Ids /\ gone \in Nat /\ less \in Nat
    BY <2>1 DEF Walk
  <2>3. walk'[w] = [walk[w] EXCEPT !.stayed = kept, !.removed = gone, !.lost = less]
    BY <1>2
  <2> HIDE DEF kept, gone, less
  <2> QED
    BY <2>1, <2>2, <2>3 DEF Walk
<1>4. users' = users \ {d} /\ next' = next /\ coming' = coming
  BY DEF Destroy
<1>5. TypeOK'
  <2>1. walk' \in [Walkers -> Walk]
    BY <1>3 DEF Destroy
  <2> QED
    BY <1>1, <1>3, <1>4, <2>1 DEF TypeOK
<1>6. ASSUME NEW w \in Walkers PROVE WalkInv(walk'[w], users', coming', next')
  BY <1>1, <1>2, <1>4, DestroyKeeps
<1>7. users' \cap coming' = {}
  BY <1>4 DEF PagesInv
<1> QED
  BY <1>5, <1>6, <1>7 DEF PagesInv

\* Every step keeps the invariant.
LEMMA PagesStep == PagesInv /\ [Next]_vars => PagesInv'
<1> SUFFICES ASSUME PagesInv, [Next]_vars PROVE PagesInv'
  OBVIOUS
<1>1. CASE UNCHANGED vars
  BY <1>1 DEF PagesInv, TypeOK, vars, table
<1>2. ASSUME NEW w \in Walkers, NEW page \in PageParams, NEW per \in PerParams,
             Begin(w, page, per)
      PROVE  PagesInv'
  BY <1>2, BeginStep
<1>3. ASSUME NEW w \in Walkers, Select(w) PROVE PagesInv'
  BY <1>3, SelectStep
<1>4. ASSUME NEW w \in Walkers, CountAll(w) PROVE PagesInv'
  BY <1>4, CountAllStep
<1>5. ASSUME NEW w \in Walkers, Breaks(w) PROVE PagesInv'
  BY <1>5, BreaksStep
<1>6. ASSUME NEW w \in Walkers, Ask(w) PROVE PagesInv'
  BY <1>6, AskStep
<1>7. CASE Allocate
  BY <1>7, AllocateStep
<1>9. ASSUME NEW n \in coming, Commit(n) PROVE PagesInv'
  BY <1>9, CommitStep
<1>10. ASSUME NEW n \in coming, RollBack(n) PROVE PagesInv'
  BY <1>10, RollBackStep
<1>8. ASSUME NEW d \in users, Destroy(d) PROVE PagesInv'
  BY <1>8, DestroyStep
<1> QED
  BY <1>1, <1>2, <1>3, <1>4, <1>5, <1>6, <1>7, <1>8, <1>9, <1>10
     DEF Next

\* What index() is asked for, has selected and has counted, at every moment.
THEOREM PagesInvariant == Spec => []PagesInv
<1>1. Init => PagesInv
  BY PagesInit
<1>2. PagesInv /\ [Next]_vars => PagesInv'
  BY PagesStep
<1> QED
  BY <1>1, <1>2, PTL DEF Spec

\* The types, and no page that is longer than the limit.
THEOREM PagesTyped == Spec => []TypeOK
<1>1. PagesInv => TypeOK
  BY DEF PagesInv
<1> QED
  BY <1>1, PagesInvariant, PTL

\* A walk through the pages of index() repeats one user at most per registration
\* that was overtaken by one the walk had read.
THEOREM PagesRepeatLate == Spec => []RepeatsAreLate
<1>1. PagesInv => RepeatsAreLate
  BY DEF PagesInv, WalkInv, RepeatsAreLate
<1> QED
  BY <1>1, PagesInvariant, PTL

\* A walk through the pages of index() misses one user at most per removal.
THEOREM PagesMissRemovals == Spec => []MissedAreRemovals
<1>1. PagesInv => MissedAreRemovals
  BY DEF PagesInv, WalkInv, MissedAreRemovals
<1> QED
  BY <1>1, PagesInvariant, PTL

\* The total of index() is that of its page, up to what came and went between
\* the two statements.
THEOREM PagesAgreeWithTotal == Spec => []TotalsAgree
<1>1. PagesInv => TotalsAgree
  BY DEF PagesInv, WalkInv, PastPage, Agrees, Before, TotalsAgree
<1> QED
  BY <1>1, PagesInvariant, PTL
=============================================================================
