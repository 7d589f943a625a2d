----------------------------- MODULE ScanProofs -----------------------------
(***************************************************************************)
(* Theorems about reads, for every snapshot, time window and pattern of    *)
(* damaged blocks: the order of the visits, the iterators, and what a scan *)
(* that reports success has visited.                                       *)
(***************************************************************************)
EXTENDS Scan, FiniteSetTheorems, TLAPS

-----------------------------------------------------------------------------
(* The smallest and the largest element of a finite set of numbers *)

\* A finite set of numbers that is not empty has both: of the sets without,
\* take one of the least cardinality, and remove an element of it.
LEMMA Bounded ==
  ASSUME NEW S \in SUBSET Int, IsFiniteSet(S), S # {}
  PROVE  \E lo \in S : \E hi \in S : \A x \in S : lo <= x /\ x <= hi
<1> DEFINE Has(T) == \E lo \in T : \E hi \in T : \A x \in T : lo <= x /\ x <= hi
           Bad == {T \in SUBSET S : T # {} /\ ~Has(T)}
           Sizes == {Cardinality(T) : T \in Bad}
           R == OpToRel(<, Nat)
<1> SUFFICES ASSUME ~Has(S) PROVE FALSE OBVIOUS
<1>1. \A T \in SUBSET S : IsFiniteSet(T) /\ Cardinality(T) \in Nat
  BY FS_Subset, FS_CardinalityType
<1>2. Sizes \subseteq Nat /\ Sizes # {} BY <1>1
<1>3. \E n \in Sizes : \A m \in Sizes : ~(<<m, n>> \in R)
  <2>1. IsWellFoundedOn(R, Nat) BY NatLessThanWellFounded
  <2> HIDE DEF R, Sizes
  <2>2. QED BY <1>2, <2>1, WFMin
<1>4. PICK n \in Sizes : \A m \in Sizes : ~(m < n)
  BY <1>2, <1>3 DEF OpToRel
<1>5. PICK T \in Bad : Cardinality(T) = n BY <1>4
<1>6. PICK x \in T : TRUE BY <1>5
<1> DEFINE U == T \ {x}
<1>7. Cardinality(U) < Cardinality(T) /\ U \in SUBSET S
  <2>1. T \in SUBSET S BY <1>5
  <2>2. IsFiniteSet(T) /\ Cardinality(T) \in Nat BY <1>1, <2>1
  <2>3. Cardinality(U) = Cardinality(T) - 1 BY <1>6, <2>2, FS_RemoveElement
  <2>4. Cardinality(U) < Cardinality(T)
    <3> HIDE DEF U
    <3>1. QED BY <2>2, <2>3
  <2>5. U \in SUBSET S BY <2>1
  <2>6. QED BY <2>4, <2>5
<1>8. U \notin Bad BY <1>4, <1>5, <1>7
<1>9. x \in Int /\ T \subseteq Int BY <1>5, <1>6
<1>10. CASE U = {}
  <2>1. T = {x} BY <1>6, <1>10
  <2>2. x <= x BY <1>9
  <2>3. Has(T) BY <2>1, <2>2
  <2>4. QED BY <1>5, <2>3
<1>11. CASE U # {}
  <2>1. PICK lo \in U : \E hi \in U : \A y \in U : lo <= y /\ y <= hi
    BY <1>7, <1>8, <1>11
  <2>2. PICK hi \in U : \A y \in U : lo <= y /\ y <= hi BY <2>1
  <2>3. lo \in Int /\ hi \in Int BY <1>9
  <2>4. \A y \in T : y = x \/ y \in U OBVIOUS
  <2>5. \E a \in T : \A y \in T : a <= y BY <1>9, <2>2, <2>3, <2>4
  <2>6. \E b \in T : \A y \in T : y <= b BY <1>9, <2>2, <2>3, <2>4
  <2>7. Has(T) BY <2>5, <2>6
  <2>8. QED BY <1>5, <2>7
<1>12. QED BY <1>10, <1>11

LEMMA MinIs ==
  ASSUME NEW S \in SUBSET Int, IsFiniteSet(S), S # {}
  PROVE  Min(S) \in S /\ \A x \in S : Min(S) <= x
<1>1. \E lo \in S : \A x \in S : lo <= x BY Bounded
<1>2. QED BY <1>1 DEF Min

LEMMA MaxIs ==
  ASSUME NEW S \in SUBSET Int, IsFiniteSet(S), S # {}
  PROVE  Max(S) \in S /\ \A x \in S : x <= Max(S)
<1>1. \E hi \in S : \A x \in S : hi >= x BY Bounded
<1>2. QED BY <1>1 DEF Max

-----------------------------------------------------------------------------
(* Snapshots *)

\* The snapshot is made of MemTables and SSTables and does not change.
InputOK ==
    /\ sources \in Seq(MemTables \cup Tables)
    /\ ts \in [DocIDs -> Times] /\ window \in Windows

LEMMA SourceIs ==
  ASSUME InputOK, NEW i \in 1..Len(sources)
  PROVE  /\ sources[i].docs \subseteq DocIDs
         /\ sources[i].kind = "sst" => sources[i].docs # {}
         /\ Corruption # "any" /\ sources[i].docs # {} =>
               Min(sources[i].docs) \notin sources[i].bad
<1>1. sources[i] \in MemTables \cup Tables BY DEF InputOK
<1>2. CASE sources[i] \in MemTables BY <1>2 DEF MemTables
<1>3. CASE sources[i] \in Tables
  BY <1>3, CorruptionAssumption DEF Tables
<1>4. QED BY <1>1, <1>2, <1>3

\* Opening the snapshot: MemTables, then SSTables.
LEMMA SnapshotIs == Init => InputOK
<1> SUFFICES ASSUME Init PROVE InputOK OBVIOUS
<1>1. \E m \in 1..MaxMemTables, n \in 0..MaxTables :
         \E mems \in [1..m -> MemTables], ssts \in [1..n -> Tables] :
            sources = mems \o ssts
  BY DEF Init
<1>2. PICK m \in 1..MaxMemTables, n \in 0..MaxTables :
         \E mems \in [1..m -> MemTables], ssts \in [1..n -> Tables] :
            sources = mems \o ssts
  BY <1>1
<1>3. PICK mems \in [1..m -> MemTables], ssts \in [1..n -> Tables] :
         sources = mems \o ssts
  BY <1>2
<1> DEFINE S == MemTables \cup Tables
<1>4. m \in Nat /\ n \in Nat BY BoundsAssumption
<1>5. mems \in [1..m -> S] /\ ssts \in [1..n -> S] OBVIOUS
<1> HIDE DEF S
<1>6. mems \in Seq(S) /\ ssts \in Seq(S) BY <1>4, <1>5
<1>7. sources \in Seq(S) BY <1>3, <1>6
<1>8. QED BY <1>7 DEF InputOK, Init, S

LEMMA DocIDSets ==
  ASSUME NEW S \in SUBSET DocIDs PROVE IsFiniteSet(S) /\ S \in SUBSET Int
<1>1. IsFiniteSet(DocIDs) BY DocIDAssumption
<1>2. IsFiniteSet(S) BY <1>1, FS_Subset
<1>3. QED BY <1>2, DocIDAssumption

\* The record an iterator moves to is the next one of its source.
LEMMA NextIs ==
  ASSUME InputOK, NEW i \in 1..Len(sources), NEW d \in Nat, ~AtEnd(sources[i], d)
  PROVE  /\ Min(Following(sources[i], d)) \in sources[i].docs
         /\ Min(Following(sources[i], d)) > d
         /\ \A x \in sources[i].docs : x > d => Min(Following(sources[i], d)) <= x
<1> DEFINE F == Following(sources[i], d)
<1>1. F \subseteq DocIDs /\ F # {} BY SourceIs DEF Following, AtEnd
<1> HIDE DEF F
<1>2. IsFiniteSet(F) /\ F \in SUBSET Int BY <1>1, DocIDSets
<1>3. Min(F) \in F /\ \A x \in F : Min(F) <= x BY <1>1, <1>2, MinIs
<1>4. QED BY <1>3 DEF F, Following

\* What pruning leaves out is out of the window: the bounds pruneSSTable
\* compares are the least and the largest timestamp of the table.
LEMMA PrunedIsOutside ==
  ASSUME InputOK, NEW i \in 1..Len(sources), Pruned(sources[i]),
         NEW d \in sources[i].docs
  PROVE  ~InWindow(d)
<1> DEFINE D == sources[i].docs
           T == {ts[x] : x \in D}
           f == [x \in D |-> ts[x]]
<1>1. D \subseteq DocIDs BY SourceIs
<1>2. T \in SUBSET Int BY <1>1, TimesAssumption DEF InputOK
<1>3. IsFiniteSet(T)
  <2>1. f \in Surjection(D, T) BY DEF Surjection
  <2>2. IsFiniteSet(D) BY <1>1, DocIDAssumption, FS_Subset
  <2> HIDE DEF D, T, f
  <2>3. QED BY <2>1, <2>2, FS_Surjection
<1>4. ts[d] \in T OBVIOUS
<1>5. /\ Min(T) \in Int /\ Max(T) \in Int /\ ts[d] \in Int
      /\ Min(T) <= ts[d] /\ ts[d] <= Max(T)
  <2> HIDE DEF T
  <2>1. QED BY <1>2, <1>3, <1>4, MinIs, MaxIs
<1>6. window.min \in Int /\ window.max \in Int BY WindowsAssumption DEF InputOK
<1>7. MinTimestamp(sources[i]) = Min(T) /\ MaxTimestamp(sources[i]) = Max(T)
  BY DEF MinTimestamp, MaxTimestamp
<1>8. QED BY <1>5, <1>6, <1>7 DEF Pruned, InWindow

-----------------------------------------------------------------------------
(* The inductive invariant *)

\* Where the cursors are: each stands at a record of its source, past all
\* that is visited, and nothing is visited before all cursors are in place.
Cursors ==
    /\ TypeOK
    /\ head \in [DOMAIN head -> DocIDs] /\ visited \in Seq(DocIDs \X Nat)
    /\ visited # <<>> => opened = Len(sources)
    /\ \A i \in DOMAIN head : head[i] \in sources[i].docs
    /\ \A i \in DOMAIN head : \A k \in DOMAIN visited : visited[k][1] < head[i]
    /\ VisitOrder /\ IteratorsReleased

\* The sources a scan reads: kept by pruning, and their first block loads.
Read(i) == ~Pruned(sources[i]) /\ ~Fails(sources[i], 0)

\* Nothing is passed over: of a source that is read, a record is visited,
\* still ahead of the cursor, or behind an error that will be reported.
Passed ==
    \A i \in 1..opened : Read(i) =>
        \A d \in sources[i].docs :
            d \in Visited \/ i \in lastErr \/ (i \in DOMAIN head /\ head[i] <= d)

\* While no iterator has failed, the version visited is of the first source
\* among those read that has the record.
Wins(d, w) ==
    /\ w \in 1..Len(sources) /\ d \in sources[w].docs
    /\ \A j \in 1..Len(sources) : Read(j) /\ d \in sources[j].docs => w <= j
Winners == lastErr = {} => \A k \in DOMAIN visited : Wins(visited[k][1], visited[k][2])

ScanInv ==
    /\ InputOK /\ Cursors /\ Passed /\ Winners
    /\ result = "ok" => lastErr = {} /\ head = <<>> /\ opened = Len(sources)

-----------------------------------------------------------------------------
(* One turn of the merge *)

\* What Visit does to the cursors, when the smallest DocID is id and w is
\* the first source that stands at it.
Turn(id, w) ==
    /\ visited' = Append(visited, <<id, w>>)
    /\ \A i \in DOMAIN head : id <= head[i]
    /\ w \in DOMAIN head /\ head[w] = id
    /\ \A i \in DOMAIN head : head[i] = id => w <= i
    /\ DOMAIN head' \subseteq DOMAIN head /\ head' \in [DOMAIN head' -> DocIDs]
    /\ \A i \in DOMAIN head : head[i] # id => i \in DOMAIN head' /\ head'[i] = head[i]
    /\ \A i \in DOMAIN head' : head[i] = id =>
          /\ head'[i] \in sources[i].docs /\ id < head'[i]
          /\ \A x \in sources[i].docs : x > id => head'[i] <= x
    /\ \A i \in DOMAIN head \ DOMAIN head' :
          i \in lastErr' \/ \A x \in sources[i].docs : ~(x > id)
    /\ lastErr \subseteq lastErr' /\ lastErr' \subseteq lastErr \cup DOMAIN head
    /\ iters' = DOMAIN head'

\* A function without arguments is the empty heap.
LEMMA EmptyHead ==
  ASSUME NEW f, f \in [DOMAIN f -> DocIDs], DOMAIN f = {} PROVE f = <<>>
  OBVIOUS

LEMMA VisitIs ==
  ASSUME InputOK, Cursors, Visit
  PROVE  \E id \in DocIDs : \E w \in DOMAIN head : Turn(id, w)
<1> DEFINE id == Min(Range(head))
           at == StandingAt(id)
           moved == {i \in at : Moves(sources[i], id)}
           stay == DOMAIN head \ (at \ moved)
           w == Winner(at)
<1>1. /\ head' = [i \in stay |->
                   IF i \in moved THEN Min(Following(sources[i], id)) ELSE head[i]]
      /\ lastErr' = lastErr \cup {i \in at : Fails(sources[i], id)}
      /\ iters' = iters \ (at \ moved)
      /\ visited' = Append(visited, <<id, w>>)
  BY DEF Visit
<1>2. /\ DOMAIN head \subseteq 1..Len(sources) /\ Len(sources) \in Nat
      /\ DOMAIN head \subseteq Int
      /\ iters = DOMAIN head
  BY DEF Visit, Merging, Cursors, TypeOK, IteratorsReleased, InputOK
<1>3. id \in Range(head) /\ \A x \in Range(head) : id <= x
  <2>1. Range(head) \subseteq DocIDs BY DEF Cursors, TypeOK
  <2>2. Range(head) # {}
    <3>1. DOMAIN head # {} BY EmptyHead DEF Visit, Cursors
    <3>2. QED BY <3>1 DEF Range
  <2>3. IsFiniteSet(Range(head)) /\ Range(head) \in SUBSET Int
    BY <2>1, DocIDSets
  <2>4. QED BY <2>2, <2>3, MinIs
<1>4. id \in DocIDs /\ id \in Nat BY <1>3, DocIDAssumption DEF Cursors, TypeOK
<1>5. at \subseteq DOMAIN head /\ \A i \in DOMAIN head : i \in at <=> head[i] = id
  BY DEF StandingAt
<1>6. w \in at /\ \A i \in at : w <= i
  <2>1. at # {} BY <1>3, <1>5 DEF Range
  <2>2. IsFiniteSet(at) /\ at \in SUBSET Int
    <3>1. at \subseteq 1..Len(sources) BY <1>2, <1>5
    <3>2. IsFiniteSet(1..Len(sources)) BY <1>2, FS_Interval
    <3> HIDE DEF at
    <3>3. IsFiniteSet(at) BY <3>1, <3>2, FS_Subset
    <3>4. QED BY <1>2, <3>1, <3>3
  <2> HIDE DEF at
  <2>3. QED BY <2>1, <2>2, MinIs DEF Winner, w
<1> HIDE DEF id, at, w
<1>7. ASSUME NEW i \in at
      PROVE  /\ i \in moved =>
                  /\ Min(Following(sources[i], id)) \in sources[i].docs
                  /\ id < Min(Following(sources[i], id))
                  /\ \A x \in sources[i].docs :
                        x > id => Min(Following(sources[i], id)) <= x
             /\ i \notin moved =>
                  Fails(sources[i], id) \/ \A x \in sources[i].docs : ~(x > id)
  <2>1. i \in 1..Len(sources) BY <1>2, <1>5
  <2>2. CASE AtEnd(sources[i], id) BY <2>2 DEF Moves, AtEnd, Following
  <2>3. CASE ~AtEnd(sources[i], id)
    <3> DEFINE n == Min(Following(sources[i], id))
    <3>1. /\ n \in sources[i].docs /\ n > id
          /\ \A x \in sources[i].docs : x > id => n <= x
      BY <1>4, <2>1, <2>3, NextIs
    <3>2. n \in Nat BY <2>1, <3>1, SourceIs, DocIDAssumption
    <3> HIDE DEF n
    <3>3. id < n BY <1>4, <3>1, <3>2
    <3>4. i \notin moved => Fails(sources[i], id) BY <2>3 DEF Moves
    <3> USE DEF n
    <3>5. QED BY <3>1, <3>3, <3>4
  <2>4. QED BY <2>2, <2>3
<1>8. /\ DOMAIN head' = stay /\ stay \subseteq DOMAIN head
      /\ \A i \in stay : i \in at => i \in moved
      /\ \A i \in DOMAIN head \ stay : i \in at /\ i \notin moved
      /\ \A i \in DOMAIN head : i \notin at => i \in stay
      /\ moved \subseteq at
  BY <1>1, <1>5
<1>9. \A i \in stay :
         head'[i] = IF i \in moved THEN Min(Following(sources[i], id)) ELSE head[i]
  BY <1>1
<1> HIDE DEF moved, stay
<1>10. head' \in [DOMAIN head' -> DocIDs]
  <2>1. ASSUME NEW i \in stay PROVE head'[i] \in DocIDs
    <3>1. CASE i \in moved
      <4>1. i \in 1..Len(sources) BY <1>2, <1>8
      <4>2. head'[i] \in sources[i].docs BY <1>7, <1>8, <1>9, <3>1
      <4>3. QED BY <4>1, <4>2, SourceIs
    <3>2. CASE i \notin moved
      BY <1>8, <1>9, <3>2 DEF Cursors
    <3>3. QED BY <3>1, <3>2
  <2>2. QED BY <1>1, <1>8, <2>1
<1>11. \A i \in DOMAIN head : id <= head[i] BY <1>3 DEF Range
<1>12. \A i \in DOMAIN head : head[i] # id => i \in DOMAIN head' /\ head'[i] = head[i]
  BY <1>5, <1>8, <1>9
<1>13. \A i \in DOMAIN head' : head[i] = id =>
          /\ head'[i] \in sources[i].docs /\ id < head'[i]
          /\ \A x \in sources[i].docs : x > id => head'[i] <= x
  BY <1>5, <1>7, <1>8, <1>9
<1>14. \A i \in DOMAIN head \ DOMAIN head' :
          i \in lastErr' \/ \A x \in sources[i].docs : ~(x > id)
  BY <1>1, <1>7, <1>8
<1>15. iters' = DOMAIN head'
  BY <1>1, <1>2, <1>5, <1>8 DEF stay
<1>16. w \in DOMAIN head /\ head[w] = id /\ \A i \in DOMAIN head : head[i] = id => w <= i
  BY <1>5, <1>6
<1>17. Turn(id, w)
  BY <1>1, <1>5, <1>8, <1>10, <1>11, <1>12, <1>13, <1>14, <1>15, <1>16 DEF Turn
<1>18. QED BY <1>4, <1>16, <1>17

-----------------------------------------------------------------------------
(* The invariant holds *)

LEMMA SameInput ==
  ASSUME InputOK, UNCHANGED input
  PROVE  /\ InputOK' /\ Len(sources) \in Nat
         /\ \A i : Read(i)' <=> Read(i)
         /\ \A d, w : Wins(d, w)' <=> Wins(d, w)
<1>1. sources' = sources /\ ts' = ts /\ window' = window BY DEF input
<1>2. InputOK' /\ Len(sources) \in Nat BY <1>1 DEF InputOK
<1>3. \A i : Read(i)' <=> Read(i)
  BY <1>1 DEF Read, Pruned, MinTimestamp, MaxTimestamp, Fails, AtEnd, Following
<1>4. \A d, w : Wins(d, w)' <=> Wins(d, w) BY <1>1, <1>3 DEF Wins
<1>5. QED BY <1>2, <1>3, <1>4

LEMMA InvInit == Init => ScanInv
<1> SUFFICES ASSUME Init PROVE ScanInv OBVIOUS
<1>1. InputOK BY SnapshotIs
<1>2. opened = 0 /\ head = <<>> /\ lastErr = {} /\ iters = {} /\ visited = <<>>
      /\ result = "running" /\ Len(sources) \in Nat
  BY <1>1 DEF Init, InputOK
<1>3. DOMAIN head = {} /\ Range(head) = {} /\ DOMAIN visited = {}
  BY <1>2 DEF Range
<1>4. Cursors
  BY <1>2, <1>3 DEF Cursors, TypeOK, VisitOrder, IteratorsReleased
<1>5. Passed /\ Winners BY <1>2, <1>3 DEF Passed, Winners
<1>6. QED BY <1>1, <1>2, <1>4, <1>5 DEF ScanInv

LEMMA SkipPrunedStep == ASSUME ScanInv, SkipPruned PROVE ScanInv'
<1>1. /\ InputOK /\ Cursors /\ Passed /\ Winners /\ UNCHANGED input
      /\ UNCHANGED <<head, lastErr, iters, visited, result>>
      /\ opened' = opened + 1 /\ opened < Len(sources) /\ result = "running"
  BY DEF ScanInv, SkipPruned, Opening
<1>2. sources' = sources BY <1>1 DEF input
<1>3. opened \in Nat /\ opened' \in 1..Len(sources) /\ 1..opened' = 1..opened \cup {opened'}
  BY <1>1, SameInput DEF Cursors, TypeOK
<1>4. visited = <<>> BY <1>1, SameInput DEF Cursors, TypeOK
<1>5. Cursors'
  BY <1>1, <1>2, <1>3, <1>4 DEF Cursors, TypeOK, VisitOrder, IteratorsReleased
<1>6. Passed'
  <2>1. ~Read(opened') BY <1>1 DEF SkipPruned, Read
  <2>2. \A i \in 1..opened' : Read(i)' => i \in 1..opened /\ Read(i)
    BY <1>1, <1>3, <2>1, SameInput
  <2>3. QED BY <1>1, <1>2, <2>2 DEF Passed, Visited
<1>7. Winners' BY <1>1, <1>4 DEF Winners
<1>8. QED BY <1>1, <1>5, <1>6, <1>7, SameInput DEF ScanInv

LEMMA AddCursorStep == ASSUME ScanInv, AddCursor PROVE ScanInv'
<1> DEFINE i == opened + 1
           s == sources[i]
<1>1. /\ InputOK /\ Cursors /\ Passed /\ Winners /\ UNCHANGED input
      /\ UNCHANGED <<lastErr, visited, result>>
      /\ opened' = i /\ opened < Len(sources) /\ result = "running"
  BY DEF ScanInv, AddCursor, Opening
<1>2. sources' = sources BY <1>1 DEF input
<1>3. /\ opened \in Nat /\ i \in 1..Len(sources) /\ 1..opened' = 1..opened \cup {i}
      /\ i \notin 1..opened
  BY <1>1, SameInput DEF Cursors, TypeOK
<1>4. visited = <<>> BY <1>1, SameInput DEF Cursors, TypeOK
<1>5. s.docs \subseteq DocIDs BY <1>1, <1>3, SourceIs
<1>6. Following(s, 0) = s.docs
  <2>1. \A x \in DocIDs : x > 0 BY DocIDAssumption
  <2> HIDE DEF s
  <2>2. QED BY <1>5, <2>1 DEF Following
<1>7. CASE Moves(s, 0)
  <2> DEFINE n == Min(s.docs)
  <2>1. n \in s.docs /\ \A x \in s.docs : n <= x
    <3>1. s.docs # {} BY <1>6, <1>7 DEF Moves, AtEnd
    <3>2. QED BY <1>5, <3>1, DocIDSets, MinIs
  <2>2. head' = [k \in DOMAIN head \cup {i} |-> IF k = i THEN n ELSE head[k]]
        /\ iters' = iters \cup {i}
    BY <1>7 DEF AddCursor
  <2> HIDE DEF n, i
  <2>3. /\ DOMAIN head' = DOMAIN head \cup {i} /\ head'[i] = n
        /\ \A k \in DOMAIN head : head'[k] = head[k]
    BY <1>1, <1>3, <2>2 DEF Cursors, TypeOK
  <2>4. /\ head' \in [DOMAIN head' -> DocIDs] /\ Range(head') \subseteq DocIDs
        /\ DOMAIN head' \subseteq 1..opened'
    BY <1>1, <1>3, <1>5, <2>1, <2>2, <2>3 DEF Cursors, TypeOK, Range, s
  <2>5. \A k \in DOMAIN head' : head'[k] \in sources'[k].docs
    BY <1>1, <1>2, <2>1, <2>3 DEF Cursors, s
  <2>6. lastErr' \subseteq 1..opened' /\ iters' = DOMAIN head' /\ opened' \in 0..Len(sources')
    BY <1>1, <1>2, <1>3, <2>2, <2>3 DEF Cursors, TypeOK, IteratorsReleased
  <2>7. visited' = <<>> /\ DOMAIN visited' = {} BY <1>1, <1>4
  <2>8. Cursors'
    BY <1>1, <2>4, <2>5, <2>6, <2>7 DEF Cursors, TypeOK, VisitOrder, IteratorsReleased
  <2>9. Passed'
    <3> SUFFICES ASSUME NEW k \in 1..opened', Read(k), NEW d \in sources[k].docs
                 PROVE  k \in lastErr \/ (k \in DOMAIN head' /\ head'[k] <= d)
      BY <1>1, <1>2, SameInput DEF Passed
    <3>1. CASE k = i BY <2>1, <2>3, <3>1 DEF s
    <3>2. CASE k # i
      <4>1. d \notin Visited BY <1>4 DEF Visited
      <4>2. k \in 1..opened BY <1>3, <3>2
      <4>3. QED BY <1>1, <2>3, <4>1, <4>2 DEF Passed
    <3>3. QED BY <3>1, <3>2
  <2>10. Winners' BY <2>7 DEF Winners
  <2>11. QED BY <1>1, <2>8, <2>9, <2>10, SameInput DEF ScanInv
<1>8. CASE ~Moves(s, 0)
  <2>1. UNCHANGED <<head, iters>> BY <1>8 DEF AddCursor
  <2>2. Cursors'
    BY <1>1, <1>2, <1>3, <1>4, <2>1 DEF Cursors, TypeOK, VisitOrder, IteratorsReleased
  <2>3. Read(i) => s.docs = {} BY <1>6, <1>8 DEF Read, Moves, AtEnd
  <2> HIDE DEF i
  <2>4. Passed'
    <3> SUFFICES ASSUME NEW k \in 1..opened', Read(k), NEW d \in sources[k].docs
                 PROVE  d \in Visited \/ k \in lastErr \/ (k \in DOMAIN head /\ head[k] <= d)
      BY <1>1, <1>2, <2>1, SameInput DEF Passed, Visited
    <3>1. k # i BY <2>3 DEF s
    <3>2. QED BY <1>1, <1>3, <3>1 DEF Passed
  <2>5. Winners' BY <1>1, <1>4 DEF Winners
  <2>6. QED BY <1>1, <2>2, <2>4, <2>5, SameInput DEF ScanInv
<1>9. QED BY <1>7, <1>8

LEMMA ReturnStep == ASSUME ScanInv, Abort \/ Finish PROVE ScanInv'
<1>1. /\ InputOK /\ Cursors /\ Passed /\ Winners /\ UNCHANGED input
      /\ UNCHANGED <<opened, head, lastErr, visited>>
      /\ opened = Len(sources) /\ iters' = {}
      /\ result' \in {"aborted", "ok", "error"}
      /\ result' = "ok" => lastErr = {} /\ head = <<>>
  BY DEF ScanInv, Abort, Finish, Merging
<1>2. sources' = sources BY <1>1 DEF input
<1>3. Cursors' BY <1>1, <1>2 DEF Cursors, TypeOK, VisitOrder, IteratorsReleased
<1>4. Passed' BY <1>1, <1>2, SameInput DEF Passed, Visited
<1>5. Winners' BY <1>1, SameInput DEF Winners
<1>6. QED BY <1>1, <1>2, <1>3, <1>4, <1>5, SameInput DEF ScanInv

LEMMA VisitStep == ASSUME ScanInv, Visit PROVE ScanInv'
<1>1. /\ InputOK /\ Cursors /\ Passed /\ Winners
      /\ UNCHANGED input /\ UNCHANGED <<opened, result>>
      /\ opened = Len(sources) /\ result = "running"
  BY DEF ScanInv, Visit, Merging
<1>2. PICK id \in DocIDs : \E w \in DOMAIN head : Turn(id, w) BY <1>1, VisitIs
<1>3. PICK w \in DOMAIN head : Turn(id, w) BY <1>2
<1>4. sources' = sources BY <1>1 DEF input
<1>5. /\ DOMAIN head \subseteq 1..opened /\ opened \in Nat /\ w \in 1..opened
      /\ head \in [DOMAIN head -> DocIDs]
  BY <1>1, SameInput DEF Cursors, TypeOK
<1>6. /\ visited \in Seq(DocIDs \X Nat) /\ visited' \in Seq(DocIDs \X Nat)
      /\ visited' # <<>>
      /\ DOMAIN visited = 1..Len(visited) /\ Len(visited) \in Nat
      /\ DOMAIN visited' = 1..(Len(visited) + 1)
      /\ visited'[Len(visited) + 1] = <<id, w>>
      /\ \A k \in DOMAIN visited : visited'[k] = visited[k]
  <2>1. visited \in Seq(DocIDs \X Nat) BY <1>1 DEF Cursors
  <2>2. <<id, w>> \in DocIDs \X Nat BY <1>5
  <2>3. visited' = Append(visited, <<id, w>>) BY <1>3 DEF Turn
  <2> DEFINE S == DocIDs \X Nat
             e == <<id, w>>
  <2> HIDE DEF S, e
  <2>4. ASSUME visited \in Seq(S), e \in S, visited' = Append(visited, e)
        PROVE  /\ visited' \in Seq(S) /\ visited' # <<>>
               /\ DOMAIN visited = 1..Len(visited) /\ Len(visited) \in Nat
               /\ DOMAIN visited' = 1..(Len(visited) + 1)
               /\ visited'[Len(visited) + 1] = e
               /\ \A k \in DOMAIN visited : visited'[k] = visited[k]
    BY <2>4
  <2>5. QED BY <2>1, <2>2, <2>3, <2>4 DEF S, e
<1>7. \A k \in DOMAIN visited : visited[k] \in DocIDs \X (1..opened)
  BY <1>1 DEF Cursors, TypeOK
<1> DEFINE last == Len(visited) + 1
<1>8. DOMAIN visited' = DOMAIN visited \cup {last} /\ last \notin DOMAIN visited
  BY <1>6
<1>9. \A d \in DocIDs : d \in Int BY DocIDAssumption
<1>10. \A k \in DOMAIN visited : visited[k][1] < id
  BY <1>1, <1>3, <1>9 DEF Cursors, Turn
<1>11. \A i \in DOMAIN head' : /\ i \in DOMAIN head /\ head'[i] \in DocIDs
                              /\ head'[i] \in sources[i].docs /\ id < head'[i]
  <2> SUFFICES ASSUME NEW i \in DOMAIN head'
               PROVE  /\ i \in DOMAIN head /\ head'[i] \in DocIDs
                      /\ head'[i] \in sources[i].docs /\ id < head'[i]
    OBVIOUS
  <2>1. i \in DOMAIN head /\ head'[i] \in DocIDs BY <1>3 DEF Turn
  <2>2. CASE head[i] = id BY <1>3, <2>1, <2>2 DEF Turn
  <2>3. CASE head[i] # id
    <3>1. head'[i] = head[i] /\ id <= head[i] BY <1>3, <2>1, <2>3 DEF Turn
    <3>2. id < head'[i] BY <1>9, <2>1, <2>3, <3>1
    <3>3. QED BY <1>1, <2>1, <3>1, <3>2 DEF Cursors
  <2>4. QED BY <2>2, <2>3
<1>12. Cursors'
  <2>1. TypeOK'
    <3>1. \A k \in DOMAIN visited' : visited'[k] \in DocIDs \X (1..opened)
      <4> SUFFICES ASSUME NEW k \in DOMAIN visited'
                   PROVE  visited'[k] \in DocIDs \X (1..opened)
        OBVIOUS
      <4>1. CASE k = last BY <1>5, <1>6, <4>1
      <4>2. CASE k \in DOMAIN visited BY <1>6, <1>7, <4>2
      <4>3. QED BY <1>8, <4>1, <4>2
    <3>2. /\ DOMAIN head' \subseteq 1..opened /\ Range(head') \subseteq DocIDs
          /\ lastErr' \subseteq 1..opened /\ iters' \subseteq 1..opened
      BY <1>1, <1>3, <1>5, <1>11 DEF Turn, Range, Cursors, TypeOK
    <3>3. QED BY <1>1, <1>4, <3>1, <3>2 DEF Cursors, TypeOK
  <2>2. \A i \in DOMAIN head' : \A k \in DOMAIN visited' : visited'[k][1] < head'[i]
    <3> SUFFICES ASSUME NEW i \in DOMAIN head', NEW k \in DOMAIN visited'
                 PROVE  visited'[k][1] < head'[i]
      OBVIOUS
    <3>1. id < head'[i] /\ head'[i] \in Int BY <1>9, <1>11
    <3>2. CASE k = last BY <1>6, <3>1, <3>2
    <3>3. CASE k \in DOMAIN visited
      <4>1. visited'[k][1] < id /\ visited'[k][1] \in Int
        BY <1>6, <1>7, <1>9, <1>10, <3>3
      <4>2. QED BY <1>9, <3>1, <4>1
    <3>4. QED BY <1>8, <3>2, <3>3
  <2>3. VisitOrder'
    <3> SUFFICES ASSUME NEW j \in DOMAIN visited', NEW k \in DOMAIN visited', j < k
                 PROVE  visited'[j][1] < visited'[k][1]
      BY DEF VisitOrder
    <3>1. j \in DOMAIN visited BY <1>6
    <3>2. CASE k = last BY <1>6, <1>10, <3>1, <3>2
    <3>3. CASE k \in DOMAIN visited
      BY <1>1, <1>6, <3>1, <3>3 DEF Cursors, VisitOrder
    <3>4. QED BY <1>8, <3>2, <3>3
  <2>4. IteratorsReleased' BY <1>1, <1>3 DEF Turn, IteratorsReleased
  <2>5. QED BY <1>1, <1>3, <1>4, <1>6, <1>11, <2>1, <2>2, <2>3, <2>4 DEF Cursors, Turn
<1>13. id \in Visited' /\ Visited \subseteq Visited'
  <2>1. visited'[last][1] = id BY <1>6
  <2>2. QED BY <1>6, <1>8, <2>1 DEF Visited
<1>14. Passed'
  <2> SUFFICES ASSUME NEW i \in 1..opened, Read(i), NEW d \in sources[i].docs
               PROVE  d \in Visited' \/ i \in lastErr' \/ (i \in DOMAIN head' /\ head'[i] <= d)
    BY <1>1, <1>4, SameInput DEF Passed
  <2>1. d \in DocIDs BY <1>1, SourceIs
  <2>2. d \in Visited \/ i \in lastErr \/ (i \in DOMAIN head /\ head[i] <= d)
    BY <1>1 DEF Passed
  <2>3. CASE d \in Visited \/ i \in lastErr BY <1>3, <1>13, <2>3 DEF Turn
  <2>4. CASE i \in DOMAIN head /\ head[i] <= d
    <3>1. CASE head[i] # id BY <1>3, <2>4, <3>1 DEF Turn
    <3>2. CASE head[i] = id /\ d = id BY <1>13, <3>2
    <3>3. CASE head[i] = id /\ d # id
      <4>1. d > id BY <1>9, <2>1, <2>4, <3>3
      <4>2. QED BY <1>3, <2>4, <3>3, <4>1 DEF Turn
    <3>4. QED BY <3>1, <3>2, <3>3
  <2>5. QED BY <2>2, <2>3, <2>4
<1>15. Winners'
  <2> SUFFICES ASSUME lastErr' = {}, NEW k \in DOMAIN visited'
               PROVE  Wins(visited'[k][1], visited'[k][2])
    BY <1>1, SameInput DEF Winners
  <2>1. lastErr = {} BY <1>3 DEF Turn
  <2>2. CASE k \in DOMAIN visited BY <1>1, <1>6, <2>1, <2>2 DEF Winners
  <2>3. CASE k = last
    <3>1. id \in sources[w].docs BY <1>1, <1>3 DEF Cursors, Turn
    <3>2. ASSUME NEW j \in 1..Len(sources), Read(j), id \in sources[j].docs
          PROVE  w <= j
      <4>1. id \notin Visited BY <1>7, <1>9, <1>10 DEF Visited
      <4>2. j \in DOMAIN head /\ head[j] <= id
        BY <1>1, <2>1, <3>2, <4>1 DEF Passed
      <4>3. head[j] = id
        <5>1. id <= head[j] /\ head[j] \in DocIDs BY <1>3, <1>5, <4>2 DEF Turn
        <5>2. QED BY <1>9, <4>2, <5>1
      <4>4. QED BY <1>3, <4>2, <4>3 DEF Turn
    <3>3. Wins(id, w) BY <1>1, <1>5, <3>1, <3>2 DEF Wins
    <3>4. visited'[k][1] = id /\ visited'[k][2] = w BY <1>6, <2>3
    <3>5. QED BY <3>3, <3>4
  <2>4. QED BY <1>8, <2>2, <2>3
<1>16. QED BY <1>1, <1>12, <1>14, <1>15, SameInput DEF ScanInv

LEMMA InvHolds == Spec => []ScanInv
<1>1. ScanInv /\ [Next]_vars => ScanInv'
  <2> SUFFICES ASSUME ScanInv, [Next]_vars PROVE ScanInv' OBVIOUS
  <2>1. CASE SkipPruned BY <2>1, SkipPrunedStep
  <2>2. CASE AddCursor BY <2>2, AddCursorStep
  <2>3. CASE Visit BY <2>3, VisitStep
  <2>4. CASE Abort \/ Finish BY <2>4, ReturnStep
  <2>5. CASE UNCHANGED vars
    <3>1. /\ InputOK /\ Cursors /\ Passed /\ Winners /\ UNCHANGED input
          /\ UNCHANGED <<sources, opened, head, lastErr, iters, visited, result>>
      BY <2>5 DEF ScanInv, vars, input
    <3>2. Cursors' BY <3>1 DEF Cursors, TypeOK, VisitOrder, IteratorsReleased
    <3>3. Passed' BY <3>1, SameInput DEF Passed, Visited
    <3>4. Winners' BY <3>1, SameInput DEF Winners
    <3>5. QED BY <3>1, <3>2, <3>3, <3>4, SameInput DEF ScanInv
  <2>6. QED BY <2>1, <2>2, <2>3, <2>4, <2>5 DEF Next
<1>2. QED BY <1>1, InvInit, PTL DEF Spec

-----------------------------------------------------------------------------
(* What a scan promises *)

\* The cursors, the iterators and the visits keep their types.
THEOREM TypeCorrect == Spec => []TypeOK
<1>1. ScanInv => TypeOK BY DEF ScanInv, Cursors
<1>2. QED BY <1>1, InvHolds, PTL

\* Every DocID is visited at most once and in ascending order, however the
\* sources overlap and whichever blocks are damaged.
THEOREM VisitsAscend == Spec => []VisitOrder
<1>1. ScanInv => VisitOrder BY DEF ScanInv, Cursors
<1>2. QED BY <1>1, InvHolds, PTL

\* No way out of a scan leaves an iterator, and with it a MemTable's lock.
THEOREM NoIteratorLeaks == Spec => []IteratorsReleased
<1>1. ScanInv => IteratorsReleased BY DEF ScanInv, Cursors
<1>2. QED BY <1>1, InvHolds, PTL

\* Whatever is damaged, a scan that reports success has visited every record
\* of each source it read: all that pruning kept, but for the tables whose
\* first block does not load.  That is the whole extent of the silent loss.
ReadIsVisited ==
    result = "ok" =>
        \A i \in 1..Len(sources) : Read(i) => sources[i].docs \subseteq Visited
LEMMA InvReadIsVisited == ASSUME ScanInv PROVE ReadIsVisited
<1> SUFFICES ASSUME result = "ok" PROVE ReadIsVisited BY DEF ReadIsVisited
<1>1. lastErr = {} /\ DOMAIN head = {} /\ opened = Len(sources) BY DEF ScanInv
<1>2. QED BY <1>1 DEF ScanInv, Passed, ReadIsVisited
THEOREM LossIsAtOpening == Spec => []ReadIsVisited
  BY InvReadIsVisited, InvHolds, PTL

\* When no table's first block is damaged, a source in the window is read.
LEMMA InWindowIsRead ==
  ASSUME Corruption # "any", InputOK, NEW i \in 1..Len(sources),
         NEW d \in sources[i].docs, InWindow(d)
  PROVE  Read(i)
<1>1. ~Pruned(sources[i]) BY PrunedIsOutside
<1>2. sources[i].docs \subseteq DocIDs /\ sources[i].docs # {}
      /\ Min(sources[i].docs) \notin sources[i].bad
  BY SourceIs
<1>3. Following(sources[i], 0) = sources[i].docs
  <2> DEFINE D == sources[i].docs
  <2>1. \A x \in DocIDs : x > 0 BY DocIDAssumption
  <2>2. \A x \in D : x > 0 BY <1>2, <2>1
  <2>3. {x \in D : x > 0} = D BY <2>2
  <2>4. QED BY <2>3 DEF Following
<1>4. ~Fails(sources[i], 0) BY <1>2, <1>3 DEF Fails
<1>5. QED BY <1>1, <1>4 DEF Read

\* A scan that reports success is complete in its window, if damage never
\* hits the first block of a table (if it does, the table is lost silently:
\* see ScanCorrupt).
THEOREM ScansAreComplete == ASSUME Corruption # "any" PROVE Spec => []ScanComplete
<1>1. ScanInv => ScanComplete
  <2> SUFFICES ASSUME ScanInv, result = "ok", NEW d \in DocIDs, InWindow(d), Held(d)
               PROVE  d \in Visited
    BY DEF ScanComplete
  <2>1. InputOK /\ DOMAIN sources = 1..Len(sources) BY DEF ScanInv, InputOK
  <2>2. PICK i \in 1..Len(sources) : d \in sources[i].docs BY <2>1 DEF Held
  <2>3. Read(i) BY <2>1, <2>2, InWindowIsRead
  <2>4. QED BY <2>2, <2>3, InvReadIsVisited DEF ReadIsVisited
<1>2. QED BY <1>1, InvHolds, PTL

\* Where Get finds a record, a scan that reports success visits the same
\* version of it: both give precedence to the first source that has it.
THEOREM ScansMatchGet == ASSUME Corruption # "any" PROVE Spec => []ScanMatchesGet
<1>1. ScanInv => ScanMatchesGet
  <2> SUFFICES ASSUME ScanInv, result = "ok", NEW d \in DocIDs, InWindow(d), Get(d) > 0
               PROVE  <<d, Get(d)>> \in Range(visited)
    BY DEF ScanMatchesGet
  <2>1. /\ InputOK /\ DOMAIN sources = 1..Len(sources) /\ Len(sources) \in Nat
        /\ visited \in Seq(DocIDs \X Nat) /\ lastErr = {} /\ Winners
    BY DEF ScanInv, InputOK, Cursors
  <2> DEFINE C == Decides(d)
             i == Min(C)
  <2>2. C # {} /\ Get(d) = i /\ ~Unreadable(sources[i], d)
    BY DEF Get, NotFound, Failed
  <2>3. i \in C /\ \A j \in C : i <= j
    <3>1. C \subseteq 1..Len(sources) BY <2>1 DEF Decides
    <3>2. IsFiniteSet(1..Len(sources)) BY <2>1, FS_Interval
    <3> HIDE DEF C
    <3>3. IsFiniteSet(C) BY <3>1, <3>2, FS_Subset
    <3>4. C \in SUBSET Int BY <2>1, <3>1
    <3>5. QED BY <2>2, <3>3, <3>4, MinIs
  <2>4. i \in 1..Len(sources) /\ d \in sources[i].docs
    BY <2>1, <2>2, <2>3 DEF Decides
  <2>5. ASSUME NEW j \in 1..Len(sources), d \in sources[j].docs PROVE j \in C
    <3>1. sources[j].docs \subseteq DocIDs BY <2>1, SourceIs
    <3>2. Min(sources[j].docs) <= d /\ d <= Max(sources[j].docs)
      BY <2>5, <3>1, DocIDSets, MinIs, MaxIs
    <3>3. QED BY <2>1, <2>5, <3>2 DEF Decides, Searched
  <2> HIDE DEF i, C
  <2>6. Read(i) BY <2>1, <2>4, InWindowIsRead
  <2>7. PICK k \in DOMAIN visited : visited[k][1] = d
    BY <2>4, <2>6, InvReadIsVisited DEF ReadIsVisited, Visited
  <2>8. Wins(d, visited[k][2]) BY <2>1, <2>7 DEF Winners
  <2>9. visited[k][2] = i
    <3> DEFINE w == visited[k][2]
    <3>1. w \in 1..Len(sources) /\ w <= i BY <2>4, <2>6, <2>8 DEF Wins
    <3>2. i <= w BY <2>3, <2>5, <2>8 DEF Wins
    <3>3. QED BY <2>1, <2>4, <3>1, <3>2
  <2>10. visited[k] = <<d, i>> BY <2>1, <2>7, <2>9
  <2>11. QED BY <2>2, <2>10 DEF Range
<1>2. QED BY <1>1, InvHolds, PTL
=============================================================================
