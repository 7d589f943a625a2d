---------------------------- MODULE FilesProofs -----------------------------
(***************************************************************************)
(* Proofs about module Files, for any number of records, frozen MemTables, *)
(* SSTable ids, stops and destroyed files.                                 *)
(***************************************************************************)
EXTENDS Files, WellFoundedInduction, TLAPS

\* The largest of a bounded set of numbers: the Max that Open computes.
LEMMA LargestIs ==
    ASSUME NEW S \in SUBSET Nat, NEW b \in Nat, \A n \in S : n <= b
    PROVE  /\ Largest(S) \in Nat /\ Largest(S) <= b
           /\ \A n \in S : n <= Largest(S)
           /\ IF S = {} THEN Largest(S) = 0 ELSE Largest(S) \in S
<1>1. CASE S = {}
  BY <1>1 DEF Largest
<1>2. CASE S # {}
  <2> DEFINE T == {b - n : n \in S}
  <2> DEFINE R == OpToRel(<, Nat)
  <2>1. T \subseteq Nat /\ T # {}
    <3>1. \A n \in S : n \in Nat /\ n <= b
      OBVIOUS
    <3>2. \A n \in S : b - n \in Nat
      BY <3>1
    <3> QED
      BY <1>2, <3>2
  <2>2. PICK x \in T : \A y \in T : ~(<<y, x>> \in R)
    <3>1. IsWellFoundedOn(R, Nat)
      BY NatLessThanWellFounded
    <3> HIDE DEF T, R
    <3> QED
      BY <2>1, <3>1, WFMin
  <2>3. \A y \in T : ~(y < x)
    BY <2>1, <2>2 DEF OpToRel
  <2>4. PICK n \in S : x = b - n
    BY <2>2
  <2>5. ASSUME NEW m \in S
        PROVE  m <= n
    <3>1. b - m \in T /\ m \in Nat /\ n \in Nat
      OBVIOUS
    <3>2. ~(b - m < b - n)
      BY <2>3, <2>4, <3>1
    <3> QED
      BY <3>1, <3>2
  <2>6. Largest(S) \in S /\ \A m \in S : m <= Largest(S)
    BY <1>2, <2>5 DEF Largest
  <2> QED
    BY <2>6
<1> QED
  BY <1>1, <1>2

-----------------------------------------------------------------------------
(* Directories                                                             *)

\* A directory whose names lead to files ns, with complete SSTables unless
\* bit rot has struck.
Good(d, ns, rot) ==
    /\ DOMAIN d \subseteq Kinds \X (1..Len(ns))
    /\ \A m \in DOMAIN d : /\ d[m] \in DOMAIN ns
                           /\ rot = 0 /\ m[1] = "sst" => ns[d[m]].whole

AllGood(ds, ns, rot) ==
    /\ ds \in Seq({ds[i] : i \in DOMAIN ds}) /\ ds # <<>>
    /\ \A i \in DOMAIN ds : Good(ds[i], ns, rot)

\* Files are added and completed, never cut.
Kept(ns, ms) ==
    /\ Len(ns) \in Nat /\ Len(ms) \in Nat /\ Len(ns) <= Len(ms)
    /\ DOMAIN ns = 1..Len(ns) /\ DOMAIN ms = 1..Len(ms)
    /\ \A k \in DOMAIN ns : ns[k].whole => ms[k].whole

LEMMA GoodKept ==
    ASSUME NEW ns, NEW ms, Kept(ns, ms), NEW rot, NEW d, Good(d, ns, rot)
    PROVE  Good(d, ms, rot)
<1>1. 1..Len(ns) \subseteq 1..Len(ms) /\ DOMAIN ns \subseteq DOMAIN ms
  BY DEF Kept
<1> QED
  BY <1>1 DEF Good, Kept

LEMMA AllGoodKept ==
    ASSUME NEW ns, NEW ms, Kept(ns, ms), NEW rot, NEW ds, AllGood(ds, ns, rot)
    PROVE  AllGood(ds, ms, rot)
  BY GoodKept DEF AllGood

LEMMA UnlinkedIs ==
    ASSUME NEW d, NEW name
    PROVE  /\ DOMAIN Unlinked(d, name) = DOMAIN d \ {name}
           /\ \A m \in DOMAIN d \ {name} : Unlinked(d, name)[m] = d[m]
  BY DEF Unlinked

LEMMA GoodLinked ==
    ASSUME NEW ns, NEW rot, NEW d, Good(d, ns, rot), NEW node \in DOMAIN ns,
           NEW name \in Kinds \X (1..Len(ns)),
           (rot = 0 /\ name[1] = "sst") => ns[node].whole
    PROVE  Good(Linked(d, name, node), ns, rot)
<1> DEFINE e == Linked(d, name, node)
<1>1. /\ DOMAIN e = DOMAIN d \cup {name} /\ e[name] = node
      /\ \A m \in DOMAIN d : m # name => e[m] = d[m]
  BY DEF Linked
<1> HIDE DEF e
<1>2. DOMAIN e \subseteq Kinds \X (1..Len(ns))
  BY <1>1 DEF Good
<1>3. ASSUME NEW m \in DOMAIN e
      PROVE  e[m] \in DOMAIN ns /\ (rot = 0 /\ m[1] = "sst" => ns[e[m]].whole)
  <2>1. CASE m = name
    BY <1>1, <2>1
  <2>2. CASE m # name
    BY <1>1, <2>2 DEF Good
  <2> QED
    BY <2>1, <2>2
<1>4. Good(e, ns, rot)
  BY <1>2, <1>3 DEF Good
<1> QED
  BY <1>4 DEF e

LEMMA GoodUnlinked ==
    ASSUME NEW ns, NEW rot, NEW d, Good(d, ns, rot), NEW name
    PROVE  Good(Unlinked(d, name), ns, rot)
<1> DEFINE e == Unlinked(d, name)
<1>1. DOMAIN e = DOMAIN d \ {name} /\ \A m \in DOMAIN d \ {name} : e[m] = d[m]
  BY UnlinkedIs
<1> HIDE DEF e
<1>2. Good(e, ns, rot)
  <2>1. DOMAIN e \subseteq Kinds \X (1..Len(ns))
    BY <1>1 DEF Good
  <2>2. ASSUME NEW m \in DOMAIN e
        PROVE  e[m] \in DOMAIN ns /\ (rot = 0 /\ m[1] = "sst" => ns[e[m]].whole)
    BY <1>1 DEF Good
  <2> QED
    BY <2>1, <2>2 DEF Good
<1> QED
  BY <1>2 DEF e

LEMMA GoodRenamed ==
    ASSUME NEW ns, NEW rot, NEW d, Good(d, ns, rot), NEW old \in DOMAIN d,
           NEW new \in Kinds \X (1..Len(ns)), old # new,
           (rot = 0 /\ new[1] = "sst") => ns[d[old]].whole
    PROVE  Good(Renamed(d, old, new), ns, rot)
<1>1. d[old] \in DOMAIN ns
  BY DEF Good
<1>2. Good(Linked(d, new, d[old]), ns, rot)
  BY <1>1, GoodLinked
<1> QED
  BY <1>2, GoodUnlinked DEF Renamed

LEMMA Appended ==
    ASSUME NEW ds, NEW ns, NEW rot, AllGood(ds, ns, rot), NEW d
    PROVE  /\ Append(ds, d)[Len(Append(ds, d))] = d
           /\ \A j \in DOMAIN Append(ds, d) :
                (j \in DOMAIN ds /\ Append(ds, d)[j] = ds[j]) \/ Append(ds, d)[j] = d
<1>1. ASSUME NEW T, ds \in Seq(T)
      PROVE  /\ Append(ds, d)[Len(Append(ds, d))] = d
             /\ \A j \in DOMAIN Append(ds, d) :
                  (j \in DOMAIN ds /\ Append(ds, d)[j] = ds[j]) \/ Append(ds, d)[j] = d
  <2>1. /\ Len(ds) \in Nat /\ DOMAIN ds = 1..Len(ds)
        /\ DOMAIN Append(ds, d) = 1..Len(ds) + 1 /\ Len(Append(ds, d)) = Len(ds) + 1
        /\ \A i \in DOMAIN ds : Append(ds, d)[i] = ds[i]
        /\ Append(ds, d)[Len(ds) + 1] = d
    <3>1. ds \in Seq(T \cup {d}) /\ d \in T \cup {d}
      BY <1>1
    <3> QED
      BY <3>1
  <2> QED
    BY <2>1
<1> QED
  BY <1>1 DEF AllGood

LEMMA AppendDir ==
    ASSUME NEW ds, NEW ns, NEW rot, AllGood(ds, ns, rot), NEW d, Good(d, ns, rot)
    PROVE  /\ AllGood(Append(ds, d), ns, rot)
           /\ Append(ds, d)[Len(Append(ds, d))] = d
<1> DEFINE S == {ds[i] : i \in DOMAIN ds}
<1>1. ds \in Seq(S \cup {d}) /\ d \in S \cup {d}
  BY DEF AllGood
<1>2. ASSUME NEW T, ds \in Seq(T), d \in T
      PROVE  /\ Len(ds) \in Nat /\ DOMAIN ds = 1..Len(ds)
             /\ Append(ds, d) \in Seq(T) /\ Append(ds, d) # <<>>
             /\ Len(Append(ds, d)) = Len(ds) + 1
             /\ DOMAIN Append(ds, d) = 1..Len(ds) + 1
             /\ \A i \in DOMAIN ds : Append(ds, d)[i] = ds[i]
             /\ Append(ds, d)[Len(ds) + 1] = d
  BY <1>2
<1>3. /\ Len(ds) \in Nat /\ DOMAIN ds = 1..Len(ds)
      /\ Append(ds, d) \in Seq(S \cup {d}) /\ Append(ds, d) # <<>>
      /\ Len(Append(ds, d)) = Len(ds) + 1
      /\ DOMAIN Append(ds, d) = 1..Len(ds) + 1
      /\ \A i \in DOMAIN ds : Append(ds, d)[i] = ds[i]
      /\ Append(ds, d)[Len(ds) + 1] = d
  <2> HIDE DEF S
  <2> QED
    BY <1>1, <1>2
<1>4. \A i \in DOMAIN Append(ds, d) : i \in DOMAIN ds \/ i = Len(ds) + 1
  BY <1>3
<1>5. S \cup {d} \subseteq {Append(ds, d)[i] : i \in DOMAIN Append(ds, d)}
  BY <1>3
<1>6. Append(ds, d) \in Seq({Append(ds, d)[i] : i \in DOMAIN Append(ds, d)})
  BY <1>3, <1>5
<1> QED
  BY <1>3, <1>4, <1>6 DEF AllGood

LEMMA SingleDir ==
    ASSUME NEW ns, NEW rot, NEW d, Good(d, ns, rot)
    PROVE  AllGood(<<d>>, ns, rot) /\ <<d>>[Len(<<d>>)] = d
<1>1. /\ DOMAIN <<d>> = 1..1 /\ <<d>>[1] = d /\ <<d>> \in Seq({d}) /\ <<d>> # <<>>
      /\ Len(<<d>>) = 1
  OBVIOUS
<1>2. {<<d>>[i] : i \in DOMAIN <<d>>} = {d}
  BY <1>1
<1> QED
  BY <1>1, <1>2 DEF AllGood

LEMMA LastDir ==
    ASSUME NEW ds, NEW ns, NEW rot, AllGood(ds, ns, rot)
    PROVE  Len(ds) \in DOMAIN ds /\ Good(ds[Len(ds)], ns, rot)
<1>1. ASSUME NEW T, ds \in Seq(T), ds # <<>>
      PROVE  Len(ds) \in DOMAIN ds
  BY <1>1
<1> QED
  BY <1>1 DEF AllGood

-----------------------------------------------------------------------------
(* Files                                                                   *)

LEMMA NodeAdded ==
    ASSUME NEW ns \in Seq(File), NEW f \in File
    PROVE  /\ Append(ns, f) \in Seq(File) /\ Len(Append(ns, f)) = Len(ns) + 1
           /\ Len(ns) \in Nat
           /\ Len(ns) + 1 \in DOMAIN Append(ns, f) /\ Append(ns, f)[Len(ns) + 1] = f
           /\ Kept(ns, Append(ns, f))
  BY DEF Kept

LEMMA NodeChanged ==
    ASSUME NEW ns \in Seq(File), NEW k, NEW f \in File,
           k \in DOMAIN ns => (ns[k].whole => f.whole)
    PROVE  /\ [ns EXCEPT ![k] = f] \in Seq(File) /\ Len([ns EXCEPT ![k] = f]) = Len(ns)
           /\ Len(ns) \in Nat
           /\ k \in DOMAIN ns => [ns EXCEPT ![k] = f][k] = f
           /\ Kept(ns, [ns EXCEPT ![k] = f])
<1> DEFINE ms == [ns EXCEPT ![k] = f]
<1>1. /\ ms \in Seq(File) /\ Len(ms) = Len(ns) /\ Len(ns) \in Nat
      /\ DOMAIN ns = 1..Len(ns) /\ DOMAIN ms = 1..Len(ms)
      /\ \A i \in DOMAIN ns : ms[i] = IF i = k THEN f ELSE ns[i]
  <2>1. DOMAIN ns = 1..Len(ns) /\ Len(ns) \in Nat /\ \A i \in DOMAIN ns : ns[i] \in File
    OBVIOUS
  <2>2. /\ ms = [i \in 1..Len(ns) |-> IF i = k THEN f ELSE ns[i]]
        /\ \A i \in 1..Len(ns) : (IF i = k THEN f ELSE ns[i]) \in File
    BY <2>1
  <2> HIDE DEF ms
  <2>3. ms \in [1..Len(ns) -> File]
    BY <2>2
  <2>4. ms \in Seq(File) /\ Len(ms) = Len(ns)
    BY <2>1, <2>3
  <2> QED
    BY <2>1, <2>2, <2>4
<1> HIDE DEF ms
<1>2. Kept(ns, ms) /\ (k \in DOMAIN ns => ms[k] = f)
  BY <1>1 DEF Kept
<1> QED
  BY <1>1, <1>2 DEF ms

LEMMA KeptSame == ASSUME NEW ns \in Seq(File) PROVE Kept(ns, ns)
  BY DEF Kept

-----------------------------------------------------------------------------
(* The invariant, with the directories taken together                      *)

Core ==
    /\ nodes \in Seq(File) /\ AllGood(dirs, nodes, rotten)
    /\ ClientTypes /\ MemoryTypes /\ ProcessTypes
    /\ Numbering /\ IdsKnown /\ Flushing

LEMMA CoreIs == Core <=> FilesInv
<1>1. Core => FilesInv
  BY DEF Core, FilesInv, TypeOK, DiskTypes, DirsAreSequence, CompleteOrNowhere, AllGood,
         Good, Whole
<1>2. FilesInv => Core
  BY DEF Core, FilesInv, TypeOK, DiskTypes, DirsAreSequence, CompleteOrNowhere, AllGood,
         Good, Whole
<1> QED
  BY <1>1, <1>2

\* The numbers in the names of one kind.
LEMMA IdsAre ==
    ASSUME Core, NEW kind \in Kinds, NEW n \in Ids(kind)
    PROVE  <<kind, n>> \in DOMAIN Dir /\ n \in 1..Len(nodes)
<1>1. DOMAIN Dir \subseteq Kinds \X (1..Len(nodes))
  BY LastDir DEF Core, Good, Dir
<1>2. PICK m \in DOMAIN Dir : m[1] = kind /\ n = m[2]
  BY DEF Ids
<1>3. PICK a \in Kinds, b \in 1..Len(nodes) : m = <<a, b>>
  BY <1>1, <1>2
<1> QED
  BY <1>2, <1>3

LEMMA NamesAre ==
    ASSUME Core, NEW m \in DOMAIN Dir
    PROVE  /\ m = <<m[1], m[2]>> /\ m[1] \in Kinds /\ m[2] \in 1..Len(nodes)
           /\ m[2] \in Ids(m[1]) /\ Dir[m] \in DOMAIN nodes
<1>1. DOMAIN Dir \subseteq Kinds \X (1..Len(nodes)) /\ Dir[m] \in DOMAIN nodes
  BY LastDir DEF Core, Good, Dir
<1>2. PICK a \in Kinds, b \in 1..Len(nodes) : m = <<a, b>>
  BY <1>1
<1> QED
  BY <1>1, <1>2 DEF Ids

\* What NeverReplaced says of one step.
Steady ==
    \A n \in Ids("sst") : Sst(n) \in DOMAIN Dir' => Dir'[Sst(n)] = Dir[Sst(n)]

LEMMA SteadyIs ==
    ASSUME Core,
           \A m \in DOMAIN Dir : m[1] = "sst" => (m \in DOMAIN Dir' => Dir'[m] = Dir[m])
    PROVE  Steady
<1> SUFFICES ASSUME NEW n \in Ids("sst"), Sst(n) \in DOMAIN Dir'
             PROVE  Dir'[Sst(n)] = Dir[Sst(n)]
  BY DEF Steady
<1>1. <<"sst", n>> \in DOMAIN Dir
  BY IdsAre DEF Kinds
<1>2. <<"sst", n>>[1] = "sst"
  OBVIOUS
<1> QED
  BY <1>1, <1>2 DEF Sst

\* One more directory.
LEMMA ChangeIs ==
    ASSUME NEW ns, NEW rot, AllGood(dirs, ns, rot), NEW d, Good(d, ns, rot), Change(d)
    PROVE  AllGood(dirs', ns, rot) /\ Dir' = d
  BY AppendDir DEF Change, Dir

\* A new file under a name that is not an SSTable's.
LEMMA LinkStep ==
    ASSUME Core, NEW f \in File, nodes' = Append(nodes, f), UNCHANGED rotten,
           NEW name \in Kinds \X (1..Len(nodes) + 1), name[1] # "sst",
           Change(Linked(Dir, name, NewNode))
    PROVE  /\ nodes' \in Seq(File) /\ AllGood(dirs', nodes', rotten')
           /\ Len(nodes') = Len(nodes) + 1 /\ Len(nodes) \in Nat
           /\ DOMAIN Dir' = DOMAIN Dir \cup {name}
           /\ \A m \in DOMAIN Dir : m # name => Dir'[m] = Dir[m]
           /\ Dir'[name] = NewNode /\ nodes'[NewNode] = f
           /\ Steady
<1>1. /\ nodes' \in Seq(File) /\ Len(nodes') = Len(nodes) + 1 /\ Len(nodes) \in Nat
      /\ NewNode \in DOMAIN nodes' /\ nodes'[NewNode] = f /\ Kept(nodes, nodes')
  BY NodeAdded DEF Core, NewNode
<1>2. AllGood(dirs, nodes', rotten)
  BY <1>1, AllGoodKept DEF Core
<1>3. Good(Dir, nodes', rotten)
  BY <1>2, LastDir DEF Dir
<1>4. Good(Linked(Dir, name, NewNode), nodes', rotten)
  BY <1>1, <1>3, GoodLinked
<1>5. AllGood(dirs', nodes', rotten) /\ Dir' = Linked(Dir, name, NewNode)
  BY <1>2, <1>4, ChangeIs
<1>6. /\ DOMAIN Dir' = DOMAIN Dir \cup {name}
      /\ \A m \in DOMAIN Dir : m # name => Dir'[m] = Dir[m]
      /\ Dir'[name] = NewNode
  BY <1>5 DEF Linked
<1>7. Steady
  BY <1>6, SteadyIs
<1> QED
  BY <1>1, <1>5, <1>6, <1>7

\* A name removed.
LEMMA UnlinkStep ==
    ASSUME Core, NEW name, Change(Unlinked(Dir, name)), UNCHANGED <<nodes, rotten>>
    PROVE  /\ AllGood(dirs', nodes', rotten')
           /\ DOMAIN Dir' = DOMAIN Dir \ {name} /\ \A m \in DOMAIN Dir' : Dir'[m] = Dir[m]
           /\ Steady
<1>1. Good(Unlinked(Dir, name), nodes, rotten)
  BY LastDir, GoodUnlinked DEF Core, Dir
<1>2. AllGood(dirs', nodes, rotten) /\ Dir' = Unlinked(Dir, name)
  BY <1>1, ChangeIs DEF Core
<1>3. DOMAIN Dir' = DOMAIN Dir \ {name} /\ \A m \in DOMAIN Dir' : Dir'[m] = Dir[m]
  BY <1>2 DEF Unlinked
<1>4. Steady
  BY <1>3, SteadyIs
<1> QED
  BY <1>2, <1>3, <1>4

-----------------------------------------------------------------------------
(* Open                                                                    *)

LEMMA ReadIdsStep == ASSUME Core, ReadIds PROVE Core'
<1> DEFINE S == Ids("sst") \cup Ids("tmp")
<1>1. nextSST' = Largest(S)
  BY DEF ReadIds
<1>2. S \in SUBSET Nat /\ Len(nodes) \in Nat /\ \A n \in S : n <= Len(nodes)
  <2>1. Len(nodes) \in Nat
    BY DEF Core
  <2>2. \A n \in S : n \in 1..Len(nodes)
    BY IdsAre DEF Kinds
  <2> QED
    BY <2>1, <2>2
<1>3. nextSST' \in Nat /\ nextSST' <= Len(nodes) /\ \A n \in S : n <= nextSST'
  <2> HIDE DEF S
  <2> QED
    BY <1>1, <1>2, LargestIs
<1>4. IdsKnown'
  <2>1. \A m \in DOMAIN Dir : m[1] \in {"sst", "tmp"} => m[2] \in S
    BY NamesAre
  <2> QED
    BY <1>3, <2>1 DEF IdsKnown, ReadIds, Dir
<1>5. fl.pc = "idle"
  BY DEF Core, Flushing, ReadIds
<1>6. Flushing' /\ Numbering' /\ ProcessTypes'
  BY <1>3, <1>5 DEF Core, Flushing, Numbering, ProcessTypes, ReadIds, client, memory, bounds
<1> QED
  BY <1>4, <1>6 DEF Core, ClientTypes, MemoryTypes, ReadIds, client, memory, bounds

LEMMA RemoveTmpStep == ASSUME Core, RemoveTmp PROVE Core' /\ Steady
<1>1. fl.pc = "idle" /\ up # "down"
  BY DEF Core, Flushing, RemoveTmp
<1>2. CASE \E n \in Ids("tmp") : Change(Unlinked(Dir, Tmp(n))) /\ UNCHANGED up
  <2>1. PICK n \in Ids("tmp") : Change(Unlinked(Dir, Tmp(n))) /\ UNCHANGED up
    BY <1>2
  <2>2. UNCHANGED <<nodes, rotten>>
    BY DEF RemoveTmp, bounds
  <2>3. /\ AllGood(dirs', nodes', rotten') /\ Steady
        /\ DOMAIN Dir' = DOMAIN Dir \ {Tmp(n)} /\ \A m \in DOMAIN Dir' : Dir'[m] = Dir[m]
    BY <2>1, <2>2, UnlinkStep
  <2>4. IdsKnown'
    BY <1>1, <2>1, <2>3 DEF IdsKnown, Core, RemoveTmp
  <2>5. Flushing' /\ Numbering' /\ ProcessTypes'
    BY <1>1, <2>1 DEF Core, Flushing, Numbering, ProcessTypes, RemoveTmp, client, memory, bounds
  <2> QED
    BY <2>3, <2>4, <2>5
       DEF Core, ClientTypes, MemoryTypes, RemoveTmp, client, memory, bounds
<1>3. CASE Ids("tmp") = {} /\ up' = "tables" /\ UNCHANGED dirs
  <2>1. Flushing' /\ Numbering' /\ ProcessTypes' /\ IdsKnown'
    BY <1>1, <1>3
       DEF Core, Flushing, Numbering, ProcessTypes, IdsKnown, Dir, RemoveTmp, client, memory, bounds
  <2>2. Steady
    BY <1>3 DEF Steady, Dir
  <2> QED
    BY <1>3, <2>1, <2>2
       DEF Core, ClientTypes, MemoryTypes, RemoveTmp, client, memory, bounds
<1> QED
  BY <1>2, <1>3 DEF RemoveTmp

\* A quarantined file leaves the directory that the readers know.
LEMMA LoadTableStep == ASSUME Core, LoadTable PROVE Core' /\ Steady
<1>1. fl.pc = "idle" /\ up = "tables"
  BY DEF Core, Flushing, LoadTable
<1>2. ASSUME NEW n \in Ids("sst"), UNCHANGED up,
             \/ loaded' = loaded \cup {n} /\ UNCHANGED dirs
             \/ Change(Renamed(Dir, Sst(n), Bad(n))) /\ UNCHANGED loaded
      PROVE  Core' /\ Steady
  <2>1. Sst(n) \in DOMAIN Dir /\ n \in 1..Len(nodes) /\ Len(nodes) \in Nat
    BY IdsAre DEF Kinds, Sst, Core
  <2>2. CASE loaded' = loaded \cup {n} /\ UNCHANGED dirs
    <3>1. Flushing' /\ Numbering' /\ IdsKnown'
      BY <1>1, <1>2, <2>2
         DEF Core, Flushing, Numbering, IdsKnown, Dir, LoadTable, client, memory, bounds
    <3>2. ProcessTypes'
      BY <1>2, <2>1, <2>2 DEF Core, ProcessTypes, LoadTable, client, memory, bounds
    <3>3. Steady
      BY <2>2 DEF Steady, Dir
    <3> QED
      BY <2>2, <3>1, <3>2, <3>3
         DEF Core, ClientTypes, MemoryTypes, LoadTable, client, memory, bounds
  <2>3. CASE Change(Renamed(Dir, Sst(n), Bad(n))) /\ UNCHANGED loaded
    <3>1. Bad(n) \in Kinds \X (1..Len(nodes)) /\ Bad(n)[1] = "bad" /\ Sst(n)[1] = "sst"
      BY <2>1 DEF Bad, Sst, Kinds
    <3>2. Sst(n) # Bad(n)
      BY DEF Sst, Bad
    <3>3. Good(Renamed(Dir, Sst(n), Bad(n)), nodes, rotten)
      BY <2>1, <3>1, <3>2, LastDir, GoodRenamed DEF Core, Dir
    <3>4. AllGood(dirs', nodes, rotten) /\ Dir' = Renamed(Dir, Sst(n), Bad(n))
      BY <2>3, <3>3, ChangeIs DEF Core
    <3>5. /\ DOMAIN Dir' = (DOMAIN Dir \cup {Bad(n)}) \ {Sst(n)}
          /\ \A m \in DOMAIN Dir \ {Sst(n), Bad(n)} : Dir'[m] = Dir[m]
      BY <3>2, <3>4 DEF Renamed, Linked, Unlinked
    <3>6. IdsKnown'
      <4>1. \A m \in DOMAIN Dir' : m[1] \in {"sst", "tmp"} => m \in DOMAIN Dir
        BY <3>1, <3>5
      <4> QED
        BY <1>1, <1>2, <4>1 DEF IdsKnown, Core, LoadTable
    <3>7. Steady
      BY <3>1, <3>5, SteadyIs
    <3>8. Flushing' /\ Numbering' /\ ProcessTypes'
      BY <1>1, <1>2, <2>3
         DEF Core, Flushing, Numbering, ProcessTypes, LoadTable, client, memory, bounds
    <3> QED
      BY <3>4, <3>6, <3>7, <3>8
         DEF Core, ClientTypes, MemoryTypes, LoadTable, client, memory, bounds
  <2> QED
    BY <1>2, <2>2, <2>3
<1>3. CASE up' = "log" /\ UNCHANGED <<dirs, loaded>>
  <2>1. Flushing' /\ Numbering' /\ IdsKnown' /\ ProcessTypes'
    BY <1>1, <1>3
       DEF Core, Flushing, Numbering, IdsKnown, ProcessTypes, Dir, LoadTable, client, memory, bounds
  <2>2. Steady
    BY <1>3 DEF Steady, Dir
  <2> QED
    BY <1>3, <2>1, <2>2
       DEF Core, ClientTypes, MemoryTypes, LoadTable, client, memory, bounds
<1> QED
  BY <1>2, <1>3 DEF LoadTable

LEMMA CreateFirstSegmentStep == ASSUME Core, CreateFirstSegment PROVE Core' /\ Steady
<1> DEFINE f == [recs |-> {}, whole |-> TRUE]
<1>1. f \in File /\ Len(nodes) \in Nat
  BY DEF File, Core
<1>2. Wal(1) \in Kinds \X (1..Len(nodes) + 1) /\ Wal(1)[1] = "wal"
  BY <1>1 DEF Wal, Kinds
<1>3. nodes' = Append(nodes, f) /\ Change(Linked(Dir, Wal(1), NewNode)) /\ UNCHANGED rotten
  BY DEF CreateFirstSegment, bounds
<1> HIDE DEF f
<1>4. /\ nodes' \in Seq(File) /\ AllGood(dirs', nodes', rotten')
      /\ Len(nodes') = Len(nodes) + 1 /\ Len(nodes) \in Nat
      /\ DOMAIN Dir' = DOMAIN Dir \cup {Wal(1)} /\ Steady
  BY <1>1, <1>2, <1>3, LinkStep
<1>5. fl.pc = "idle" /\ up = "log"
  BY DEF Core, Flushing, CreateFirstSegment
<1>6. IdsKnown'
  BY <1>2, <1>4, <1>5 DEF IdsKnown, Core, CreateFirstSegment
<1>7. Numbering'
  BY <1>4 DEF Numbering, Core, MemoryTypes, ProcessTypes, CreateFirstSegment, client, memory
<1>8. Flushing' /\ ProcessTypes'
  BY <1>5 DEF Core, Flushing, ProcessTypes, CreateFirstSegment, client, memory, bounds
<1> QED
  BY <1>4, <1>6, <1>7, <1>8
     DEF Core, ClientTypes, MemoryTypes, CreateFirstSegment, client, memory, bounds

\* The DocIDs of any records are at most the number written; the cutoff is
\* the largest of them.
LEMMA CutoffIs ==
    ASSUME Core, NEW S \in SUBSET Records
    PROVE  /\ Cutoff(S) \in Nat /\ Cutoff(S) <= written
           /\ \A r \in S : docID[r] <= Cutoff(S)
           /\ IF S = {} THEN Cutoff(S) = 0 ELSE \E r \in S : docID[r] = Cutoff(S)
<1> DEFINE T == {docID[r] : r \in S}
<1>1. /\ written \in Nat /\ T \in SUBSET Nat /\ \A n \in T : n <= written
      /\ S = {} <=> T = {}
  <2>1. written \in Nat /\ \A r \in S : docID[r] \in Nat /\ docID[r] <= written
    BY DEF Core, ClientTypes, Numbering
  <2> QED
    BY <2>1
<1>2. /\ Largest(T) \in Nat /\ Largest(T) <= written /\ \A n \in T : n <= Largest(T)
      /\ IF T = {} THEN Largest(T) = 0 ELSE Largest(T) \in T
  <2> HIDE DEF T
  <2> QED
    BY <1>1, LargestIs
<1> QED
  BY <1>1, <1>2 DEF Cutoff

LEMMA RecordsAre ==
    ASSUME Core, NEW kind
    PROVE  RecordsIn(Dir, kind) \subseteq Records
<1>1. \A m \in DOMAIN Dir : nodes[Dir[m]].recs \subseteq Records
  <2>1. \A k \in DOMAIN nodes : nodes[k] \in File
    BY DEF Core
  <2> QED
    BY <2>1, NamesAre DEF File
<1> QED
  BY <1>1 DEF RecordsIn

\* What recovery computes: the segment it goes on with has a file, and the
\* allocator resumes within the DocIDs given out.
LEMMA ReplayLogStep == ASSUME Core, ReplayLog PROVE Core' /\ Steady
<1>1. fl.pc = "idle" /\ up = "log" /\ up' = "covered"
  BY DEF Core, Flushing, ReplayLog
<1>2. seg' \in Nat /\ seg' <= Len(nodes)
  <2>1. Ids("wal") \in SUBSET Nat /\ Len(nodes) \in Nat /\ \A n \in Ids("wal") : n <= Len(nodes)
    <3>1. Len(nodes) \in Nat
      BY DEF Core
    <3>2. \A n \in Ids("wal") : n \in 1..Len(nodes)
      BY IdsAre DEF Kinds
    <3> QED
      BY <3>1, <3>2
  <2> QED
    BY <2>1, LargestIs DEF ReplayLog
<1>3. Persisted(Dir) \subseteq Records /\ Replayed(Dir) \subseteq Records
  BY RecordsAre DEF Persisted, Replayed
<1>4. active' \subseteq Records /\ alloc' \in Nat /\ alloc' <= written
  <2>1. Recoverable(Dir) \in SUBSET Records
    BY <1>3 DEF Recoverable
  <2> QED
    BY <1>3, <2>1, CutoffIs DEF ReplayLog
<1>5. Steady
  BY DEF Steady, Dir, ReplayLog
<1>6. Numbering' /\ MemoryTypes'
  BY <1>2, <1>4 DEF Core, Numbering, MemoryTypes, ReplayLog, client
<1>7. IdsKnown' /\ Flushing' /\ ProcessTypes'
  BY <1>1 DEF Core, IdsKnown, Flushing, ProcessTypes, Dir, ReplayLog, bounds
<1> QED
  BY <1>5, <1>6, <1>7 DEF Core, ClientTypes, ReplayLog, client, bounds

LEMMA DeleteCoveredStep == ASSUME Core, DeleteCovered PROVE Core' /\ Steady
<1>1. fl.pc = "idle" /\ up = "covered" /\ up' # "down"
  BY DEF Core, Flushing, DeleteCovered
<1>2. ASSUME NEW n, Change(Unlinked(Dir, Wal(n))), UNCHANGED up
      PROVE  Core' /\ Steady
  <2>1. UNCHANGED <<nodes, rotten>>
    BY DEF DeleteCovered, bounds
  <2>2. /\ AllGood(dirs', nodes', rotten') /\ Steady
        /\ DOMAIN Dir' = DOMAIN Dir \ {Wal(n)} /\ \A m \in DOMAIN Dir' : Dir'[m] = Dir[m]
    BY <1>2, <2>1, UnlinkStep
  <2>3. IdsKnown'
    BY <1>1, <2>2 DEF IdsKnown, Core, DeleteCovered
  <2>4. Flushing' /\ Numbering' /\ ProcessTypes'
    BY <1>1, <1>2
       DEF Core, Flushing, Numbering, ProcessTypes, DeleteCovered, client, memory, bounds
  <2> QED
    BY <2>2, <2>3, <2>4
       DEF Core, ClientTypes, MemoryTypes, DeleteCovered, client, memory, bounds
<1>3. CASE up' = "running" /\ UNCHANGED dirs
  <2>1. Flushing' /\ Numbering' /\ IdsKnown' /\ ProcessTypes' /\ Steady
    BY <1>1, <1>3
       DEF Core, Flushing, Numbering, IdsKnown, ProcessTypes, Steady, Dir, DeleteCovered,
           client, memory, bounds
  <2> QED
    BY <1>3, <2>1
       DEF Core, ClientTypes, MemoryTypes, DeleteCovered, client, memory, bounds
<1> QED
  BY <1>2, <1>3 DEF DeleteCovered

-----------------------------------------------------------------------------
(* Writing                                                                 *)

\* The flush worker's file is untouched by what the writer does.
LEMMA FlushingKept ==
    ASSUME Core, Kept(nodes, nodes'), UNCHANGED <<fl, up, rotten>>,
           frozen # <<>> => frozen' # <<>>,
           \A m \in DOMAIN Dir : m[1] = "tmp" => m \in DOMAIN Dir' /\ Dir'[m] = Dir[m],
           \A m \in DOMAIN Dir' : m[1] = "sst" => m \in DOMAIN Dir
    PROVE  Flushing'
<1>1. Tmp(fl.id)[1] = "tmp" /\ Sst(fl.id)[1] = "sst"
  BY DEF Tmp, Sst
<1>2. CASE fl.pc \in {"tmp", "synced"}
  <2>1. /\ Tmp(fl.id) \in DOMAIN Dir' /\ Dir'[Tmp(fl.id)] = Dir[Tmp(fl.id)]
        /\ Sst(fl.id) \notin DOMAIN Dir'
    BY <1>1, <1>2 DEF Core, Flushing
  <2>2. fl.pc = "synced" /\ rotten = 0 => nodes'[Dir[Tmp(fl.id)]].whole
    <3>1. Dir[Tmp(fl.id)] \in DOMAIN nodes
      BY <1>2, NamesAre DEF Core, Flushing
    <3> QED
      BY <3>1 DEF Core, Flushing, Whole, Kept
  <2> QED
    BY <2>1, <2>2 DEF Core, Flushing, Whole
<1>3. CASE fl.pc \notin {"tmp", "synced"}
  BY <1>3 DEF Core, Flushing
<1> QED
  BY <1>2, <1>3

LEMMA WriteStep == ASSUME Core, Write PROVE Core' /\ Steady
<1> DEFINE r == written + 1
           k == Dir[Wal(seg)]
           f == [nodes[k] EXCEPT !.recs = @ \cup {r}]
<1>1. /\ r \in Records /\ r \in 1..MaxRecords
      /\ written' = r /\ alloc' = alloc + 1 /\ docID' = [docID EXCEPT ![r] = alloc + 1]
      /\ nodes' = [nodes EXCEPT ![k] = f]
      /\ active' = active \cup {r} /\ acked' = acked \cup {r}
  <2>1. r \in 1..MaxRecords
    BY BoundsAssumption DEF Write, Core, ClientTypes
  <2> QED
    BY <2>1 DEF Write, Records
<1>2. /\ nodes' \in Seq(File) /\ Len(nodes') = Len(nodes) /\ Kept(nodes, nodes')
  <2>1. CASE k \in DOMAIN nodes
    <3>1. nodes[k] \in File /\ nodes \in Seq(File)
      BY <2>1 DEF Core
    <3>2. f \in File /\ (nodes[k].whole => f.whole)
      BY <1>1, <3>1 DEF File
    <3> HIDE DEF f, k
    <3> QED
      BY <1>1, <3>1, <3>2, NodeChanged
  <2>2. CASE k \notin DOMAIN nodes
    <3>1. nodes' = nodes
      BY <1>1, <2>2 DEF Core
    <3> QED
      BY <3>1, KeptSame DEF Core
  <2> QED
    BY <2>1, <2>2
<1> HIDE DEF f, k
<1>3. AllGood(dirs', nodes', rotten') /\ Dir' = Dir
  BY <1>2, AllGoodKept DEF Core, Write, Dir, bounds
<1>4. Flushing'
  BY <1>2, <1>3, FlushingKept DEF Write, bounds
<1>5. ClientTypes' /\ MemoryTypes'
  BY <1>1 DEF Core, ClientTypes, MemoryTypes, Records, Write
<1>6. Numbering'
  <2>1. \A q \in Records : docID'[q] <= written'
    BY <1>1 DEF Core, ClientTypes, MemoryTypes, Numbering
  <2> QED
    BY <1>1, <1>2, <2>1 DEF Core, ClientTypes, MemoryTypes, Numbering, Write
<1>7. IdsKnown' /\ ProcessTypes' /\ Steady
  BY <1>3 DEF Core, IdsKnown, ProcessTypes, Steady, Write, bounds
<1> QED
  BY <1>2, <1>3, <1>4, <1>5, <1>6, <1>7 DEF Core

LEMMA FreezeStep == ASSUME Core, Freeze PROVE Core' /\ Steady
<1> DEFINE f == [recs |-> {}, whole |-> TRUE]
<1>1. f \in File /\ Len(nodes) \in Nat /\ seg \in Nat /\ seg <= Len(nodes)
  BY DEF File, Core, MemoryTypes, Numbering
<1>2. Wal(seg + 1) \in Kinds \X (1..Len(nodes) + 1) /\ Wal(seg + 1)[1] = "wal"
  BY <1>1 DEF Wal, Kinds
<1>3. /\ nodes' = Append(nodes, f) /\ Change(Linked(Dir, Wal(seg + 1), NewNode))
      /\ UNCHANGED rotten
  BY DEF Freeze, bounds
<1> HIDE DEF f
<1>4. /\ nodes' \in Seq(File) /\ AllGood(dirs', nodes', rotten')
      /\ Len(nodes') = Len(nodes) + 1
      /\ DOMAIN Dir' = DOMAIN Dir \cup {Wal(seg + 1)}
      /\ \A m \in DOMAIN Dir : m # Wal(seg + 1) => Dir'[m] = Dir[m]
      /\ Steady
  BY <1>1, <1>2, <1>3, LinkStep
<1>5. MemoryTypes' /\ frozen' # <<>>
  <2> DEFINE g == [mt |-> active, seg |-> seg]
  <2>1. g \in [mt : SUBSET Records, seg : Nat]
    BY DEF Core, MemoryTypes
  <2> HIDE DEF g
  <2>2. frozen' = Append(frozen, g) /\ frozen \in Seq([mt : SUBSET Records, seg : Nat])
    BY DEF Core, MemoryTypes, Freeze, g
  <2>3. /\ frozen' \in Seq([mt : SUBSET Records, seg : Nat]) /\ frozen' # <<>>
        /\ Len(frozen') = Len(frozen) + 1 /\ Len(frozen) \in Nat
    BY <2>1, <2>2
  <2> QED
    BY <1>1, <2>3 DEF Core, MemoryTypes, Freeze
<1>6. Flushing'
  <2>1. Kept(nodes, nodes')
    BY <1>1, <1>3, NodeAdded DEF Core
  <2> QED
    BY <1>2, <1>4, <1>5, <2>1, FlushingKept DEF Freeze, bounds
<1>7. Numbering'
  BY <1>1, <1>4 DEF Core, Numbering, MemoryTypes, ProcessTypes, Freeze, client
<1>8. IdsKnown' /\ ProcessTypes'
  <2>1. IdsKnown'
    BY <1>2, <1>4 DEF Core, IdsKnown, Freeze
  <2> QED
    BY <2>1 DEF Core, ProcessTypes, Freeze, bounds
<1> QED
  BY <1>4, <1>5, <1>6, <1>7, <1>8 DEF Core, ClientTypes, Freeze, client

-----------------------------------------------------------------------------
(* The flush worker                                                        *)

\* An id beyond every name of the directory: its final path is free.
LEMMA FlushCreateStep == ASSUME Core, FlushCreate PROVE Core' /\ Steady
<1> DEFINE n == nextSST + 1
           f == [recs |-> {}, whole |-> FALSE]
<1>1. /\ f \in File /\ Len(nodes) \in Nat /\ nextSST \in Nat /\ nextSST <= Len(nodes)
      /\ up = "running" /\ frozen # <<>>
  BY DEF File, Core, ProcessTypes, Numbering, FlushCreate, FlushAt
<1>2. n \in Nat /\ Tmp(n) \in Kinds \X (1..Len(nodes) + 1) /\ Tmp(n)[1] = "tmp"
  BY <1>1 DEF Tmp, Kinds
<1>3. /\ nodes' = Append(nodes, f) /\ Change(Linked(Dir, Tmp(n), NewNode))
      /\ UNCHANGED rotten
  BY DEF FlushCreate, bounds
<1> HIDE DEF f
<1>4. /\ nodes' \in Seq(File) /\ AllGood(dirs', nodes', rotten')
      /\ Len(nodes') = Len(nodes) + 1
      /\ DOMAIN Dir' = DOMAIN Dir \cup {Tmp(n)}
      /\ Steady
  BY <1>1, <1>2, <1>3, LinkStep
<1>5. Sst(n) \notin DOMAIN Dir'
  <2>1. Sst(n)[1] = "sst" /\ Sst(n)[2] = n
    BY DEF Sst
  <2>2. Sst(n) \notin DOMAIN Dir
    BY <1>1, <2>1 DEF Core, IdsKnown
  <2> QED
    BY <1>2, <1>4, <2>1, <2>2
<1>6. fl'.pc = "tmp" /\ fl'.id = n /\ ProcessTypes'
  BY <1>1 DEF Core, ProcessTypes, FlushCreate, bounds
<1>7. Flushing'
  BY <1>1, <1>4, <1>5, <1>6 DEF Flushing, FlushCreate, memory
<1>8. Numbering'
  BY <1>1, <1>4 DEF Core, Numbering, MemoryTypes, FlushCreate, client, memory
<1>9. IdsKnown'
  <2>1. nextSST' = n /\ up' = up /\ Tmp(n)[2] = n
    BY DEF FlushCreate, Tmp
  <2>2. ASSUME NEW m \in DOMAIN Dir', m[1] \in {"sst", "tmp"}
        PROVE  m[2] <= n
    <3>1. CASE m = Tmp(n)
      BY <1>2, <2>1, <3>1
    <3>2. CASE m \in DOMAIN Dir
      <4>1. m[2] <= nextSST /\ m[2] \in 1..Len(nodes)
        BY <1>1, <2>2, <3>2, NamesAre DEF Core, IdsKnown
      <4> QED
        BY <1>1, <4>1
    <3> QED
      BY <1>4, <2>2, <3>1, <3>2
  <2> QED
    BY <2>1, <2>2 DEF IdsKnown
<1> QED
  BY <1>4, <1>6, <1>7, <1>8, <1>9
     DEF Core, ClientTypes, MemoryTypes, FlushCreate, client, memory

LEMMA FlushSyncStep == ASSUME Core, FlushSync PROVE Core' /\ Steady
<1> DEFINE k == Dir[Tmp(fl.id)]
           f == [recs |-> Head(frozen).mt, whole |-> TRUE]
<1>1. up = "running" /\ fl.pc = "tmp" /\ frozen # <<>> /\ k \in DOMAIN nodes
  <2>1. up = "running" /\ fl.pc = "tmp"
    BY DEF FlushSync, FlushAt
  <2> QED
    BY <2>1, NamesAre DEF Core, Flushing
<1>2. f \in File /\ f.whole
  <2>1. frozen \in Seq([mt : SUBSET Records, seg : Nat])
    BY DEF Core, MemoryTypes
  <2>2. ASSUME NEW T, NEW q \in Seq(T), q # <<>>
        PROVE  Head(q) \in T
    BY <2>2
  <2>3. Head(frozen) \in [mt : SUBSET Records, seg : Nat]
    BY <1>1, <2>1, <2>2
  <2> QED
    BY <2>3 DEF File
<1>3. nodes' = [nodes EXCEPT ![k] = f] /\ fl' = [fl EXCEPT !.pc = "synced"]
  BY DEF FlushSync, FlushTo
<1> HIDE DEF f, k
<1>4. /\ nodes' \in Seq(File) /\ Len(nodes') = Len(nodes) /\ Kept(nodes, nodes')
      /\ nodes'[k] = f
  BY <1>1, <1>2, <1>3, NodeChanged DEF Core
<1>5. AllGood(dirs', nodes', rotten') /\ Dir' = Dir
  BY <1>4, AllGoodKept DEF Core, FlushSync, Dir, bounds
<1>6. fl'.pc = "synced" /\ fl'.id = fl.id /\ ProcessTypes'
  BY <1>3 DEF Core, ProcessTypes, FlushSync, bounds
<1>7. Flushing'
  <2>1. Tmp(fl.id) \in DOMAIN Dir /\ Sst(fl.id) \notin DOMAIN Dir
    BY <1>1 DEF Core, Flushing
  <2>2. nodes'[Dir[Tmp(fl.id)]].whole
    BY <1>2, <1>4 DEF k
  <2> QED
    BY <1>1, <1>5, <1>6, <2>1, <2>2 DEF Flushing, Whole, FlushSync, memory
<1>8. Numbering' /\ IdsKnown' /\ Steady
  BY <1>4, <1>5 DEF Core, Numbering, IdsKnown, Steady, FlushSync, client, memory
<1> QED
  BY <1>4, <1>5, <1>6, <1>7, <1>8
     DEF Core, ClientTypes, MemoryTypes, FlushSync, client, memory

\* A complete file takes a path that is free.
LEMMA FlushRenameStep == ASSUME Core, FlushRename PROVE Core' /\ Steady
<1> DEFINE old == Tmp(fl.id)
           new == Sst(fl.id)
<1>1. /\ up = "running" /\ fl.pc = "synced" /\ frozen # <<>>
      /\ old \in DOMAIN Dir /\ new \notin DOMAIN Dir
      /\ rotten = 0 => nodes[Dir[old]].whole
  BY DEF Core, Flushing, Whole, FlushRename, FlushAt
<1>2. /\ old[1] = "tmp" /\ new[1] = "sst" /\ old # new /\ new[2] = old[2]
      /\ new \in Kinds \X (1..Len(nodes))
  <2>1. old[1] = "tmp" /\ new[1] = "sst" /\ old # new /\ new[2] = old[2] /\ old[2] = fl.id
    BY DEF Tmp, Sst
  <2>2. fl.id \in 1..Len(nodes)
    BY <1>1, <2>1, NamesAre
  <2> QED
    BY <2>1, <2>2 DEF Sst, Kinds
<1>3. Change(Renamed(Dir, old, new)) /\ fl' = [fl EXCEPT !.pc = "renamed"]
  BY DEF FlushRename, FlushTo
<1> HIDE DEF old, new
<1>4. Good(Renamed(Dir, old, new), nodes, rotten)
  BY <1>1, <1>2, LastDir, GoodRenamed DEF Core, Dir
<1>5. AllGood(dirs', nodes, rotten) /\ Dir' = Renamed(Dir, old, new)
  BY <1>3, <1>4, ChangeIs DEF Core
<1>6. /\ DOMAIN Dir' = (DOMAIN Dir \cup {new}) \ {old}
      /\ \A m \in DOMAIN Dir \ {old, new} : Dir'[m] = Dir[m]
  BY <1>2, <1>5 DEF Renamed, Linked, Unlinked
<1>7. Steady
  BY <1>1, <1>2, <1>6, SteadyIs
<1>8. IdsKnown'
  BY <1>1, <1>2, <1>6 DEF Core, IdsKnown, FlushRename
<1>9. fl'.pc = "renamed" /\ ProcessTypes'
  BY <1>3 DEF Core, ProcessTypes, FlushRename, bounds
<1>10. Flushing'
  BY <1>1, <1>9 DEF Flushing, FlushRename, memory
<1> QED
  BY <1>5, <1>7, <1>8, <1>9, <1>10
     DEF Core, ClientTypes, MemoryTypes, Numbering, FlushRename, client, memory, bounds

LEMMA FlushSyncDirStep == ASSUME Core, FlushSyncDir PROVE Core' /\ Steady
<1>1. AllGood(dirs', nodes', rotten') /\ Dir' = Dir
  <2>1. Good(Dir, nodes, rotten)
    BY LastDir DEF Core, Dir
  <2>2. dirs' = <<Dir>> /\ nodes' = nodes /\ rotten' = rotten
    BY DEF FlushSyncDir, bounds
  <2> QED
    BY <2>1, <2>2, SingleDir DEF Dir
<1>2. up = "running" /\ frozen # <<>>
  BY DEF Core, Flushing, FlushSyncDir, FlushAt
<1>3. fl'.pc = "published" /\ ProcessTypes'
  BY DEF Core, ProcessTypes, FlushSyncDir, FlushTo, bounds
<1>4. Flushing' /\ Numbering' /\ IdsKnown' /\ Steady
  BY <1>1, <1>2, <1>3
     DEF Core, Flushing, Numbering, IdsKnown, Steady, FlushSyncDir, client, memory
<1> QED
  BY <1>1, <1>3, <1>4 DEF Core, ClientTypes, MemoryTypes, FlushSyncDir, client, memory

LEMMA FlushFailStep == ASSUME Core, FlushFail PROVE Core' /\ Steady
<1>1. fl'.pc = "idle" /\ ProcessTypes' /\ Flushing'
  BY DEF Core, ProcessTypes, Flushing, FlushFail, Idle, bounds
<1>2. Numbering'
  BY DEF Core, Numbering, FlushFail, client, memory
<1>3. AllGood(dirs', nodes', rotten') /\ IdsKnown' /\ Steady
  <2>1. CASE Change(Unlinked(Dir, Tmp(fl.id)))
    <3>1. UNCHANGED <<nodes, rotten>>
      BY DEF FlushFail, bounds
    <3>2. /\ AllGood(dirs', nodes', rotten') /\ Steady
          /\ DOMAIN Dir' = DOMAIN Dir \ {Tmp(fl.id)}
      BY <2>1, <3>1, UnlinkStep
    <3> QED
      BY <3>2 DEF Core, IdsKnown, FlushFail
  <2>2. CASE UNCHANGED dirs
    BY <2>2 DEF Core, IdsKnown, Steady, Dir, FlushFail, bounds
  <2> QED
    BY <2>1, <2>2 DEF FlushFail
<1> QED
  BY <1>1, <1>2, <1>3 DEF Core, ClientTypes, MemoryTypes, FlushFail, client, memory

LEMMA FlushSwapStep == ASSUME Core, FlushSwap PROVE Core' /\ Steady
<1>1. up = "running" /\ frozen # <<>> /\ fl.id \in Nat
  BY DEF Core, Flushing, ProcessTypes, FlushSwap, FlushAt
<1>2. fl'.pc = "swapped" /\ ProcessTypes'
  BY <1>1 DEF Core, ProcessTypes, FlushSwap, FlushTo, bounds
<1>3. Flushing' /\ Numbering' /\ IdsKnown' /\ Steady
  BY <1>1, <1>2 DEF Core, Flushing, Numbering, IdsKnown, Steady, Dir, FlushSwap, client, memory
<1> QED
  BY <1>2, <1>3 DEF Core, ClientTypes, MemoryTypes, FlushSwap, client, memory, bounds

LEMMA FlushDeleteStep == ASSUME Core, FlushDelete PROVE Core' /\ Steady
<1>1. fl'.pc = "idle" /\ ProcessTypes' /\ Flushing'
  BY DEF Core, ProcessTypes, Flushing, FlushDelete, Idle, bounds
<1>2. Numbering'
  BY DEF Core, Numbering, FlushDelete, client
<1>3. AllGood(dirs', nodes', rotten') /\ IdsKnown' /\ Steady
  <2>1. CASE Change(Unlinked(Dir, Wal(Head(frozen).seg)))
    <3>1. UNCHANGED <<nodes, rotten>>
      BY DEF FlushDelete, bounds
    <3>2. /\ AllGood(dirs', nodes', rotten') /\ Steady
          /\ DOMAIN Dir' = DOMAIN Dir \ {Wal(Head(frozen).seg)}
      BY <2>1, <3>1, UnlinkStep
    <3> QED
      BY <3>2 DEF Core, IdsKnown, FlushDelete
  <2>2. CASE UNCHANGED dirs
    BY <2>2 DEF Core, IdsKnown, Steady, Dir, FlushDelete, bounds
  <2> QED
    BY <2>1, <2>2 DEF FlushDelete
<1>4. MemoryTypes'
  <2>1. frozen # <<>> /\ frozen \in Seq([mt : SUBSET Records, seg : Nat])
        /\ frozen' = Tail(frozen)
    BY DEF Core, Flushing, MemoryTypes, FlushDelete, FlushAt
  <2>2. frozen' \in Seq([mt : SUBSET Records, seg : Nat])
    BY <2>1
  <2> QED
    BY <2>2 DEF Core, MemoryTypes, FlushDelete
<1> QED
  BY <1>1, <1>2, <1>3, <1>4 DEF Core, ClientTypes, FlushDelete, client

-----------------------------------------------------------------------------
(* Stops                                                                   *)

\* A stop forgets what is in memory; Open starts from the files.
LEMMA ForgetStep ==
    ASSUME Core, Forget, nodes' \in Seq(File), UNCHANGED <<written, docID>>
    PROVE  MemoryTypes' /\ Numbering' /\ IdsKnown' /\ Flushing' /\ up' = "down"
           /\ (rotten' \in Nat => ProcessTypes')
<1>1. fl'.pc = "idle" /\ up' = "down" /\ IdsKnown' /\ Flushing'
  BY DEF Forget, Idle, IdsKnown, Flushing
<1>2. frozen' = <<>> /\ Len(frozen') = 0 /\ frozen' \in Seq([mt : SUBSET Records, seg : Nat])
  BY DEF Forget
<1>3. MemoryTypes'
  BY <1>2, BoundsAssumption DEF MemoryTypes, Forget
<1>4. Numbering'
  BY DEF Core, Numbering, ClientTypes, Forget
<1>5. rotten' \in Nat => ProcessTypes'
  BY DEF Core, ProcessTypes, Forget, Idle
<1> QED
  BY <1>1, <1>3, <1>4, <1>5

LEMMA KillStep == ASSUME Core, Kill PROVE Core' /\ up' = "down"
  BY ForgetStep DEF Core, Kill, ClientTypes, ProcessTypes, client

LEMMA PowerFailureStep == ASSUME Core, PowerFailure PROVE Core' /\ up' = "down"
<1>1. PICK i \in DOMAIN dirs : dirs' = <<dirs[i]>> /\ acked' = acked \cap Recoverable(dirs[i])
  BY DEF PowerFailure
<1>2. AllGood(dirs', nodes', rotten')
  BY <1>1, SingleDir DEF Core, AllGood, PowerFailure
<1>3. ClientTypes'
  BY <1>1 DEF Core, ClientTypes, PowerFailure
<1> QED
  BY <1>2, <1>3, ForgetStep DEF Core, PowerFailure, ProcessTypes

LEMMA RotStep == ASSUME Core, Rot PROVE Core' /\ up' = "down"
<1>1. PICK n \in Ids("sst") : nodes' = [nodes EXCEPT ![Dir[Sst(n)]].whole = FALSE]
  BY DEF Rot
<1> DEFINE k == Dir[Sst(n)]
           f == [nodes[k] EXCEPT !.whole = FALSE]
<1>2. k \in DOMAIN nodes /\ nodes[k] \in File
  <2>1. Sst(n) \in DOMAIN Dir
    BY IdsAre DEF Kinds, Sst
  <2> QED
    BY <2>1, NamesAre DEF Core
<1>3. f \in File /\ nodes' = [nodes EXCEPT ![k] = f]
  BY <1>1, <1>2 DEF File
<1> HIDE DEF f, k
<1>4. nodes' \in Seq(File) /\ Len(nodes') = Len(nodes) /\ DOMAIN nodes' = DOMAIN nodes
  BY <1>2, <1>3 DEF Core
<1>5. rotten' \in Nat /\ rotten' # 0 /\ up = "down" /\ up' = "down" /\ fl.pc = "idle"
  BY DEF Core, ProcessTypes, Flushing, Rot
<1>6. AllGood(dirs', nodes', rotten')
  BY <1>4, <1>5 DEF Core, AllGood, Good, Rot
<1>7. Flushing' /\ IdsKnown' /\ Numbering' /\ ProcessTypes'
  BY <1>4, <1>5 DEF Core, Flushing, IdsKnown, Numbering, ProcessTypes, Rot, client, memory
<1> QED
  BY <1>4, <1>5, <1>6, <1>7 DEF Core, ClientTypes, MemoryTypes, Rot, client, memory

-----------------------------------------------------------------------------
(* The theorems                                                            *)

LEMMA InitCore == Init => Core
<1> SUFFICES ASSUME Init PROVE Core
  OBVIOUS
<1> DEFINE d == [name \in {} |-> 0]
<1>1. DOMAIN d = {} /\ dirs = <<d>> /\ nodes = <<>> /\ rotten = 0 /\ up = "down"
  BY DEF Init
<1> HIDE DEF d
<1>2. AllGood(dirs, nodes, rotten)
  <2>1. Good(d, nodes, rotten)
    BY <1>1 DEF Good
  <2> QED
    BY <1>1, <2>1, SingleDir
<1>3. nodes \in Seq(File) /\ Len(nodes) = 0
  BY <1>1
<1>4. frozen = <<>> /\ Len(frozen) = 0 /\ frozen \in Seq([mt : SUBSET Records, seg : Nat])
  BY DEF Init
<1>5. ClientTypes /\ MemoryTypes /\ ProcessTypes
  BY <1>4, BoundsAssumption DEF Init, ClientTypes, MemoryTypes, ProcessTypes, Idle
<1>6. Numbering /\ IdsKnown /\ Flushing
  BY <1>3 DEF Init, Numbering, IdsKnown, Flushing, Idle
<1> QED
  BY <1>2, <1>3, <1>5, <1>6 DEF Core

\* Every step keeps the invariant, and none that a living process takes
\* replaces an SSTable.
LEMMA NextCore ==
    ASSUME Core, [Next]_vars
    PROVE  Core' /\ (up # "down" /\ up' # "down" => Steady)
<1>1. CASE ReadIds
  BY <1>1, ReadIdsStep DEF ReadIds
<1>2. CASE RemoveTmp
  BY <1>2, RemoveTmpStep
<1>3. CASE LoadTable
  BY <1>3, LoadTableStep
<1>4. CASE CreateFirstSegment
  BY <1>4, CreateFirstSegmentStep
<1>5. CASE ReplayLog
  BY <1>5, ReplayLogStep
<1>6. CASE DeleteCovered
  BY <1>6, DeleteCoveredStep
<1>7. CASE Write
  BY <1>7, WriteStep
<1>8. CASE Freeze
  BY <1>8, FreezeStep
<1>9. CASE FlushCreate
  BY <1>9, FlushCreateStep
<1>10. CASE FlushSync
  BY <1>10, FlushSyncStep
<1>11. CASE FlushRename
  BY <1>11, FlushRenameStep
<1>12. CASE FlushSyncDir
  BY <1>12, FlushSyncDirStep
<1>13. CASE FlushFail
  BY <1>13, FlushFailStep
<1>14. CASE FlushSwap
  BY <1>14, FlushSwapStep
<1>15. CASE FlushDelete
  BY <1>15, FlushDeleteStep
<1>16. CASE Kill
  BY <1>16, KillStep
<1>17. CASE PowerFailure
  BY <1>17, PowerFailureStep
<1>18. CASE Rot
  BY <1>18, RotStep
<1>19. CASE UNCHANGED vars
  <2>1. Core'
    BY <1>19
       DEF vars, Core, ClientTypes, MemoryTypes, ProcessTypes, Numbering, IdsKnown, Flushing,
           Dir, Whole
  <2>2. Steady
    BY <1>19 DEF vars, Steady, Dir
  <2> QED
    BY <2>1, <2>2
<1> QED
  BY <1>1, <1>2, <1>3, <1>4, <1>5, <1>6, <1>7, <1>8, <1>9, <1>10, <1>11, <1>12, <1>13,
     <1>14, <1>15, <1>16, <1>17, <1>18, <1>19 DEF Next, Open, Flush

LEMMA CoreAlways == Spec => []Core
<1>1. Core /\ [Next]_vars => Core'
  BY NextCore
<1> QED
  BY InitCore, <1>1, PTL DEF Spec

\* The strengthening is an invariant: file numbers never outrun the files,
\* Open learns every SSTable id, and a flush's final path is free.
THEOREM FilesInvariant == Spec => []FilesInv
  BY CoreAlways, CoreIs, PTL

\* Every variable keeps its type, and every name leads to a file.
THEOREM FilesTypeOK == Spec => []TypeOK
<1>1. FilesInv => TypeOK
  BY DEF FilesInv
<1> QED
  BY FilesInvariant, <1>1, PTL

\* The SSTable writer's protocol of .tmp file, sync and rename: whatever a
\* kill or a power failure leaves, a file at a final path is complete.
THEOREM SSTablesAreComplete == Spec => []CompleteOrNowhere
<1>1. FilesInv => CompleteOrNowhere
  BY DEF FilesInv
<1> QED
  BY FilesInvariant, <1>1, PTL

\* The ids that Open takes from the directory are enough: no process ever
\* replaces an SSTable.
THEOREM SSTablesAreNotReplaced == Spec => NeverReplaced
<1>1. Core /\ [Next]_vars =>
        [(up # "down" /\ up' # "down") =>
           \A n \in Ids("sst") : Sst(n) \in DOMAIN Dir' => Dir'[Sst(n)] = Dir[Sst(n)]]_vars
  BY NextCore DEF Steady
<1> QED
  BY CoreAlways, <1>1, PTL DEF Spec, NeverReplaced

-----------------------------------------------------------------------------
(* Acknowledged records                                                    *)

\* The records of one kind of file, and those recovery looks at.
Held(d, ns, kind) ==
    {r \in Records : \E m \in DOMAIN d : m[1] = kind /\ r \in ns[d[m]].recs}
Content(d, ns) == Held(d, ns, "wal") \cup Held(d, ns, "sst")

SoundIn(d, ns, doc, ack) ==
    /\ \A m \in DOMAIN d : m[1] = "wal" => ns[d[m]].whole
    /\ Content(d, ns) \subseteq ack
    /\ \A r \in Held(d, ns, "wal"), t \in Held(d, ns, "sst") :
         doc[r] <= doc[t] => r \in Held(d, ns, "sst")

Disk ==
    /\ DocIDsApart /\ FilesApart
    /\ \A i \in DOMAIN dirs : SoundIn(dirs[i], nodes, docID, acked)
    /\ acked \subseteq Content(Dir, nodes)
FlushedSafe ==
    fl.pc \in {"published", "swapped"} =>
        \A i \in DOMAIN dirs : Head(frozen).mt \subseteq Content(dirs[i], nodes)

Secured == Disk /\ Loading /\ Filling /\ Serving /\ FlushedSafe

\* A step takes nothing out of any directory that it does not take away whole.
Grows ==
    \A j \in DOMAIN dirs' : \E i \in DOMAIN dirs :
        Content(dirs[i], nodes) \subseteq Content(dirs'[j], nodes')

\* While nothing rots, complete files are the rule: what recovery takes from
\* a directory is what its files hold.
LEMMA HeldIs ==
    ASSUME Core, NEW d, Good(d, nodes, rotten), NEW kind,
           \A m \in DOMAIN d : m[1] = kind => Whole(d, m)
    PROVE  RecordsIn(d, kind) = Held(d, nodes, kind)
<1>1. \A m \in DOMAIN d : nodes[d[m]].recs \subseteq Records
  <2>1. \A k \in DOMAIN nodes : nodes[k] \in File
    BY DEF Core
  <2> QED
    BY <2>1 DEF Good, File
<1> QED
  BY <1>1 DEF RecordsIn, Held

TablesRead ==
    /\ \A i \in DOMAIN dirs : Persisted(dirs[i]) = Held(dirs[i], nodes, "sst")
    /\ Persisted(Dir) = Held(Dir, nodes, "sst")

LEMMA PersistedIs == Core /\ rotten = 0 => TablesRead
<1> SUFFICES ASSUME Core, rotten = 0 PROVE TablesRead
  OBVIOUS
<1>1. ASSUME NEW d, Good(d, nodes, rotten)
      PROVE  Persisted(d) = Held(d, nodes, "sst")
  <2>1. \A m \in DOMAIN d : m[1] = "sst" => Whole(d, m)
    BY <1>1 DEF Good, Whole
  <2> QED
    BY <1>1, <2>1, HeldIs DEF Persisted
<1> QED
  BY <1>1, LastDir DEF Core, AllGood, Dir, TablesRead

LEMMA PersistedNext == (Core /\ rotten = 0)' => TablesRead'
  BY PersistedIs, PTL

LEMMA RecoverableIs ==
    ASSUME Core, rotten = 0, Disk, NEW i \in DOMAIN dirs
    PROVE  Recoverable(dirs[i]) = Content(dirs[i], nodes)
<1> DEFINE d == dirs[i]
<1>1. Good(d, nodes, rotten) /\ SoundIn(d, nodes, docID, acked)
  BY DEF Core, AllGood, Disk
<1>2. Persisted(d) = Held(d, nodes, "sst")
  BY PersistedIs DEF TablesRead
<1>3. RecordsIn(d, "wal") = Held(d, nodes, "wal")
  BY <1>1, HeldIs DEF SoundIn, Whole
<1> HIDE DEF d
<1> DEFINE P == Held(d, nodes, "sst")
<1>4. P \in SUBSET Records
  BY DEF Held
<1>5. ASSUME NEW r \in Held(d, nodes, "wal"), ~(docID[r] > Cutoff(P))
      PROVE  r \in P
  <2>1. r \in Records /\ docID[r] \in Nat /\ docID[r] > 0
    BY <1>1, <1>5 DEF Held, SoundIn, Content, Disk, DocIDsApart, Core, ClientTypes
  <2>2. Cutoff(P) \in Nat /\ (IF P = {} THEN Cutoff(P) = 0 ELSE \E t \in P : docID[t] = Cutoff(P))
    <3> HIDE DEF P
    <3> QED
      BY <1>4, CutoffIs
  <2>3. PICK t \in P : docID[r] <= docID[t]
    BY <1>5, <2>1, <2>2
  <2> QED
    BY <1>1, <2>3 DEF SoundIn
<1>6. Recoverable(d) = Content(d, nodes)
  BY <1>2, <1>3, <1>5 DEF Recoverable, Replayed, Content
<1> QED
  BY <1>6 DEF d

-----------------------------------------------------------------------------
(* Steps on the directories.                                               *)

LEMMA ContentKept ==
    ASSUME NEW d, NEW ns, NEW ms,
           \A m \in DOMAIN d : m[1] \in {"wal", "sst"} => ms[d[m]].recs = ns[d[m]].recs
    PROVE  /\ Held(d, ms, "wal") = Held(d, ns, "wal") /\ Held(d, ms, "sst") = Held(d, ns, "sst")
           /\ Content(d, ms) = Content(d, ns)
  BY DEF Held, Content

LEMMA SoundKept ==
    ASSUME NEW d, NEW ns, NEW ms, NEW doc, NEW ack, SoundIn(d, ns, doc, ack),
           \A m \in DOMAIN d : m[1] \in {"wal", "sst"} =>
                ms[d[m]].recs = ns[d[m]].recs /\ (ns[d[m]].whole => ms[d[m]].whole)
    PROVE  SoundIn(d, ms, doc, ack)
<1>1. /\ Held(d, ms, "wal") = Held(d, ns, "wal") /\ Held(d, ms, "sst") = Held(d, ns, "sst")
      /\ Content(d, ms) = Content(d, ns)
  BY ContentKept
<1>2. \A m \in DOMAIN d : m[1] = "wal" => ms[d[m]].whole
  BY DEF SoundIn
<1> QED
  BY <1>1, <1>2 DEF SoundIn

\* One more directory over the same files.
LEMMA DiskChange ==
    ASSUME Core, Disk, UNCHANGED <<nodes, written, docID, acked>>,
           NEW d, Good(d, nodes, rotten), Change(d),
           \A m \in DOMAIN d : \E n \in DOMAIN Dir :
                Dir[n] = d[m] /\ n[2] = m[2] /\ (n[1] = "wal" <=> m[1] = "wal"),
           SoundIn(d, nodes, docID, acked), acked \subseteq Content(d, nodes)
    PROVE  Disk' /\ Grows /\ Dir' = d
<1>1. Dir' = d
  BY ChangeIs DEF Core
<1>2. /\ \A j \in DOMAIN dirs' : (j \in DOMAIN dirs /\ dirs'[j] = dirs[j]) \/ dirs'[j] = d
      /\ Len(dirs) \in DOMAIN dirs
  BY Appended, LastDir DEF Core, Change
<1>3. \A j \in DOMAIN dirs' : SoundIn(dirs'[j], nodes', docID', acked')
  BY <1>2 DEF Disk
<1>4. \A j \in DOMAIN dirs' : \A m \in DOMAIN dirs'[j] :
         \E i \in DOMAIN dirs : \E n \in DOMAIN dirs[i] :
            dirs[i][n] = dirs'[j][m] /\ n[2] = m[2] /\ (n[1] = "wal" <=> m[1] = "wal")
  BY <1>2 DEF Dir
<1>5. FilesApart'
  <2>1. ASSUME NEW j \in DOMAIN dirs', NEW k \in DOMAIN dirs',
               NEW m \in DOMAIN dirs'[j], NEW n \in DOMAIN dirs'[k], dirs'[j][m] = dirs'[k][n]
        PROVE  m[2] = n[2] /\ (m[1] = "wal" <=> n[1] = "wal")
    <3>1. PICK i \in DOMAIN dirs : \E a \in DOMAIN dirs[i] :
             dirs[i][a] = dirs'[j][m] /\ a[2] = m[2] /\ (a[1] = "wal" <=> m[1] = "wal")
      BY <1>4
    <3>2. PICK l \in DOMAIN dirs : \E b \in DOMAIN dirs[l] :
             dirs[l][b] = dirs'[k][n] /\ b[2] = n[2] /\ (b[1] = "wal" <=> n[1] = "wal")
      BY <1>4
    <3> QED
      BY <2>1, <3>1, <3>2 DEF Disk, FilesApart
  <2> QED
    BY <2>1 DEF FilesApart
<1>6. Content(Dir, nodes) \subseteq Content(d, nodes)
  BY <1>2 DEF Disk, SoundIn, Dir
<1>7. Grows
  BY <1>2, <1>6 DEF Grows, Dir
<1>8. DocIDsApart' /\ acked' \subseteq Content(Dir', nodes')
  BY <1>1 DEF Disk, DocIDsApart
<1> QED
  BY <1>1, <1>3, <1>5, <1>7, <1>8 DEF Disk

\* A name goes that no record needs.
LEMMA DiskUnlink ==
    ASSUME Core, Disk, UNCHANGED <<nodes, written, docID, acked, rotten>>,
           NEW name, name[1] # "sst", Change(Unlinked(Dir, name)),
           (name \in DOMAIN Dir /\ name[1] = "wal") =>
                nodes[Dir[name]].recs \subseteq Held(Dir, nodes, "sst")
    PROVE  Disk' /\ Grows
<1> DEFINE d == Unlinked(Dir, name)
<1>1. DOMAIN d = DOMAIN Dir \ {name} /\ \A m \in DOMAIN Dir \ {name} : d[m] = Dir[m]
  BY UnlinkedIs
<1>2. Good(d, nodes, rotten)
  BY LastDir, GoodUnlinked DEF Core, Dir
<1>3. SoundIn(Dir, nodes, docID, acked)
  BY LastDir DEF Core, Disk, Dir
<1>4. Change(d)
  OBVIOUS
<1> HIDE DEF d
<1>5. /\ Held(d, nodes, "sst") = Held(Dir, nodes, "sst")
      /\ Held(d, nodes, "wal") \subseteq Held(Dir, nodes, "wal")
  BY <1>1 DEF Held
<1>6. Held(Dir, nodes, "wal") \subseteq Content(d, nodes)
  <2>1. ASSUME NEW r \in Held(Dir, nodes, "wal")
        PROVE  r \in Content(d, nodes)
    <3>1. PICK m \in DOMAIN Dir : m[1] = "wal" /\ r \in nodes[Dir[m]].recs
      BY DEF Held
    <3>2. CASE m = name
      BY <1>5, <3>1, <3>2 DEF Content
    <3>3. CASE m # name
      BY <1>1, <3>1, <3>3 DEF Content, Held
    <3> QED
      BY <3>2, <3>3
  <2> QED
    BY <2>1
<1>7. Content(d, nodes) = Content(Dir, nodes)
  BY <1>5, <1>6 DEF Content
<1>8. SoundIn(d, nodes, docID, acked)
  <2>1. \A m \in DOMAIN d : m[1] = "wal" => nodes[d[m]].whole
    BY <1>1, <1>3 DEF SoundIn
  <2> QED
    BY <1>3, <1>5, <1>7, <2>1 DEF SoundIn
<1>9. acked \subseteq Content(d, nodes)
  BY <1>7 DEF Disk
<1> QED
  BY <1>1, <1>2, <1>4, <1>8, <1>9, DiskChange

\* A new, empty file under a name that is free.
LEMMA DiskLink ==
    ASSUME Core, Disk, UNCHANGED <<written, docID, acked, rotten>>, Core',
           NEW f \in File, f.recs = {}, nodes' = Append(nodes, f),
           NEW name \in Kinds \X (1..Len(nodes) + 1), name[1] # "sst", name \notin DOMAIN Dir,
           name[1] = "wal" => f.whole, Change(Linked(Dir, name, NewNode))
    PROVE  /\ Disk' /\ Grows
           /\ DOMAIN Dir' = DOMAIN Dir \cup {name} /\ Dir'[name] = NewNode
           /\ \A m \in DOMAIN Dir : Dir'[m] = Dir[m]
           /\ \A k \in DOMAIN nodes : nodes'[k] = nodes[k]
           /\ nodes'[NewNode] = f
<1> DEFINE d == Linked(Dir, name, NewNode)
<1>1. /\ DOMAIN d = DOMAIN Dir \cup {name} /\ d[name] = NewNode
      /\ \A m \in DOMAIN Dir : d[m] = Dir[m]
  BY DEF Linked
<1>2. /\ \A k \in DOMAIN nodes : nodes'[k] = nodes[k]
      /\ nodes'[NewNode] = f /\ NewNode \notin DOMAIN nodes
  BY DEF Core, NewNode
<1>3. /\ \A i \in DOMAIN dirs : \A m \in DOMAIN dirs[i] : dirs[i][m] \in DOMAIN nodes
      /\ \A m \in DOMAIN Dir : Dir[m] \in DOMAIN nodes
      /\ AllGood(dirs, nodes, rotten)
  BY LastDir DEF Core, AllGood, Good, Dir
<1>4. /\ \A j \in DOMAIN dirs' : (j \in DOMAIN dirs /\ dirs'[j] = dirs[j]) \/ dirs'[j] = d
      /\ Dir' = d /\ Len(dirs) \in DOMAIN dirs
  BY <1>3, Appended, LastDir DEF Change, Dir
<1> HIDE DEF d
<1>5. ASSUME NEW i \in DOMAIN dirs
      PROVE  /\ SoundIn(dirs[i], nodes', docID, acked)
             /\ Content(dirs[i], nodes') = Content(dirs[i], nodes)
  <2>1. \A m \in DOMAIN dirs[i] : nodes'[dirs[i][m]] = nodes[dirs[i][m]]
    BY <1>2, <1>3
  <2>2. SoundIn(dirs[i], nodes, docID, acked)
    BY DEF Disk
  <2>3. ASSUME NEW e, SoundIn(e, nodes, docID, acked),
               \A m \in DOMAIN e : nodes'[e[m]] = nodes[e[m]]
        PROVE  SoundIn(e, nodes', docID, acked) /\ Content(e, nodes') = Content(e, nodes)
    <3>1. SoundIn(e, nodes', docID, acked)
      BY <2>3, SoundKept
    <3>2. Content(e, nodes') = Content(e, nodes)
      BY <2>3 DEF Content, Held
    <3> QED
      BY <3>1, <3>2
  <2> QED
    BY <2>1, <2>2, <2>3
<1>6. /\ Held(d, nodes', "wal") = Held(Dir, nodes', "wal")
      /\ Held(d, nodes', "sst") = Held(Dir, nodes', "sst")
  <2>1. nodes'[d[name]].recs = {}
    BY <1>1, <1>2
  <2>2. ASSUME NEW kind
        PROVE  Held(d, nodes', kind) = Held(Dir, nodes', kind)
    BY <1>1, <2>1 DEF Held
  <2> QED
    BY <2>2
<1>7. SoundIn(Dir, nodes', docID, acked) /\ Content(Dir, nodes') = Content(Dir, nodes)
  BY <1>4, <1>5 DEF Dir
<1>8. SoundIn(d, nodes', docID, acked) /\ Content(d, nodes') = Content(Dir, nodes)
  <2>1. \A m \in DOMAIN d : m[1] = "wal" => nodes'[d[m]].whole
    BY <1>1, <1>2, <1>7 DEF SoundIn
  <2> QED
    BY <1>6, <1>7, <2>1 DEF SoundIn, Content
<1>9. Grows
  BY <1>4, <1>5, <1>8 DEF Grows, Dir
<1>10. FilesApart'
  <2>1. ASSUME NEW j \in DOMAIN dirs', NEW m \in DOMAIN dirs'[j]
        PROVE  \/ dirs'[j][m] = NewNode /\ m = name
               \/ \E i \in DOMAIN dirs : /\ m \in DOMAIN dirs[i]
                                         /\ dirs[i][m] = dirs'[j][m] /\ dirs[i][m] # NewNode
    BY <1>1, <1>2, <1>3, <1>4 DEF Dir
  <2>2. ASSUME NEW j \in DOMAIN dirs', NEW k \in DOMAIN dirs',
               NEW m \in DOMAIN dirs'[j], NEW n \in DOMAIN dirs'[k], dirs'[j][m] = dirs'[k][n]
        PROVE  m[2] = n[2] /\ (m[1] = "wal" <=> n[1] = "wal")
    BY <2>1, <2>2 DEF Disk, FilesApart
  <2> QED
    BY <2>2 DEF FilesApart
<1>11. DocIDsApart' /\ acked' \subseteq Content(Dir', nodes')
  BY <1>4, <1>8 DEF Disk, DocIDsApart
<1>12. \A j \in DOMAIN dirs' : SoundIn(dirs'[j], nodes', docID', acked')
  BY <1>4, <1>5, <1>8
<1> QED
  BY <1>1, <1>2, <1>4, <1>9, <1>10, <1>11, <1>12 DEF Disk

\* One of the directories is left: the current one after a sync, any of them
\* after a power failure.
LEMMA DiskLeft ==
    ASSUME Core, Disk, UNCHANGED <<nodes, written, docID>>, NEW i \in DOMAIN dirs,
           dirs' = <<dirs[i]>>, acked' = acked \cap Content(dirs[i], nodes)
    PROVE  Disk' /\ Grows
<1>1. DOMAIN dirs' = {1} /\ dirs'[1] = dirs[i] /\ Dir' = dirs[i]
  BY DEF Dir
<1>2. SoundIn(dirs[i], nodes, docID, acked')
  BY DEF Disk, SoundIn
<1>3. FilesApart' /\ DocIDsApart' /\ Grows
  BY <1>1 DEF Disk, FilesApart, DocIDsApart, Grows
<1> QED
  BY <1>1, <1>2, <1>3 DEF Disk

\* A write: the new record is younger than all the others.
LEMMA DiskWrite ==
    ASSUME Core, Disk, Loading, Serving, rotten = 0, Write
    PROVE  Disk' /\ Grows
<1> DEFINE r == written + 1
           k == Dir[Wal(seg)]
<1>1. /\ r \in Records /\ written \in Nat /\ up = "running" /\ alloc \in Nat
      /\ written' = r /\ docID' = [docID EXCEPT ![r] = alloc + 1]
      /\ dirs' = dirs /\ Dir' = Dir /\ acked' = acked \cup {r}
      /\ nodes' = [nodes EXCEPT ![k].recs = @ \cup {r}]
  BY BoundsAssumption DEF Write, Core, ClientTypes, MemoryTypes, Records, Dir
<1>2. Wal(seg) \in DOMAIN Dir /\ k \in DOMAIN nodes /\ Wal(seg)[1] = "wal"
  BY <1>1, NamesAre DEF Serving, Wal
<1>3. /\ r \notin acked /\ \A t \in acked : /\ docID'[t] = docID[t] /\ docID[t] \in Nat
                                           /\ docID[t] < docID'[r]
      /\ docID'[r] = alloc + 1 /\ docID' \in [Records -> Nat]
  BY <1>1 DEF Disk, DocIDsApart, Core, ClientTypes, Serving
<1>4. DocIDsApart'
  BY <1>1, <1>3 DEF Disk, DocIDsApart
<1>5. /\ \A n \in DOMAIN nodes : n # k => nodes'[n] = nodes[n]
      /\ nodes'[k].recs = nodes[k].recs \cup {r} /\ nodes'[k].whole = nodes[k].whole
  <2>1. nodes[k] \in File
    BY <1>2 DEF Core
  <2> QED
    BY <1>1, <1>2, <2>1 DEF Core, File
<1> HIDE DEF r, k
<1>6. /\ \A i \in DOMAIN dirs : \A m \in DOMAIN dirs[i] : dirs[i][m] \in DOMAIN nodes
      /\ Len(dirs) \in DOMAIN dirs
  BY LastDir DEF Core, AllGood, Good
<1>7. ASSUME NEW i \in DOMAIN dirs
      PROVE  /\ Held(dirs[i], nodes', "sst") = Held(dirs[i], nodes, "sst")
             /\ Held(dirs[i], nodes, "wal") \subseteq Held(dirs[i], nodes', "wal")
             /\ Held(dirs[i], nodes', "wal") \subseteq Held(dirs[i], nodes, "wal") \cup {r}
             /\ SoundIn(dirs[i], nodes', docID', acked')
  <2> DEFINE d == dirs[i]
  <2>1. ASSUME NEW m \in DOMAIN d, d[m] = k
        PROVE  m[1] = "wal"
    BY <1>2, <1>6, <2>1 DEF Disk, FilesApart, Dir, k
  <2>2. \A m \in DOMAIN d : d[m] \in DOMAIN nodes
    BY <1>6
  <2>3. SoundIn(d, nodes, docID, acked)
    BY DEF Disk
  <2> HIDE DEF d
  <2>4. Held(d, nodes', "sst") = Held(d, nodes, "sst")
    <3>1. \A m \in DOMAIN d : m[1] = "sst" => nodes'[d[m]] = nodes[d[m]]
      BY <1>5, <2>1, <2>2
    <3> QED
      BY <3>1 DEF Held
  <2>5. /\ Held(d, nodes, "wal") \subseteq Held(d, nodes', "wal")
        /\ Held(d, nodes', "wal") \subseteq Held(d, nodes, "wal") \cup {r}
    <3>1. \A m \in DOMAIN d : /\ nodes[d[m]].recs \subseteq nodes'[d[m]].recs
                              /\ nodes'[d[m]].recs \subseteq nodes[d[m]].recs \cup {r}
      BY <1>5, <2>2
    <3> QED
      BY <3>1 DEF Held
  <2>6. \A m \in DOMAIN d : m[1] = "wal" => nodes'[d[m]].whole
    BY <1>5, <2>2, <2>3 DEF SoundIn
  <2>7. Content(d, nodes') \subseteq acked'
    BY <1>1, <2>3, <2>4, <2>5 DEF SoundIn, Content
  <2>8. ASSUME NEW s \in Held(d, nodes', "wal"), NEW t \in Held(d, nodes', "sst"),
               docID'[s] <= docID'[t]
        PROVE  s \in Held(d, nodes', "sst")
    <3>1. t \in acked /\ docID'[t] < docID'[r] /\ docID'[r] \in Nat /\ docID'[t] \in Nat
      BY <1>1, <1>3, <2>3, <2>4 DEF SoundIn, Content
    <3>2. s # r
      BY <2>8, <3>1
    <3>3. s \in Held(d, nodes, "wal") /\ s \in acked
      BY <2>3, <2>5, <3>2 DEF SoundIn, Content
    <3>4. docID[s] <= docID[t]
      BY <1>3, <2>8, <3>1, <3>3
    <3> QED
      BY <2>3, <2>4, <3>3, <3>4 DEF SoundIn
  <2>9. SoundIn(d, nodes', docID', acked')
    BY <2>6, <2>7, <2>8 DEF SoundIn
  <2> QED
    BY <2>4, <2>5, <2>9 DEF d
<1>8. Grows
  BY <1>1, <1>7 DEF Grows, Content
<1>9. acked' \subseteq Content(Dir', nodes')
  <2>1. acked \subseteq Content(Dir, nodes')
    BY <1>6, <1>7 DEF Disk, Content, Dir
  <2>2. r \in Held(Dir, nodes', "wal")
    BY <1>1, <1>2, <1>5 DEF Held, k, r
  <2> QED
    BY <1>1, <2>1, <2>2 DEF Content
<1>10. FilesApart'
  BY <1>1 DEF Disk, FilesApart
<1> QED
  BY <1>1, <1>4, <1>7, <1>8, <1>9, <1>10 DEF Disk

\* The flush worker fills a file that nothing reads yet.
LEMMA DiskFill ==
    ASSUME Core, Disk, Filling, rotten = 0, FlushSync
    PROVE  /\ Disk' /\ Grows
           /\ \A m \in DOMAIN Dir : m[1] \in {"wal", "sst"} => nodes'[Dir[m]] = nodes[Dir[m]]
<1> DEFINE k == Dir[Tmp(fl.id)]
           f == [recs |-> Head(frozen).mt, whole |-> TRUE]
<1>1. /\ ~nodes[k].whole /\ k \in DOMAIN nodes /\ nodes' = [nodes EXCEPT ![k] = f]
      /\ UNCHANGED <<dirs, written, docID, acked>> /\ Dir' = Dir
  BY NamesAre DEF FlushSync, FlushAt, Filling, Whole, Core, Flushing, client, Dir
<1> HIDE DEF k, f
<1>2. \A n \in DOMAIN nodes : n # k => nodes'[n] = nodes[n]
  BY <1>1 DEF Core
<1>3. ASSUME NEW i \in DOMAIN dirs, NEW m \in DOMAIN dirs[i], m[1] \in {"wal", "sst"}
      PROVE  nodes'[dirs[i][m]] = nodes[dirs[i][m]]
  <2>1. dirs[i][m] \in DOMAIN nodes /\ nodes[dirs[i][m]].whole
    BY <1>3 DEF Core, AllGood, Good, Disk, SoundIn
  <2> QED
    BY <1>1, <1>2, <2>1
<1>4. ASSUME NEW e, SoundIn(e, nodes, docID, acked),
             \A m \in DOMAIN e : m[1] \in {"wal", "sst"} => nodes'[e[m]] = nodes[e[m]]
      PROVE  SoundIn(e, nodes', docID, acked) /\ Content(e, nodes') = Content(e, nodes)
  <2>1. Content(e, nodes') = Content(e, nodes)
    BY <1>4 DEF Content, Held
  <2>2. SoundIn(e, nodes', docID, acked)
    BY <1>4, SoundKept
  <2> QED
    BY <2>1, <2>2
<1>5. \A i \in DOMAIN dirs : /\ SoundIn(dirs[i], nodes', docID, acked)
                             /\ Content(dirs[i], nodes') = Content(dirs[i], nodes)
  <2>1. \A i \in DOMAIN dirs : SoundIn(dirs[i], nodes, docID, acked)
    BY DEF Disk
  <2> QED
    BY <1>3, <1>4, <2>1
<1>6. Len(dirs) \in DOMAIN dirs
  BY LastDir DEF Core
<1>7. FilesApart' /\ DocIDsApart' /\ acked' \subseteq Content(Dir', nodes')
  <2>1. Content(Dir, nodes') = Content(Dir, nodes)
    BY <1>5, <1>6 DEF Dir
  <2>2. acked' \subseteq Content(Dir', nodes')
    BY <1>1, <2>1 DEF Disk
  <2>3. FilesApart'
    BY <1>1 DEF Disk, FilesApart
  <2>4. DocIDsApart'
    BY <1>1 DEF Disk, DocIDsApart
  <2> QED
    BY <2>2, <2>3, <2>4
<1>8. Grows
  BY <1>1, <1>5 DEF Grows
<1>9. \A m \in DOMAIN Dir : m[1] \in {"wal", "sst"} => nodes'[Dir[m]] = nodes[Dir[m]]
  BY <1>3, <1>6 DEF Dir
<1> QED
  BY <1>1, <1>5, <1>7, <1>8, <1>9 DEF Disk

\* An acknowledged record is in an SSTable or in memory.
LEMMA WhereAcked ==
    ASSUME Core, Loading, Serving, up \in {"covered", "running"}, NEW r \in acked
    PROVE  \/ r \in Held(Dir, nodes, "sst") \/ r \in active
           \/ \E i \in DOMAIN frozen : r \in frozen[i].mt
<1>1. CASE r \in InMemory
  BY <1>1 DEF InMemory
<1>2. CASE r \in InTables
  <2>1. PICK n \in loaded : r \in nodes[Dir[Sst(n)]].recs
    BY <1>2 DEF InTables
  <2>2. Sst(n) \in DOMAIN Dir /\ Sst(n)[1] = "sst"
    BY DEF Loading, Sst
  <2>3. r \in Records
    BY DEF Core, ClientTypes
  <2> QED
    BY <2>1, <2>2, <2>3 DEF Held
<1> QED
  BY <1>1, <1>2 DEF Serving

\* An SSTable that holds the oldest frozen MemTable may raise the cutoff.
LEMMA DiskRename ==
    ASSUME Core, Disk, Loading, Filling, Serving, FlushRename
    PROVE  /\ Disk' /\ Grows /\ Sst(fl.id) \in DOMAIN Dir'
           /\ nodes'[Dir'[Sst(fl.id)]].recs = Head(frozen).mt
           /\ \A m \in DOMAIN Dir : m # Tmp(fl.id) => m \in DOMAIN Dir' /\ Dir'[m] = Dir[m]
           /\ \A m \in DOMAIN Dir' : m # Sst(fl.id) => m \in DOMAIN Dir /\ Dir'[m] = Dir[m]
<1> DEFINE old == Tmp(fl.id)
           new == Sst(fl.id)
           d == Renamed(Dir, old, new)
           mt == Head(frozen).mt
<1>1. /\ up = "running" /\ fl.pc = "synced" /\ frozen # <<>>
      /\ old \in DOMAIN Dir /\ new \notin DOMAIN Dir
      /\ rotten = 0 => nodes[Dir[old]].whole
      /\ nodes[Dir[old]].recs = mt
  BY DEF Core, Flushing, Filling, Whole, FlushRename, FlushAt
<1>2. /\ old[1] = "tmp" /\ new[1] = "sst" /\ old # new /\ new[2] = old[2]
      /\ new \in Kinds \X (1..Len(nodes))
  <2>1. old[1] = "tmp" /\ new[1] = "sst" /\ old # new /\ new[2] = old[2] /\ old[2] = fl.id
    BY DEF Tmp, Sst
  <2>2. fl.id \in 1..Len(nodes)
    BY <1>1, <2>1, NamesAre
  <2> QED
    BY <2>1, <2>2 DEF Sst, Kinds
<1>3. /\ 1 \in DOMAIN frozen /\ mt = frozen[1].mt /\ mt \subseteq Records
      /\ \A i \in DOMAIN frozen : i = 1 \/ 1 < i
  <2>1. ASSUME NEW T, NEW q \in Seq(T), q # <<>>
        PROVE  /\ 1 \in DOMAIN q /\ Head(q) = q[1] /\ q[1] \in T
               /\ \A i \in DOMAIN q : i = 1 \/ 1 < i
    BY <2>1
  <2>2. frozen \in Seq([mt : SUBSET Records, seg : Nat])
    BY DEF Core, MemoryTypes
  <2>3. /\ 1 \in DOMAIN frozen /\ Head(frozen) = frozen[1]
        /\ frozen[1] \in [mt : SUBSET Records, seg : Nat]
        /\ \A i \in DOMAIN frozen : i = 1 \/ 1 < i
    BY <1>1, <2>1, <2>2
  <2> QED
    BY <2>3
<1>4. Change(d) /\ UNCHANGED <<nodes, written, docID, acked>>
  BY DEF FlushRename, client
<1>5. Good(d, nodes, rotten)
  <2> HIDE DEF old, new
  <2> QED
    BY <1>1, <1>2, LastDir, GoodRenamed DEF Core, Dir
<1> HIDE DEF old, new, mt
<1>6. /\ DOMAIN d = (DOMAIN Dir \cup {new}) \ {old} /\ d[new] = Dir[old]
      /\ \A m \in DOMAIN Dir \ {old, new} : d[m] = Dir[m]
  BY <1>2 DEF Renamed, Linked, Unlinked
<1> HIDE DEF d
<1>7. Held(d, nodes, "wal") = Held(Dir, nodes, "wal")
  BY <1>1, <1>2, <1>6 DEF Held
<1>8. Held(d, nodes, "sst") = Held(Dir, nodes, "sst") \cup mt
  BY <1>1, <1>2, <1>3, <1>6 DEF Held
<1>9. SoundIn(Dir, nodes, docID, acked)
  BY LastDir DEF Core, Disk, Dir
<1>10. \A r \in Records : docID[r] \in Nat
  BY DEF Core, ClientTypes
<1>11. SoundIn(d, nodes, docID, acked)
  <2>1. \A m \in DOMAIN d : m[1] = "wal" => nodes[d[m]].whole
    BY <1>2, <1>6, <1>9 DEF SoundIn
  <2>2. mt \subseteq acked
    BY <1>1, <1>3 DEF Serving, InMemory
  <2>3. Content(d, nodes) \subseteq acked
    BY <1>7, <1>8, <1>9, <2>2 DEF SoundIn, Content
  <2>4. ASSUME NEW r \in Held(d, nodes, "wal"), NEW t \in Held(d, nodes, "sst"),
               docID[r] <= docID[t], r \notin Held(Dir, nodes, "sst")
        PROVE  r \in mt
    <3>1. r \in acked /\ r \in Records /\ t \in Records /\ t \in mt
      BY <1>7, <1>8, <1>9, <2>4 DEF SoundIn, Content, Held
    <3>2. r \in active \/ \E i \in DOMAIN frozen : r \in frozen[i].mt
      BY <1>1, <2>4, <3>1, WhereAcked
    <3>3. ~(docID[t] < docID[r])
      BY <1>10, <2>4, <3>1
    <3>4. r \notin active
      BY <1>1, <1>3, <3>1, <3>3 DEF Serving, Younger
    <3>5. \A i \in DOMAIN frozen : 1 < i => r \notin frozen[i].mt
      BY <1>1, <1>3, <3>1, <3>3 DEF Serving, Younger
    <3> QED
      BY <1>3, <3>2, <3>4, <3>5
  <2> QED
    BY <1>8, <2>1, <2>3, <2>4 DEF SoundIn
<1>12. acked \subseteq Content(d, nodes)
  BY <1>7, <1>8 DEF Disk, Content
<1>13. \A m \in DOMAIN d : \E n \in DOMAIN Dir :
          Dir[n] = d[m] /\ n[2] = m[2] /\ (n[1] = "wal" <=> m[1] = "wal")
  BY <1>1, <1>2, <1>6
<1>14. Disk' /\ Grows /\ Dir' = d
  BY <1>4, <1>5, <1>11, <1>12, <1>13, DiskChange
<1> QED
  BY <1>1, <1>2, <1>4, <1>6, <1>14 DEF old, new, mt

-----------------------------------------------------------------------------
(* What a step leaves alone.                                               *)

\* No SSTable goes, no segment comes, the worker's file is not touched.
TablesStay ==
    \A m \in DOMAIN Dir : m[1] = "sst" =>
        m \in DOMAIN Dir' /\ Dir'[m] = Dir[m] /\ nodes'[Dir[m]].recs = nodes[Dir[m]].recs
LogStays ==
    \A m \in DOMAIN Dir' : m[1] = "wal" =>
        m \in DOMAIN Dir /\ Dir'[m] = Dir[m] /\ nodes'[Dir[m]].recs = nodes[Dir[m]].recs
WorkStays ==
    \A m \in DOMAIN Dir : m[1] = "tmp" =>
        m \in DOMAIN Dir' /\ Dir'[m] = Dir[m] /\ nodes'[Dir[m]] = nodes[Dir[m]]
MemoryStays == UNCHANGED <<active, seg, frozen, alloc, acked, docID>>
BothSafe == Core /\ Core' /\ rotten = 0 /\ rotten' = 0

LEMMA TablesStayed ==
    ASSUME BothSafe, Loading, TablesStay, loaded \subseteq loaded'
    PROVE  /\ Held(Dir, nodes, "sst") \subseteq Held(Dir', nodes', "sst")
           /\ Persisted(Dir) \subseteq Persisted(Dir)'
           /\ \A n \in loaded : Sst(n) \in DOMAIN Dir'
           /\ InTables \subseteq InTables'
<1>1. Held(Dir, nodes, "sst") \subseteq Held(Dir', nodes', "sst")
  BY DEF Held, TablesStay
<1>2. Persisted(Dir) \subseteq Persisted(Dir)'
  BY <1>1, PersistedIs, PersistedNext DEF TablesRead, BothSafe
<1>3. \A n \in loaded : Sst(n) \in DOMAIN Dir /\ Sst(n)[1] = "sst"
  BY DEF Loading, Sst
<1>4. \A n \in loaded : /\ Sst(n) \in DOMAIN Dir'
                        /\ nodes'[Dir'[Sst(n)]].recs = nodes[Dir[Sst(n)]].recs
  BY <1>3 DEF TablesStay
<1>5. InTables \subseteq InTables'
  BY <1>4 DEF InTables, Sst
<1> QED
  BY <1>1, <1>2, <1>4, <1>5

LEMMA ServingKept ==
    ASSUME BothSafe, Loading, Serving, TablesStay, LogStays, MemoryStays, loaded \subseteq loaded',
           up' \in {"covered", "running"} =>
                up \in {"covered", "running"} /\ Wal(seg) \in DOMAIN Dir'
    PROVE  Serving'
<1> SUFFICES ASSUME up' \in {"covered", "running"} PROVE Serving'
  BY DEF Serving
<1>1. /\ up \in {"covered", "running"} /\ Wal(seg)' \in DOMAIN Dir'
      /\ UNCHANGED <<active, seg, frozen, alloc, acked, docID>>
  BY DEF MemoryStays, Wal
<1>2. Persisted(Dir) \subseteq Persisted(Dir)' /\ InTables \subseteq InTables'
  BY TablesStayed
<1>3. ASSUME NEW n, NEW mt, Wal(n) \in DOMAIN Dir => Logged(n, mt), Wal(n) \in DOMAIN Dir'
      PROVE  Logged(n, mt)'
  <2>1. Wal(n)[1] = "wal"
    BY DEF Wal
  <2>2. nodes'[Dir'[Wal(n)]].recs = nodes[Dir[Wal(n)]].recs /\ Wal(n) \in DOMAIN Dir
    BY <1>3, <2>1 DEF LogStays
  <2> QED
    BY <1>2, <1>3, <2>2 DEF Logged, Wal
<1>4. \A n \in Ids("wal")' : n <= seg'
  <2>1. Ids("wal")' \subseteq Ids("wal")
    BY DEF Ids, LogStays
  <2> QED
    BY <1>1, <2>1 DEF Serving
<1>5. Logged(seg, active)'
  BY <1>1, <1>3 DEF Serving
<1>6. ASSUME NEW i \in DOMAIN frozen'
      PROVE  /\ frozen'[i].seg < seg'
             /\ Wal(frozen[i].seg)' \in DOMAIN Dir' => Logged(frozen[i].seg, frozen[i].mt)'
             /\ Younger(frozen[i].mt, active)'
             /\ \A j \in DOMAIN frozen' : i < j => Younger(frozen[i].mt, frozen[j].mt)'
  BY <1>1, <1>3 DEF Serving, Younger, Wal
<1>7. /\ InMemory' \subseteq acked' /\ acked' \subseteq InMemory' \cup InTables'
      /\ \A r \in acked' : docID'[r] <= alloc'
  BY <1>1, <1>2 DEF Serving, InMemory
<1> QED
  BY <1>1, <1>4, <1>5, <1>6, <1>7 DEF Serving

LEMMA FillingKept ==
    ASSUME BothSafe, Loading, Filling, TablesStay, WorkStays, UNCHANGED fl,
           loaded \subseteq loaded', fl.pc # "idle" => Head(frozen') = Head(frozen)
    PROVE  Filling'
<1>1. Tmp(fl.id)[1] = "tmp" /\ Sst(fl.id)[1] = "sst"
  BY DEF Tmp, Sst
<1>2. fl.pc \in {"tmp", "synced"} =>
        Tmp(fl.id) \in DOMAIN Dir /\ nodes'[Dir'[Tmp(fl.id)]] = nodes[Dir[Tmp(fl.id)]]
  BY <1>1 DEF BothSafe, Core, Flushing, WorkStays
<1>3. Sst(fl.id) \in DOMAIN Dir =>
        Sst(fl.id) \in DOMAIN Dir' /\ nodes'[Dir'[Sst(fl.id)]].recs = nodes[Dir[Sst(fl.id)]].recs
  BY <1>1 DEF TablesStay
<1> QED
  BY <1>2, <1>3 DEF Filling, Whole, Tmp, Sst

LEMMA FlushedKept ==
    ASSUME Core, Core', FlushedSafe, Grows, UNCHANGED fl,
           fl.pc # "idle" => Head(frozen') = Head(frozen)
    PROVE  FlushedSafe'
<1> SUFFICES ASSUME fl.pc \in {"published", "swapped"}, NEW j \in DOMAIN dirs'
             PROVE  Head(frozen').mt \subseteq Content(dirs'[j], nodes')
  BY DEF FlushedSafe
<1>1. PICK i \in DOMAIN dirs : Content(dirs[i], nodes) \subseteq Content(dirs'[j], nodes')
  BY DEF Grows
<1> QED
  BY <1>1 DEF FlushedSafe

LEMMA DiskSame ==
    ASSUME BothSafe, Disk, UNCHANGED <<dirs, nodes, written, docID, acked>>
    PROVE  Disk' /\ Grows /\ Dir' = Dir /\ TablesStay /\ LogStays /\ WorkStays
<1>1. Dir' = Dir
  BY DEF Dir
<1>2. Disk'
  BY <1>1 DEF Disk, DocIDsApart, FilesApart
<1>3. Grows
  BY DEF Grows
<1> QED
  BY <1>1, <1>2, <1>3 DEF TablesStay, LogStays, WorkStays

LEMMA FrozenTypes ==
    ASSUME Core, NEW i \in DOMAIN frozen
    PROVE  frozen[i].seg \in Nat /\ frozen[i].mt \subseteq Records /\ seg \in Nat
<1>1. frozen \in Seq([mt : SUBSET Records, seg : Nat]) /\ seg \in Nat
  BY DEF Core, MemoryTypes
<1>2. frozen[i] \in [mt : SUBSET Records, seg : Nat]
  <2>1. ASSUME NEW T, NEW q \in Seq(T), NEW k \in DOMAIN q
        PROVE  q[k] \in T
    OBVIOUS
  <2> QED
    BY <1>1, <2>1
<1> QED
  BY <1>1, <1>2

LEMMA IdleSafe ==
    ASSUME fl'.pc = "idle"
    PROVE  Filling' /\ FlushedSafe'
  BY DEF Filling, FlushedSafe

LEMMA ForgetSafe ==
    ASSUME Forget
    PROVE  Loading' /\ Filling' /\ Serving' /\ FlushedSafe'
  BY DEF Forget, Idle, Loading, Filling, Serving, FlushedSafe

-----------------------------------------------------------------------------
(* Open                                                                    *)

LEMMA ReadIdsSafe == ASSUME BothSafe, Secured, ReadIds PROVE Secured' /\ Grows
<1>1. Disk' /\ Grows /\ Dir' = Dir
  BY DiskSame DEF Secured, ReadIds, client
<1>2. fl'.pc = "idle"
  BY DEF BothSafe, Core, Flushing, ReadIds
<1>3. Loading' /\ Serving'
  BY <1>1 DEF Secured, Loading, Serving, ReadIds, memory, Sst
<1> QED
  BY <1>1, <1>2, <1>3, IdleSafe DEF Secured

LEMMA RemoveTmpSafe == ASSUME BothSafe, Secured, RemoveTmp PROVE Secured' /\ Grows
<1>1. /\ UNCHANGED <<nodes, written, docID, acked, rotten, active, frozen, loaded>>
      /\ up = "tmps"
  BY DEF RemoveTmp, client, memory, bounds
<1>2. fl'.pc = "idle"
  BY DEF BothSafe, Core, Flushing, RemoveTmp
<1>3. CASE \E n \in Ids("tmp") : Change(Unlinked(Dir, Tmp(n))) /\ UNCHANGED up
  <2>1. PICK n \in Ids("tmp") : Change(Unlinked(Dir, Tmp(n))) /\ UNCHANGED up
    BY <1>3
  <2>2. Tmp(n)[1] = "tmp" /\ \A l : Sst(l)[1] = "sst"
    BY DEF Tmp, Sst
  <2>3. Disk' /\ Grows
    BY <1>1, <2>1, <2>2, DiskUnlink DEF BothSafe, Secured
  <2>4. DOMAIN Dir' = DOMAIN Dir \ {Tmp(n)}
    BY <1>1, <2>1, UnlinkStep DEF BothSafe
  <2>5. \A l \in loaded' : Sst(l) \in DOMAIN Dir'
    BY <1>1, <2>2, <2>4 DEF Secured, Loading
  <2>6. Loading' /\ Serving'
    BY <1>1, <2>1, <2>5 DEF Secured, Loading, Serving, Sst
  <2> QED
    BY <1>2, <2>3, <2>6, IdleSafe DEF Secured
<1>4. CASE up' = "tables" /\ UNCHANGED dirs
  <2>1. Disk' /\ Grows /\ Dir' = Dir
    BY <1>1, <1>4, DiskSame DEF Secured
  <2>2. Loading' /\ Serving'
    BY <1>1, <1>4, <2>1 DEF Secured, Loading, Serving, Sst
  <2> QED
    BY <1>2, <2>1, <2>2, IdleSafe DEF Secured
<1> QED
  BY <1>3, <1>4 DEF RemoveTmp

\* Nothing is quarantined: every SSTable is complete.
LEMMA LoadTableSafe == ASSUME BothSafe, Secured, LoadTable PROVE Secured' /\ Grows
<1>1. UNCHANGED <<nodes, written, docID, acked, active, frozen>> /\ up = "tables"
  BY DEF LoadTable, client, memory
<1>2. fl'.pc = "idle"
  BY DEF BothSafe, Core, Flushing, LoadTable
<1>3. ASSUME NEW n \in Ids("sst")
      PROVE  Sst(n) \in DOMAIN Dir /\ Whole(Dir, Sst(n))
  <2>1. Sst(n) \in DOMAIN Dir /\ Sst(n)[1] = "sst"
    BY IdsAre DEF Kinds, Sst, BothSafe
  <2> QED
    BY <2>1, LastDir DEF BothSafe, Core, Good, Whole, Dir
<1>4. /\ UNCHANGED dirs /\ up' \in {"tables", "log"}
      /\ \A n \in loaded' : n \in loaded \/ n \in Ids("sst")
      /\ up' = "log" => Ids("sst") \subseteq loaded'
  BY <1>1, <1>3 DEF LoadTable
<1>5. Disk' /\ Grows /\ Dir' = Dir
  BY <1>1, <1>4, DiskSame DEF Secured
<1>6. Loading' /\ Serving'
  <2>1. \A n \in loaded' : Sst(n) \in DOMAIN Dir'
    BY <1>3, <1>4, <1>5 DEF Secured, Loading
  <2> QED
    BY <1>1, <1>4, <1>5, <2>1 DEF Secured, Loading, Serving, Sst, Ids
<1> QED
  BY <1>2, <1>5, <1>6, IdleSafe DEF Secured

LEMMA CreateFirstSegmentSafe ==
    ASSUME BothSafe, Secured, CreateFirstSegment PROVE Secured' /\ Grows
<1> DEFINE f == [recs |-> {}, whole |-> TRUE]
<1>1. /\ f \in File /\ f.recs = {} /\ f.whole /\ nodes' = Append(nodes, f)
      /\ Change(Linked(Dir, Wal(1), NewNode))
      /\ UNCHANGED <<written, docID, acked, rotten, active, frozen, loaded, up, fl>> /\ up = "log"
  BY DEF File, CreateFirstSegment, client, memory, bounds
<1>2. /\ Wal(1) \in Kinds \X (1..Len(nodes) + 1) /\ Wal(1)[1] = "wal" /\ Wal(1)[2] = 1
      /\ \A l : Sst(l)[1] = "sst"
  BY DEF Wal, Sst, Kinds, BothSafe, Core
<1>3. Wal(1) \notin DOMAIN Dir
  BY <1>2 DEF CreateFirstSegment, Ids
<1> HIDE DEF f
<1>4. /\ Disk' /\ Grows /\ DOMAIN Dir' = DOMAIN Dir \cup {Wal(1)}
  BY <1>1, <1>2, <1>3, DiskLink DEF BothSafe, Secured
<1>5. fl'.pc = "idle"
  BY <1>1 DEF BothSafe, Core, Flushing
<1>6. Ids("sst")' \subseteq Ids("sst")
  BY <1>2, <1>4 DEF Ids
<1>7. \A n \in loaded' : Sst(n) \in DOMAIN Dir'
  BY <1>1, <1>4 DEF Secured, Loading
<1>8. Loading' /\ Serving'
  BY <1>1, <1>6, <1>7 DEF Secured, Loading, Serving, Sst
<1> QED
  BY <1>4, <1>5, <1>8, IdleSafe DEF Secured

\* What recovery reads is what was acknowledged, and the DocIDs resume
\* beyond it.
LEMMA ReplayLogSafe == ASSUME BothSafe, Secured, ReplayLog PROVE Secured' /\ Grows
<1>1. /\ UNCHANGED <<dirs, nodes, written, docID, acked, frozen, loaded, fl>>
      /\ up = "log" /\ up' = "covered" /\ active' = Replayed(Dir)
      /\ alloc' = Cutoff(Recoverable(Dir)) /\ seg' = Largest(Ids("wal")) /\ Ids("wal") # {}
  BY DEF ReplayLog, client
<1>2. Disk' /\ Grows /\ Dir' = Dir
  BY <1>1, DiskSame DEF Secured
<1>3. fl'.pc = "idle" /\ frozen = <<>> /\ DOMAIN frozen = {}
  BY <1>1 DEF BothSafe, Core, Flushing, Secured, Loading
<1>4. /\ seg' \in Ids("wal") /\ Wal(seg') \in DOMAIN Dir /\ \A n \in Ids("wal") : n <= seg'
  <2>1. Ids("wal") \in SUBSET Nat /\ Len(nodes) \in Nat /\ \A n \in Ids("wal") : n <= Len(nodes)
    <3>1. Len(nodes) \in Nat
      BY DEF BothSafe, Core
    <3>2. \A n \in Ids("wal") : n \in 1..Len(nodes)
      BY IdsAre DEF Kinds, BothSafe
    <3> QED
      BY <3>1, <3>2
  <2>2. seg' \in Ids("wal") /\ \A n \in Ids("wal") : n <= seg'
    BY <1>1, <2>1, LargestIs
  <2> QED
    BY <2>2, IdsAre DEF Kinds, BothSafe, Wal
<1>5. /\ Recoverable(Dir) = Content(Dir, nodes) /\ Persisted(Dir) = Held(Dir, nodes, "sst")
      /\ SoundIn(Dir, nodes, docID, acked) /\ Good(Dir, nodes, rotten)
  BY LastDir, RecoverableIs, PersistedIs DEF BothSafe, Secured, Disk, Core, Dir, TablesRead
<1>6. Recoverable(Dir) = acked /\ Content(Dir, nodes) = acked
  BY <1>5 DEF Secured, Disk, SoundIn
<1>7. Persisted(Dir) \cup Replayed(Dir) = acked
  BY <1>6 DEF Recoverable
<1>8. Persisted(Dir) \subseteq InTables
  <2>1. ASSUME NEW r \in Held(Dir, nodes, "sst")
        PROVE  r \in InTables
    <3>1. PICK m \in DOMAIN Dir : m[1] = "sst" /\ r \in nodes[Dir[m]].recs
      BY DEF Held
    <3>2. m = Sst(m[2]) /\ m[2] \in Ids("sst")
      BY <3>1, NamesAre DEF BothSafe, Sst
    <3>3. m[2] \in loaded
      BY <1>1, <3>2 DEF Secured, Loading
    <3> QED
      BY <3>1, <3>2, <3>3 DEF InTables
  <2> QED
    BY <1>5, <2>1
<1>9. nodes[Dir[Wal(seg')]].recs \subseteq acked
  <2>1. Wal(seg')[1] = "wal"
    BY DEF Wal
  <2>2. nodes[Dir[Wal(seg')]] \in File
    BY <1>4, NamesAre DEF BothSafe, Core
  <2>3. nodes[Dir[Wal(seg')]].recs \subseteq Held(Dir, nodes, "wal")
    BY <1>4, <2>1, <2>2 DEF Held, File
  <2> QED
    BY <1>6, <2>3 DEF Content
<1>10. \A r \in acked : docID[r] <= alloc'
  <2>1. acked \in SUBSET Records
    BY DEF BothSafe, Core, ClientTypes
  <2> QED
    BY <1>1, <1>6, <2>1, CutoffIs DEF BothSafe
<1>11. InMemory' = Replayed(Dir) /\ InTables' = InTables
  BY <1>1, <1>2, <1>3 DEF InMemory, InTables, Sst
<1>12. Persisted(Dir)' = Persisted(Dir)
  BY <1>1, <1>2, <1>5, PersistedNext DEF BothSafe, TablesRead
<1>13. Logged(seg, active)'
  BY <1>1, <1>2, <1>7, <1>9, <1>12 DEF Logged, Wal
<1>14. Serving'
  <2>1. \A n \in Ids("wal")' : n <= seg'
    BY <1>2, <1>4 DEF Ids
  <2>2. Wal(seg)' \in DOMAIN Dir'
    BY <1>2, <1>4 DEF Wal
  <2>3. InMemory' \subseteq acked' /\ acked' \subseteq InMemory' \cup InTables'
    BY <1>1, <1>7, <1>8, <1>11
  <2>4. \A r \in acked' : docID'[r] <= alloc'
    BY <1>1, <1>10
  <2> QED
    BY <1>1, <1>3, <1>13, <2>1, <2>2, <2>3, <2>4 DEF Serving
<1>15. Loading'
  BY <1>1, <1>2 DEF Secured, Loading, Sst
<1> QED
  BY <1>2, <1>3, <1>14, <1>15, IdleSafe DEF Secured

\* A segment that the cutoff covers holds nothing that the SSTables do not.
LEMMA DeleteCoveredSafe == ASSUME BothSafe, Secured, DeleteCovered PROVE Secured' /\ Grows
<1>1. /\ UNCHANGED <<nodes, written, docID, acked, rotten, active, frozen, seg, alloc, loaded, fl>>
      /\ up = "covered" /\ up' \in {"covered", "running"}
  BY DEF DeleteCovered, client, memory, bounds
<1>2. fl'.pc = "idle"
  BY <1>1 DEF BothSafe, Core, Flushing
<1>3. CASE \E n \in Ids("wal") \ {seg} :
              Obsolete(n) /\ Change(Unlinked(Dir, Wal(n))) /\ UNCHANGED up
  <2>1. PICK n \in Ids("wal") \ {seg} : Obsolete(n) /\ Change(Unlinked(Dir, Wal(n)))
    BY <1>3
  <2>2. /\ Wal(n)[1] = "wal" /\ Wal(n)[2] = n /\ Wal(seg)[2] = seg /\ Wal(n) \in DOMAIN Dir
        /\ \A l : Sst(l)[1] = "sst"
    BY IdsAre DEF Wal, Sst, Kinds, BothSafe
  <2>3. nodes[Dir[Wal(n)]].recs \subseteq Held(Dir, nodes, "sst")
    <3>1. /\ Recoverable(Dir) = Content(Dir, nodes) /\ Persisted(Dir) = Held(Dir, nodes, "sst")
      BY LastDir, RecoverableIs, PersistedIs DEF BothSafe, Secured, Disk, Core, Dir, TablesRead
    <3>2. nodes[Dir[Wal(n)]] \in File
      BY <2>2, NamesAre DEF BothSafe, Core
    <3>3. ASSUME NEW r \in nodes[Dir[Wal(n)]].recs
          PROVE  r \in Persisted(Dir)
      <4>1. r \in Content(Dir, nodes)
        BY <2>2, <3>2 DEF Content, Held, File
      <4>2. r \in Persisted(Dir) \/ docID[r] > Cutoff(Persisted(Dir))
        BY <3>1, <4>1 DEF Recoverable, Replayed
      <4>3. docID[r] <= Cutoff(Persisted(Dir))
        BY <2>1 DEF Obsolete
      <4>4. docID[r] \in Nat /\ Cutoff(Persisted(Dir)) \in Nat
        <5>1. Persisted(Dir) \in SUBSET Records /\ r \in Records
          BY <3>1, <4>1 DEF Held, Content
        <5> QED
          BY <5>1, CutoffIs DEF BothSafe, Core, ClientTypes
      <4> QED
        BY <4>2, <4>3, <4>4
    <3> QED
      BY <3>1, <3>3
  <2>4. Disk' /\ Grows
    BY <1>1, <2>1, <2>2, <2>3, DiskUnlink DEF BothSafe, Secured
  <2>5. DOMAIN Dir' = DOMAIN Dir \ {Wal(n)} /\ \A m \in DOMAIN Dir' : Dir'[m] = Dir[m]
    BY <1>1, <2>1, UnlinkStep DEF BothSafe
  <2>6. TablesStay /\ LogStays
    BY <1>1, <2>2, <2>5 DEF TablesStay, LogStays
  <2>7. Wal(seg) \in DOMAIN Dir'
    BY <1>1, <2>1, <2>2, <2>5 DEF Secured, Serving
  <2>8. Serving'
    BY <1>1, <2>6, <2>7, ServingKept DEF Secured, MemoryStays
  <2>9. \A l \in loaded' : Sst(l) \in DOMAIN Dir'
    BY <1>1, <2>2, <2>5 DEF Secured, Loading
  <2>10. Loading'
    BY <1>1, <2>9 DEF Loading, Sst
  <2> QED
    BY <1>2, <2>4, <2>8, <2>10, IdleSafe DEF Secured
<1>4. CASE up' = "running" /\ UNCHANGED dirs
  <2>1. Disk' /\ Grows /\ Dir' = Dir /\ TablesStay /\ LogStays
    BY <1>1, <1>4, DiskSame DEF Secured
  <2>2. Serving'
    BY <1>1, <2>1, ServingKept DEF Secured, MemoryStays, Serving
  <2>3. Loading'
    BY <1>1, <1>4, <2>1 DEF Secured, Loading, Sst
  <2> QED
    BY <1>2, <2>1, <2>2, <2>3, IdleSafe DEF Secured
<1> QED
  BY <1>3, <1>4 DEF DeleteCovered

-----------------------------------------------------------------------------
(* Writing                                                                 *)

\* Only the active segment's file changes.
LEMMA WriteFrame ==
    ASSUME BothSafe, Disk, Serving, Write
    PROVE  /\ \A m \in DOMAIN Dir : m[1] # "wal" => nodes'[Dir[m]] = nodes[Dir[m]]
           /\ \A n : (Wal(n) \in DOMAIN Dir /\ n # seg) => nodes'[Dir[Wal(n)]] = nodes[Dir[Wal(n)]]
           /\ nodes'[Dir[Wal(seg)]].recs = nodes[Dir[Wal(seg)]].recs \cup {written + 1}
           /\ Wal(seg) \in DOMAIN Dir /\ Dir' = Dir
<1> DEFINE k == Dir[Wal(seg)]
<1>1. /\ nodes' = [nodes EXCEPT ![k].recs = @ \cup {written + 1}]
      /\ up = "running" /\ Dir' = Dir
  BY DEF Write, Dir
<1>2. /\ Wal(seg) \in DOMAIN Dir /\ Wal(seg)[1] = "wal" /\ Wal(seg)[2] = seg
      /\ \A n : Wal(n)[2] = n
  BY <1>1 DEF Serving, Wal
<1>3. k \in DOMAIN nodes /\ nodes[k] \in File
  BY <1>2, NamesAre DEF BothSafe, Core
<1>4. /\ \A n \in DOMAIN nodes : n # k => nodes'[n] = nodes[n]
      /\ nodes'[k].recs = nodes[k].recs \cup {written + 1}
  BY <1>1, <1>3 DEF BothSafe, Core, File
<1>5. \A m \in DOMAIN Dir : Dir[m] = k => m[1] = "wal" /\ m[2] = seg
  BY <1>2, LastDir DEF Disk, FilesApart, Dir, BothSafe, Core
<1>6. \A m \in DOMAIN Dir : Dir[m] \in DOMAIN nodes
  BY NamesAre DEF BothSafe
<1> HIDE DEF k
<1>7. \A m \in DOMAIN Dir : m[1] # "wal" \/ m[2] # seg => nodes'[Dir[m]] = nodes[Dir[m]]
  BY <1>4, <1>5, <1>6
<1>8. \A n : (Wal(n) \in DOMAIN Dir /\ n # seg) => nodes'[Dir[Wal(n)]] = nodes[Dir[Wal(n)]]
  BY <1>2, <1>7
<1> QED
  BY <1>1, <1>2, <1>4, <1>7, <1>8 DEF k

LEMMA WriteSafe == ASSUME BothSafe, Secured, Write PROVE Secured' /\ Grows
<1> DEFINE r == written + 1
<1>1. /\ up = "running" /\ up' = "running" /\ alloc \in Nat
      /\ docID' = [docID EXCEPT ![r] = alloc + 1] /\ alloc' = alloc + 1
      /\ active' = active \cup {r} /\ acked' = acked \cup {r}
      /\ UNCHANGED <<dirs, seg, frozen, loaded, fl>>
  BY DEF Write, BothSafe, Core, MemoryTypes
<1>2. Disk' /\ Grows
  BY DiskWrite DEF BothSafe, Secured
<1>3. /\ \A m \in DOMAIN Dir : m[1] # "wal" => nodes'[Dir[m]] = nodes[Dir[m]]
      /\ \A n : (Wal(n) \in DOMAIN Dir /\ n # seg) => nodes'[Dir[Wal(n)]] = nodes[Dir[Wal(n)]]
      /\ nodes'[Dir[Wal(seg)]].recs = nodes[Dir[Wal(seg)]].recs \cup {r}
      /\ Wal(seg) \in DOMAIN Dir /\ Dir' = Dir
  BY WriteFrame DEF Secured
<1>4. TablesStay /\ WorkStays
  BY <1>3 DEF TablesStay, WorkStays
<1>5. Loading'
  BY <1>1, <1>3 DEF Secured, Loading, Sst
<1>6. Filling' /\ FlushedSafe'
  BY <1>1, <1>2, <1>4, FillingKept, FlushedKept DEF Secured, BothSafe
<1>7. /\ \A t \in acked : docID'[t] = docID[t] /\ docID'[t] <= alloc /\ docID'[t] < docID'[r]
                          /\ docID[t] \in Nat
      /\ docID'[r] = alloc + 1
  <2>1. \A t \in acked : t # r /\ t \in Records /\ docID[t] \in Nat
    BY DEF Secured, Disk, DocIDsApart, BothSafe, Core, ClientTypes
  <2>2. r \in Records /\ docID \in [Records -> Nat]
    BY BoundsAssumption DEF Write, BothSafe, Core, ClientTypes, Records
  <2>3. \A t \in acked : docID[t] <= alloc
    BY <1>1 DEF Secured, Serving
  <2> QED
    BY <1>1, <2>1, <2>2, <2>3
<1>8. Persisted(Dir) \subseteq Persisted(Dir)' /\ InTables \subseteq InTables'
  BY <1>1, <1>4, TablesStayed DEF Secured
<1>9. active \subseteq acked /\ \A i \in DOMAIN frozen : frozen[i].mt \subseteq acked
  BY <1>1 DEF Secured, Serving, InMemory
<1> HIDE DEF r
<1>10. Logged(seg, active)'
  BY <1>1, <1>3, <1>8 DEF Secured, Serving, Logged, Wal
<1>11. ASSUME NEW i \in DOMAIN frozen'
       PROVE  /\ frozen'[i].seg < seg'
              /\ Wal(frozen[i].seg)' \in DOMAIN Dir' => Logged(frozen[i].seg, frozen[i].mt)'
              /\ Younger(frozen[i].mt, active)'
              /\ \A j \in DOMAIN frozen' : i < j => Younger(frozen[i].mt, frozen[j].mt)'
  <2>1. i \in DOMAIN frozen /\ frozen' = frozen /\ seg' = seg
    BY <1>1, <1>11
  <2>2. frozen[i].seg < seg /\ frozen[i].seg \in Nat /\ seg \in Nat
    BY <1>1, <2>1, FrozenTypes DEF Secured, Serving, BothSafe
  <2>3. Wal(frozen[i].seg)' \in DOMAIN Dir' => Logged(frozen[i].seg, frozen[i].mt)'
    BY <1>1, <1>3, <1>8, <2>1, <2>2 DEF Secured, Serving, Logged, Wal
  <2>4. Younger(frozen[i].mt, active)'
    BY <1>1, <1>7, <1>9, <2>1 DEF Secured, Serving, Younger
  <2>5. \A j \in DOMAIN frozen' : i < j => Younger(frozen[i].mt, frozen[j].mt)'
    BY <1>1, <1>7, <1>9, <2>1 DEF Secured, Serving, Younger
  <2> QED
    BY <2>1, <2>2, <2>3, <2>4, <2>5
<1>12. InMemory' \subseteq acked' /\ acked' \subseteq InMemory' \cup InTables'
  <2>1. InMemory' = InMemory \cup {r}
    BY <1>1 DEF InMemory
  <2> QED
    BY <1>1, <1>8, <2>1 DEF Secured, Serving
<1>13. \A t \in acked' : docID'[t] <= alloc'
  BY <1>1, <1>7
<1>14. Wal(seg)' \in DOMAIN Dir' /\ \A n \in Ids("wal")' : n <= seg'
  BY <1>1, <1>3 DEF Secured, Serving, Ids, Wal
<1>15. Serving'
  BY <1>10, <1>11, <1>12, <1>13, <1>14 DEF Serving
<1> QED
  BY <1>2, <1>5, <1>6, <1>15 DEF Secured

\* The frozen MemTable takes its segment along.
LEMMA FreezeSafe == ASSUME BothSafe, Secured, Freeze PROVE Secured' /\ Grows
<1> DEFINE f == [recs |-> {}, whole |-> TRUE]
           g == [mt |-> active, seg |-> seg]
<1>1. /\ f \in File /\ f.recs = {} /\ f.whole /\ nodes' = Append(nodes, f)
      /\ Change(Linked(Dir, Wal(seg + 1), NewNode))
      /\ UNCHANGED <<written, docID, acked, rotten, alloc, loaded, up, fl>> /\ up = "running"
      /\ frozen' = Append(frozen, g) /\ active' = {} /\ seg' = seg + 1
      /\ seg \in Nat /\ seg <= Len(nodes) /\ Len(nodes) \in Nat
  BY DEF File, Freeze, client, bounds, BothSafe, Core, MemoryTypes, Numbering
<1>2. /\ Wal(seg + 1) \in Kinds \X (1..Len(nodes) + 1) /\ Wal(seg + 1)[1] = "wal"
      /\ \A l : Sst(l)[1] = "sst" /\ Wal(l)[2] = l /\ Wal(l)[1] = "wal"
  BY <1>1 DEF Wal, Sst, Kinds
<1>3. Wal(seg + 1) \notin DOMAIN Dir
  <2>1. seg + 1 \notin Ids("wal")
    BY <1>1 DEF Secured, Serving
  <2> QED
    BY <1>2, <2>1 DEF Ids
<1>4. g.mt = active /\ g.seg = seg /\ g \in [mt : SUBSET Records, seg : Nat]
  BY DEF BothSafe, Core, MemoryTypes
<1> HIDE DEF f, g
<1>5. /\ Disk' /\ Grows
      /\ DOMAIN Dir' = DOMAIN Dir \cup {Wal(seg + 1)} /\ Dir'[Wal(seg + 1)] = NewNode
      /\ \A m \in DOMAIN Dir : Dir'[m] = Dir[m]
      /\ \A k \in DOMAIN nodes : nodes'[k] = nodes[k]
      /\ nodes'[NewNode] = f
  BY <1>1, <1>2, <1>3, DiskLink DEF BothSafe, Secured
<1>6. \A m \in DOMAIN Dir : m \in DOMAIN Dir' /\ Dir'[m] = Dir[m] /\ nodes'[Dir[m]] = nodes[Dir[m]]
  BY <1>5, NamesAre DEF BothSafe
<1>7. TablesStay /\ WorkStays
  BY <1>6 DEF TablesStay, WorkStays
<1>8. /\ \A i \in DOMAIN frozen' : (i \in DOMAIN frozen /\ frozen'[i] = frozen[i])
                                   \/ (i = Len(frozen) + 1 /\ frozen'[i] = g)
      /\ \A i \in DOMAIN frozen : i \in DOMAIN frozen' /\ frozen'[i] = frozen[i]
      /\ Len(frozen) + 1 \in DOMAIN frozen' /\ frozen'[Len(frozen) + 1] = g
      /\ Len(frozen) \in Nat /\ DOMAIN frozen = 1..Len(frozen)
      /\ frozen # <<>> => Head(frozen') = Head(frozen)
  <2>1. frozen \in Seq([mt : SUBSET Records, seg : Nat])
    BY DEF BothSafe, Core, MemoryTypes
  <2> QED
    BY <1>1, <1>4, <2>1
<1>9. Filling' /\ FlushedSafe'
  <2>1. fl.pc # "idle" => Head(frozen') = Head(frozen)
    BY <1>8 DEF BothSafe, Core, Flushing
  <2> QED
    BY <1>1, <1>5, <1>7, <2>1, FillingKept, FlushedKept DEF Secured, BothSafe
<1>10. Loading'
  <2>1. \A n \in loaded' : Sst(n) \in DOMAIN Dir'
    BY <1>1, <1>5 DEF Secured, Loading
  <2> QED
    BY <1>1, <2>1 DEF Loading, Sst
<1>11. Persisted(Dir) \subseteq Persisted(Dir)' /\ InTables \subseteq InTables'
  BY <1>1, <1>7, TablesStayed DEF Secured
<1>12. Logged(seg, active)' /\ Wal(seg)' \in DOMAIN Dir'
  BY <1>1, <1>5 DEF Logged, Wal
<1>13. \A n \in Ids("wal")' : n <= seg'
  <2>1. \A n \in Ids("wal")' : n \in Ids("wal") \/ n = seg + 1
    BY <1>2, <1>5 DEF Ids
  <2>2. \A n \in Ids("wal") : n \in Nat /\ n <= seg
    <3>1. \A n \in Ids("wal") : n \in 1..Len(nodes)
      BY IdsAre DEF Kinds, BothSafe
    <3> QED
      BY <1>1, <3>1 DEF Secured, Serving
  <2> QED
    BY <1>1, <2>1, <2>2
<1>14. ASSUME NEW n, NEW mt, n # seg + 1,
              Wal(n) \in DOMAIN Dir => Logged(n, mt), Wal(n) \in DOMAIN Dir'
       PROVE  Logged(n, mt)'
  <2>1. Wal(n) \in DOMAIN Dir
    BY <1>2, <1>5, <1>14
  <2> QED
    BY <1>6, <1>11, <1>14, <2>1 DEF Logged, Wal
<1>15. ASSUME NEW i \in DOMAIN frozen'
       PROVE  /\ frozen'[i].seg < seg'
              /\ Wal(frozen[i].seg)' \in DOMAIN Dir' => Logged(frozen[i].seg, frozen[i].mt)'
              /\ Younger(frozen[i].mt, active)'
              /\ \A j \in DOMAIN frozen' : i < j => Younger(frozen[i].mt, frozen[j].mt)'
  <2>1. \A j \in DOMAIN frozen :
          /\ frozen[j].seg < seg /\ frozen[j].seg \in Nat
          /\ Wal(frozen[j].seg) \in DOMAIN Dir => Logged(frozen[j].seg, frozen[j].mt)
    BY <1>1, FrozenTypes DEF Secured, Serving, BothSafe
  <2>2. Wal(seg) \in DOMAIN Dir => Logged(seg, active)
    BY <1>1 DEF Secured, Serving
  <2>3. frozen'[i].seg < seg' /\ frozen'[i].seg # seg + 1
    BY <1>1, <1>4, <1>8, <2>1
  <2>4. Wal(frozen[i].seg)' \in DOMAIN Dir' => Logged(frozen[i].seg, frozen[i].mt)'
    <3>1. Wal(frozen'[i].seg) \in DOMAIN Dir => Logged(frozen'[i].seg, frozen'[i].mt)
      BY <1>4, <1>8, <2>1, <2>2
    <3> QED
      BY <1>14, <2>3, <3>1 DEF Wal, Logged
  <2>5. Younger(frozen[i].mt, active)'
    BY <1>1 DEF Younger
  <2>6. \A j \in DOMAIN frozen' : i < j => Younger(frozen[i].mt, frozen[j].mt)'
    <3>1. ASSUME NEW j \in DOMAIN frozen', i < j
          PROVE  Younger(frozen'[i].mt, frozen'[j].mt)
      BY <1>1, <1>4, <1>8, <3>1 DEF Secured, Serving
    <3> QED
      BY <1>1, <3>1 DEF Younger
  <2> QED
    BY <2>3, <2>4, <2>5, <2>6
<1>16. InMemory' = InMemory
  BY <1>1, <1>4, <1>8 DEF InMemory
<1>17. Serving'
  BY <1>1, <1>11, <1>12, <1>13, <1>15, <1>16 DEF Secured, Serving
<1> QED
  BY <1>5, <1>9, <1>10, <1>17 DEF Secured

-----------------------------------------------------------------------------
(* The flush worker                                                        *)

LEMMA FlushCreateSafe == ASSUME BothSafe, Secured, FlushCreate PROVE Secured' /\ Grows
<1> DEFINE n == nextSST + 1
           f == [recs |-> {}, whole |-> FALSE]
<1>1. /\ f \in File /\ f.recs = {} /\ ~f.whole /\ nodes' = Append(nodes, f)
      /\ Change(Linked(Dir, Tmp(n), NewNode))
      /\ UNCHANGED <<written, docID, acked, rotten, active, seg, frozen, alloc, loaded, up>>
      /\ fl'.pc = "tmp" /\ fl'.id = n /\ up = "running" /\ n \in Nat /\ n > nextSST
      /\ nextSST \in Nat /\ Len(nodes) \in Nat /\ n <= Len(nodes) + 1 /\ n >= 1
  BY DEF File, FlushCreate, FlushAt, client, memory, bounds, BothSafe, Core, ProcessTypes, Numbering
<1>2. /\ Tmp(n) \in Kinds \X (1..Len(nodes) + 1) /\ Tmp(n)[1] = "tmp" /\ Tmp(n)[2] = n
  BY <1>1 DEF Tmp, Kinds
<1>3. Tmp(n) \notin DOMAIN Dir
  BY <1>1, <1>2 DEF BothSafe, Core, IdsKnown
<1> HIDE DEF f, n
<1>4. /\ Disk' /\ Grows
      /\ DOMAIN Dir' = DOMAIN Dir \cup {Tmp(n)} /\ Dir'[Tmp(n)] = NewNode
      /\ \A m \in DOMAIN Dir : Dir'[m] = Dir[m]
      /\ \A k \in DOMAIN nodes : nodes'[k] = nodes[k]
      /\ nodes'[NewNode] = f
  BY <1>1, <1>2, <1>3, DiskLink DEF BothSafe, Secured
<1>5. \A m \in DOMAIN Dir : m \in DOMAIN Dir' /\ Dir'[m] = Dir[m] /\ nodes'[Dir[m]] = nodes[Dir[m]]
  BY <1>4, NamesAre DEF BothSafe
<1>6. TablesStay /\ LogStays
  BY <1>2, <1>4, <1>5 DEF TablesStay, LogStays
<1>7. Filling' /\ FlushedSafe'
  BY <1>1, <1>4 DEF Filling, FlushedSafe, Whole, Tmp
<1>8. Wal(seg) \in DOMAIN Dir'
  BY <1>1, <1>4 DEF Secured, Serving
<1>9. Serving'
  BY <1>1, <1>6, <1>8, ServingKept DEF Secured, MemoryStays
<1>10. Loading'
  <2>1. \A l \in loaded' : Sst(l) \in DOMAIN Dir'
    BY <1>1, <1>4 DEF Secured, Loading
  <2> QED
    BY <1>1, <2>1 DEF Loading, Sst
<1> QED
  BY <1>4, <1>7, <1>9, <1>10 DEF Secured

LEMMA FlushSyncSafe == ASSUME BothSafe, Secured, FlushSync PROVE Secured' /\ Grows
<1> DEFINE k == Dir[Tmp(fl.id)]
           f == [recs |-> Head(frozen).mt, whole |-> TRUE]
<1>1. /\ UNCHANGED <<dirs, docID, acked, active, seg, frozen, alloc, loaded, up>>
      /\ up = "running" /\ nodes' = [nodes EXCEPT ![k] = f] /\ Dir' = Dir
      /\ fl'.pc = "synced" /\ fl'.id = fl.id
  BY DEF FlushSync, FlushAt, FlushTo, client, memory, Dir, BothSafe, Core, ProcessTypes
<1>2. k \in DOMAIN nodes
  BY NamesAre DEF BothSafe, Core, Flushing, FlushSync, FlushAt
<1>3. nodes'[k] = f /\ f.recs = Head(frozen).mt
  BY <1>1, <1>2 DEF BothSafe, Core
<1> HIDE DEF f
<1>4. /\ Disk' /\ Grows
      /\ \A m \in DOMAIN Dir : m[1] \in {"wal", "sst"} => nodes'[Dir[m]] = nodes[Dir[m]]
  BY DiskFill DEF BothSafe, Secured
<1>5. TablesStay /\ LogStays
  BY <1>1, <1>4 DEF TablesStay, LogStays
<1>6. Filling' /\ FlushedSafe'
  BY <1>1, <1>3 DEF Filling, FlushedSafe, Tmp
<1>7. Serving'
  BY <1>1, <1>5, ServingKept DEF Secured, MemoryStays, Serving
<1>8. Loading'
  BY <1>1 DEF Secured, Loading, Sst
<1> QED
  BY <1>4, <1>6, <1>7, <1>8 DEF Secured

LEMMA FlushRenameSafe == ASSUME BothSafe, Secured, FlushRename PROVE Secured' /\ Grows
<1>1. /\ UNCHANGED <<nodes, docID, acked, active, seg, frozen, alloc, loaded, up>>
      /\ up = "running" /\ fl'.pc = "renamed" /\ fl'.id = fl.id
  BY DEF FlushRename, FlushAt, FlushTo, client, memory, BothSafe, Core, ProcessTypes
<1>2. /\ Disk' /\ Grows /\ Sst(fl.id) \in DOMAIN Dir'
      /\ nodes'[Dir'[Sst(fl.id)]].recs = Head(frozen).mt
      /\ \A m \in DOMAIN Dir : m # Tmp(fl.id) => m \in DOMAIN Dir' /\ Dir'[m] = Dir[m]
      /\ \A m \in DOMAIN Dir' : m # Sst(fl.id) => m \in DOMAIN Dir /\ Dir'[m] = Dir[m]
  BY DiskRename DEF BothSafe, Secured
<1>3. Tmp(fl.id)[1] = "tmp" /\ \A n : Sst(n)[1] = "sst" /\ Wal(n)[1] = "wal"
  BY DEF Tmp, Sst, Wal
<1>4. TablesStay /\ LogStays
  BY <1>1, <1>2, <1>3 DEF TablesStay, LogStays
<1>5. Filling' /\ FlushedSafe'
  BY <1>1, <1>2 DEF Filling, FlushedSafe, Sst
<1>6. Wal(seg) \in DOMAIN Dir'
  BY <1>1, <1>2, <1>3 DEF Secured, Serving
<1>7. Serving'
  BY <1>1, <1>4, <1>6, ServingKept DEF Secured, MemoryStays
<1>8. \A n \in loaded' : Sst(n) \in DOMAIN Dir'
  BY <1>1, <1>2, <1>3 DEF Secured, Loading
<1>9. Loading'
  BY <1>1, <1>8 DEF Loading, Sst
<1> QED
  BY <1>2, <1>5, <1>7, <1>9 DEF Secured

\* The oldest frozen MemTable, while the worker is past the rename.
LEMMA HeadIsIn ==
    ASSUME BothSafe, Filling, fl.pc \in {"renamed", "published", "swapped"}
    PROVE  /\ Head(frozen).mt \subseteq Held(Dir, nodes, "sst")
           /\ Sst(fl.id) \in DOMAIN Dir /\ nodes[Dir[Sst(fl.id)]].recs = Head(frozen).mt
<1>1. Sst(fl.id) \in DOMAIN Dir /\ nodes[Dir[Sst(fl.id)]].recs = Head(frozen).mt
  BY DEF Filling
<1>2. Sst(fl.id)[1] = "sst" /\ nodes[Dir[Sst(fl.id)]] \in File
  BY <1>1, NamesAre DEF Sst, BothSafe, Core
<1> QED
  BY <1>1, <1>2 DEF Held, File

LEMMA FlushSyncDirSafe == ASSUME BothSafe, Secured, FlushSyncDir PROVE Secured' /\ Grows
<1>1. /\ UNCHANGED <<nodes, written, docID, acked, active, seg, frozen, alloc, loaded, up>>
      /\ up = "running" /\ fl.pc = "renamed" /\ fl'.pc = "published" /\ fl'.id = fl.id
      /\ dirs' = <<Dir>>
  BY DEF FlushSyncDir, FlushAt, FlushTo, client, memory, BothSafe, Core, ProcessTypes
<1>2. Len(dirs) \in DOMAIN dirs
  BY LastDir DEF BothSafe, Core
<1>3. acked' = acked \cap Content(Dir, nodes)
  BY <1>1 DEF Secured, Disk
<1>4. Disk' /\ Grows
  BY <1>1, <1>2, <1>3, DiskLeft DEF BothSafe, Secured, Dir
<1>5. DOMAIN dirs' = {1} /\ dirs'[1] = Dir /\ Dir' = Dir
  BY <1>1 DEF Dir
<1>6. TablesStay /\ LogStays
  BY <1>1, <1>5 DEF TablesStay, LogStays
<1>7. /\ Head(frozen).mt \subseteq Content(Dir, nodes)
      /\ Sst(fl.id) \in DOMAIN Dir /\ nodes[Dir[Sst(fl.id)]].recs = Head(frozen).mt
  BY <1>1, HeadIsIn DEF Secured, Content
<1>8. Filling' /\ FlushedSafe'
  BY <1>1, <1>5, <1>7 DEF Filling, FlushedSafe, Sst
<1>9. Serving'
  BY <1>1, <1>5, <1>6, ServingKept DEF Secured, MemoryStays, Serving
<1>10. Loading'
  BY <1>1, <1>5 DEF Secured, Loading, Sst
<1> QED
  BY <1>4, <1>8, <1>9, <1>10 DEF Secured

LEMMA FlushFailSafe == ASSUME BothSafe, Secured, FlushFail PROVE Secured' /\ Grows
<1>1. /\ UNCHANGED <<nodes, written, docID, acked, rotten, active, seg, frozen, alloc, loaded, up>>
      /\ up = "running" /\ fl'.pc = "idle"
  BY DEF FlushFail, Idle, client, memory, bounds
<1>2. CASE Change(Unlinked(Dir, Tmp(fl.id)))
  <2>1. Tmp(fl.id)[1] = "tmp" /\ \A n : Sst(n)[1] = "sst" /\ Wal(n)[1] = "wal"
    BY DEF Tmp, Sst, Wal
  <2>2. Disk' /\ Grows
    BY <1>1, <1>2, <2>1, DiskUnlink DEF BothSafe, Secured
  <2>3. DOMAIN Dir' = DOMAIN Dir \ {Tmp(fl.id)} /\ \A m \in DOMAIN Dir' : Dir'[m] = Dir[m]
    BY <1>1, <1>2, UnlinkStep DEF BothSafe
  <2>4. TablesStay /\ LogStays
    BY <1>1, <2>1, <2>3 DEF TablesStay, LogStays
  <2>5. Wal(seg) \in DOMAIN Dir'
    BY <1>1, <2>1, <2>3 DEF Secured, Serving
  <2>6. Serving'
    BY <1>1, <2>4, <2>5, ServingKept DEF Secured, MemoryStays
  <2>7. \A n \in loaded' : Sst(n) \in DOMAIN Dir'
    BY <1>1, <2>1, <2>3 DEF Secured, Loading
  <2>8. Loading'
    BY <1>1, <2>7 DEF Loading, Sst
  <2> QED
    BY <1>1, <2>2, <2>6, <2>8, IdleSafe DEF Secured
<1>3. CASE UNCHANGED dirs
  <2>1. Disk' /\ Grows /\ Dir' = Dir /\ TablesStay /\ LogStays
    BY <1>1, <1>3, DiskSame DEF Secured
  <2>2. Serving'
    BY <1>1, <2>1, ServingKept DEF Secured, MemoryStays, Serving
  <2>3. Loading'
    BY <1>1, <2>1 DEF Secured, Loading, Sst
  <2> QED
    BY <1>1, <2>1, <2>2, <2>3, IdleSafe DEF Secured
<1> QED
  BY <1>2, <1>3 DEF FlushFail

LEMMA FlushSwapSafe == ASSUME BothSafe, Secured, FlushSwap PROVE Secured' /\ Grows
<1>1. /\ UNCHANGED <<dirs, nodes, written, docID, acked, active, seg, frozen, alloc, up>>
      /\ up = "running" /\ fl.pc = "published" /\ fl'.pc = "swapped" /\ fl'.id = fl.id
      /\ loaded' = loaded \cup {fl.id}
  BY DEF FlushSwap, FlushAt, FlushTo, client, memory, BothSafe, Core, ProcessTypes
<1>2. Disk' /\ Grows /\ Dir' = Dir /\ TablesStay /\ LogStays
  BY <1>1, DiskSame DEF Secured
<1>3. Sst(fl.id) \in DOMAIN Dir /\ nodes[Dir[Sst(fl.id)]].recs = Head(frozen).mt
  BY <1>1, HeadIsIn DEF Secured
<1>4. Filling' /\ FlushedSafe'
  BY <1>1, <1>2, <1>3 DEF Secured, Filling, FlushedSafe, Sst
<1>5. Serving'
  BY <1>1, <1>2, ServingKept DEF Secured, MemoryStays, Serving
<1>6. Loading'
  BY <1>1, <1>2, <1>3 DEF Secured, Loading, Sst
<1> QED
  BY <1>2, <1>4, <1>5, <1>6 DEF Secured

\* What the popped MemTable holds is in the SSTable just loaded, and so is
\* what its segment holds.
LEMMA FlushDeleteSafe == ASSUME BothSafe, Secured, FlushDelete PROVE Secured' /\ Grows
<1> DEFINE h == Head(frozen)
           w == Wal(Head(frozen).seg)
<1>1. /\ UNCHANGED <<nodes, written, docID, acked, rotten, active, seg, alloc, loaded, up>>
      /\ up = "running" /\ fl.pc = "swapped" /\ fl'.pc = "idle" /\ frozen # <<>>
      /\ frozen' = Tail(frozen)
      /\ Change(Unlinked(Dir, w)) \/ UNCHANGED dirs
  BY DEF FlushDelete, FlushAt, Idle, client, bounds, BothSafe, Core, Flushing
<1>2. /\ 1 \in DOMAIN frozen /\ h = frozen[1]
      /\ \A i \in DOMAIN frozen' : /\ i \in Nat /\ i + 1 \in DOMAIN frozen
                                   /\ frozen'[i] = frozen[i + 1]
      /\ \A i \in DOMAIN frozen : \/ i = 1
                                  \/ \E j \in DOMAIN frozen' : frozen'[j] = frozen[i]
  <2>1. ASSUME NEW T, NEW q \in Seq(T), q # <<>>
        PROVE  /\ 1 \in DOMAIN q /\ Head(q) = q[1]
               /\ \A i \in DOMAIN Tail(q) : i \in Nat /\ i + 1 \in DOMAIN q /\ Tail(q)[i] = q[i + 1]
               /\ \A i \in DOMAIN q : i = 1 \/ (i - 1 \in DOMAIN Tail(q) /\ Tail(q)[i - 1] = q[i])
    BY <2>1
  <2>2. frozen \in Seq([mt : SUBSET Records, seg : Nat])
    BY DEF BothSafe, Core, MemoryTypes
  <2>3. /\ 1 \in DOMAIN frozen /\ Head(frozen) = frozen[1]
        /\ \A i \in DOMAIN Tail(frozen) :
             i \in Nat /\ i + 1 \in DOMAIN frozen /\ Tail(frozen)[i] = frozen[i + 1]
        /\ \A i \in DOMAIN frozen :
             i = 1 \/ (i - 1 \in DOMAIN Tail(frozen) /\ Tail(frozen)[i - 1] = frozen[i])
    BY <1>1, <2>1, <2>2
  <2>4. \A i \in DOMAIN frozen : \/ i = 1
                                 \/ \E j \in DOMAIN frozen' : frozen'[j] = frozen[i]
    BY <1>1, <2>3
  <2> QED
    BY <1>1, <2>3, <2>4
<1>3. /\ h.mt \subseteq Held(Dir, nodes, "sst") /\ fl.id \in loaded
      /\ nodes[Dir[Sst(fl.id)]].recs = h.mt
  BY <1>1, HeadIsIn DEF Secured, Filling
<1>4. h.seg < seg /\ h.seg \in Nat /\ seg \in Nat /\ (w \in DOMAIN Dir => Logged(h.seg, h.mt))
  BY <1>1, <1>2, FrozenTypes DEF Secured, Serving, BothSafe
<1>5. /\ w[1] = "wal" /\ w # Wal(seg)
      /\ \A n : Sst(n)[1] = "sst" /\ Wal(n)[1] = "wal"
  <2>1. w[1] = "wal" /\ w[2] = h.seg /\ Wal(seg)[2] = seg
        /\ \A n : Sst(n)[1] = "sst" /\ Wal(n)[1] = "wal"
    BY DEF Wal, Sst
  <2> QED
    BY <1>4, <2>1
<1>6. w \in DOMAIN Dir => nodes[Dir[w]].recs \subseteq Held(Dir, nodes, "sst")
  <2>1. Persisted(Dir) = Held(Dir, nodes, "sst")
    BY PersistedIs DEF BothSafe, TablesRead
  <2> QED
    BY <1>3, <1>4, <2>1 DEF Logged
<1>7. /\ Disk' /\ Grows /\ \A m \in DOMAIN Dir' : m \in DOMAIN Dir /\ Dir'[m] = Dir[m]
      /\ \A m \in DOMAIN Dir : m # w => m \in DOMAIN Dir'
  <2>1. CASE Change(Unlinked(Dir, w))
    <3> HIDE DEF w, h
    <3>1. Disk' /\ Grows
      BY <1>1, <1>5, <1>6, <2>1, DiskUnlink DEF BothSafe, Secured
    <3>2. DOMAIN Dir' = DOMAIN Dir \ {w} /\ \A m \in DOMAIN Dir' : Dir'[m] = Dir[m]
      BY <1>1, <2>1, UnlinkStep DEF BothSafe
    <3> QED
      BY <3>1, <3>2
  <2>2. CASE UNCHANGED dirs
    BY <1>1, <2>2, DiskSame DEF Secured
  <2> QED
    BY <1>1, <2>1, <2>2
<1> HIDE DEF w, h
<1>8. TablesStay /\ LogStays /\ Wal(seg) \in DOMAIN Dir'
  BY <1>1, <1>5, <1>7 DEF TablesStay, LogStays, Secured, Serving
<1>9. Loading'
  <2>1. \A n \in loaded' : Sst(n) \in DOMAIN Dir'
    BY <1>1, <1>5, <1>7 DEF Secured, Loading
  <2> QED
    BY <1>1, <2>1 DEF Loading, Sst
<1>10. Persisted(Dir) \subseteq Persisted(Dir)' /\ InTables \subseteq InTables'
  BY <1>1, <1>8, TablesStayed DEF Secured
<1>11. ASSUME NEW n, NEW mt, Wal(n) \in DOMAIN Dir => Logged(n, mt), Wal(n) \in DOMAIN Dir'
       PROVE  Logged(n, mt)'
  BY <1>1, <1>7, <1>10, <1>11 DEF Logged, Wal
<1>12. Logged(seg, active)' /\ \A n \in Ids("wal")' : n <= seg'
  <2>1. Logged(seg, active)'
    BY <1>1, <1>8, <1>11 DEF Secured, Serving, Logged, Wal
  <2>2. Ids("wal")' \subseteq Ids("wal")
    BY <1>7 DEF Ids
  <2> QED
    BY <1>1, <2>1, <2>2 DEF Secured, Serving
<1>13. ASSUME NEW i \in DOMAIN frozen'
       PROVE  /\ frozen'[i].seg < seg'
              /\ Wal(frozen[i].seg)' \in DOMAIN Dir' => Logged(frozen[i].seg, frozen[i].mt)'
              /\ Younger(frozen[i].mt, active)'
              /\ \A j \in DOMAIN frozen' : i < j => Younger(frozen[i].mt, frozen[j].mt)'
  <2>1. /\ frozen'[i].seg < seg'
        /\ Wal(frozen'[i].seg) \in DOMAIN Dir => Logged(frozen'[i].seg, frozen'[i].mt)
        /\ Younger(frozen'[i].mt, active)
    BY <1>1, <1>2 DEF Secured, Serving
  <2>2. Wal(frozen[i].seg)' \in DOMAIN Dir' => Logged(frozen[i].seg, frozen[i].mt)'
    BY <1>11, <2>1 DEF Wal, Logged
  <2>3. Younger(frozen[i].mt, active)'
    BY <1>1, <2>1 DEF Younger
  <2>4. ASSUME NEW j \in DOMAIN frozen', i < j
        PROVE  Younger(frozen[i].mt, frozen[j].mt)'
    <3>1. i + 1 < j + 1
      BY <1>2, <2>4
    <3>2. Younger(frozen'[i].mt, frozen'[j].mt)
      BY <1>1, <1>2, <3>1 DEF Secured, Serving
    <3> QED
      BY <1>1, <3>2 DEF Younger
  <2> QED
    BY <2>1, <2>2, <2>3, <2>4
<1>14. InMemory' \subseteq InMemory /\ InMemory \subseteq InMemory' \cup h.mt
  <2>1. \A i \in DOMAIN frozen' : \E j \in DOMAIN frozen : frozen'[i] = frozen[j]
    BY <1>2
  <2>2. \A i \in DOMAIN frozen : \/ frozen[i] = h
                                 \/ \E j \in DOMAIN frozen' : frozen[i] = frozen'[j]
    BY <1>2
  <2> QED
    BY <1>1, <2>1, <2>2 DEF InMemory
<1>15. h.mt \subseteq InTables
  BY <1>3 DEF InTables
<1>16. /\ InMemory' \subseteq acked' /\ acked' \subseteq InMemory' \cup InTables'
       /\ \A r \in acked' : docID'[r] <= alloc'
  BY <1>1, <1>10, <1>14, <1>15 DEF Secured, Serving
<1>17. Serving'
  <2>1. Wal(seg)' \in DOMAIN Dir'
    BY <1>1, <1>8 DEF Wal
  <2> QED
    BY <1>12, <1>13, <1>16, <2>1 DEF Serving
<1> QED
  BY <1>1, <1>7, <1>9, <1>17, IdleSafe DEF Secured

-----------------------------------------------------------------------------
(* Stops, and the theorems about acknowledged records                      *)

LEMMA KillSafe == ASSUME BothSafe, Secured, Kill PROVE Secured' /\ Grows
<1>1. UNCHANGED <<dirs, nodes, written, docID, acked>> /\ Forget
  BY DEF Kill, client
<1>2. Disk' /\ Grows
  BY <1>1, DiskSame DEF Secured
<1> QED
  BY <1>1, <1>2, ForgetSafe DEF Secured

LEMMA PowerFailureSafe == ASSUME BothSafe, Secured, PowerFailure PROVE Secured' /\ Grows
<1>1. UNCHANGED <<nodes, written, docID>> /\ Forget
  BY DEF PowerFailure
<1>2. PICK i \in DOMAIN dirs : dirs' = <<dirs[i]>> /\ acked' = acked \cap Recoverable(dirs[i])
  BY DEF PowerFailure
<1>3. acked' = acked \cap Content(dirs[i], nodes)
  BY <1>2, RecoverableIs DEF BothSafe, Secured
<1>4. Disk' /\ Grows
  BY <1>1, <1>2, <1>3, DiskLeft DEF BothSafe, Secured
<1> QED
  BY <1>1, <1>4, ForgetSafe DEF Secured

LEMMA StutterSafe == ASSUME BothSafe, Secured, UNCHANGED vars PROVE Secured' /\ Grows
<1>1. UNCHANGED <<dirs, nodes, written, docID, acked, up, active, seg, frozen, loaded, alloc, fl>>
  BY DEF vars
<1>2. Disk' /\ Grows /\ Dir' = Dir /\ TablesStay /\ LogStays /\ WorkStays
  BY <1>1, DiskSame DEF Secured
<1>3. Serving'
  BY <1>1, <1>2, ServingKept DEF Secured, MemoryStays, Serving
<1>4. Loading'
  BY <1>1, <1>2 DEF Secured, Loading, Sst, Ids
<1>5. Filling' /\ FlushedSafe'
  BY <1>1, <1>2, FillingKept, FlushedKept DEF Secured, BothSafe
<1> QED
  BY <1>2, <1>3, <1>4, <1>5 DEF Secured

LEMMA NextSafe ==
    ASSUME BothSafe, Secured, [Next]_vars
    PROVE  Secured' /\ Grows
<1>1. CASE Open
  BY <1>1, ReadIdsSafe, RemoveTmpSafe, LoadTableSafe, CreateFirstSegmentSafe, ReplayLogSafe,
     DeleteCoveredSafe DEF Open
<1>2. CASE Write \/ Freeze
  BY <1>2, WriteSafe, FreezeSafe
<1>3. CASE Flush
  BY <1>3, FlushCreateSafe, FlushSyncSafe, FlushRenameSafe, FlushSyncDirSafe, FlushFailSafe,
     FlushSwapSafe, FlushDeleteSafe DEF Flush
<1>4. CASE Kill \/ PowerFailure
  BY <1>4, KillSafe, PowerFailureSafe
<1>5. CASE Rot
  BY <1>5 DEF Rot, BothSafe
<1>6. CASE UNCHANGED vars
  BY <1>6, StutterSafe
<1> QED
  BY <1>1, <1>2, <1>3, <1>4, <1>5, <1>6 DEF Next

LEMMA InitSecured == Init => Secured
<1> SUFFICES ASSUME Init PROVE Secured
  OBVIOUS
<1> DEFINE d == [name \in {} |-> 0]
<1>1. DOMAIN d = {} /\ dirs = <<d>> /\ acked = {} /\ up = "down" /\ fl.pc = "idle"
  BY DEF Init, Idle
<1> HIDE DEF d
<1>2. DOMAIN dirs = {1} /\ dirs[1] = d
  BY <1>1
<1>3. SoundIn(d, nodes, docID, acked)
  BY <1>1 DEF SoundIn, Content, Held
<1>4. FilesApart /\ DocIDsApart
  BY <1>1, <1>2 DEF FilesApart, DocIDsApart
<1>5. Disk
  BY <1>1, <1>2, <1>3, <1>4 DEF Disk
<1>6. Loading /\ Filling /\ Serving /\ FlushedSafe
  BY <1>1 DEF Init, Loading, Filling, Serving, FlushedSafe
<1> QED
  BY <1>5, <1>6 DEF Secured

\* Everything holds until a file rots.
SecuredInv == Core /\ (rotten = 0 => Secured)

LEMMA NextSecured ==
    ASSUME SecuredInv, [Next]_vars
    PROVE  SecuredInv' /\ (rotten' = 0 => rotten = 0 /\ Grows)
<1>1. Core /\ Core'
  BY NextCore DEF SecuredInv
<1>2. rotten' = 0 => rotten = 0
  <2>1. rotten' = rotten \/ rotten' = rotten + 1
    BY DEF Next, Open, Flush, ReadIds, RemoveTmp, LoadTable, CreateFirstSegment, ReplayLog,
           DeleteCovered, Write, Freeze, FlushCreate, FlushSync, FlushRename, FlushSyncDir,
           FlushFail, FlushSwap, FlushDelete, Kill, PowerFailure, Rot, bounds, vars
  <2> QED
    BY <1>1, <2>1 DEF Core, ProcessTypes
<1>3. CASE rotten' = 0
  <2>1. BothSafe /\ Secured
    BY <1>1, <1>2, <1>3 DEF BothSafe, SecuredInv
  <2> QED
    BY <1>1, <1>2, <1>3, <2>1, NextSafe DEF SecuredInv
<1>4. CASE rotten' # 0
  BY <1>1, <1>4 DEF SecuredInv
<1> QED
  BY <1>3, <1>4

LEMMA SecuredAlways == Spec => []SecuredInv
<1>1. Init => SecuredInv
  BY InitCore, InitSecured DEF SecuredInv
<1>2. SecuredInv /\ [Next]_vars => SecuredInv'
  BY NextSecured
<1> QED
  BY <1>1, <1>2, PTL DEF Spec

\* What recovery finds in every directory a power failure may leave.
AllRecovered ==
    rotten = 0 =>
        \A i \in DOMAIN dirs : Recoverable(dirs[i]) = Content(dirs[i], nodes)

LEMMA AllAreRecovered == SecuredInv => AllRecovered
  BY RecoverableIs DEF SecuredInv, Secured, AllRecovered

LEMMA SecuredIsKept == SecuredInv => KeptInv
<1> SUFFICES ASSUME SecuredInv, rotten = 0 PROVE KeptInv
  BY DEF KeptInv
<1>1. Core /\ Secured /\ Disk
  BY DEF SecuredInv, Secured
<1>2. ASSUME NEW d, Good(d, nodes, rotten), SoundIn(d, nodes, docID, acked)
      PROVE  Sound(d) /\ InFiles(d) = Content(d, nodes)
  <2>1. Persisted(d) = Held(d, nodes, "sst")
    BY <1>1, <1>2, HeldIs DEF Good, Whole, Persisted
  <2>2. RecordsIn(d, "wal") = Held(d, nodes, "wal")
    BY <1>1, <1>2, HeldIs DEF SoundIn, Whole
  <2> QED
    BY <1>2, <2>1, <2>2 DEF SoundIn, Sound, Whole, InFiles, Content
<1>3. \A i \in DOMAIN dirs : Sound(dirs[i]) /\ InFiles(dirs[i]) = Content(dirs[i], nodes)
  BY <1>1, <1>2 DEF Core, AllGood, Disk
<1>4. acked \subseteq InFiles(Dir)
  BY <1>1, <1>3, LastDir DEF Core, Disk, Dir
<1>5. FlushedDurable
  BY <1>1, AllAreRecovered DEF AllRecovered, Secured, FlushedSafe, FlushedDurable, Durable
<1> QED
  BY <1>1, <1>3, <1>4, <1>5 DEF KeptInv, Secured, Disk

\* The strengthening for acknowledged records is an invariant.
THEOREM KeptInvariant == Spec => []KeptInv
  BY SecuredAlways, SecuredIsKept, PTL

\* At every step of a flush, a rotation or a recovery, what was acknowledged
\* is where a recovery that started now would find it.
THEOREM AckedStayOnDisk == Spec => []AckedOnDisk
<1>1. SecuredInv => AckedOnDisk
  <2> SUFFICES ASSUME SecuredInv, rotten = 0 PROVE acked \subseteq Recoverable(Dir)
    BY DEF AckedOnDisk
  <2>1. Recoverable(Dir) = Content(Dir, nodes)
    BY AllAreRecovered, LastDir DEF AllRecovered, SecuredInv, Core, Dir
  <2> QED
    BY <2>1 DEF SecuredInv, Secured, Disk
<1> QED
  BY SecuredAlways, <1>1, PTL

\* After Open, reads find everything that was acknowledged.
THEOREM AckedAreServed == Spec => []AckedServed
<1>1. SecuredInv => AckedServed
  BY DEF SecuredInv, Secured, Serving, AckedServed
<1> QED
  BY SecuredAlways, <1>1, PTL

\* No two records that survive have the same DocID.
THEOREM SurvivorsAreUnique == Spec => []SurvivorsUnique
<1>1. SecuredInv => SurvivorsUnique
  <2> SUFFICES ASSUME SecuredInv, rotten = 0,
                      NEW r \in Recoverable(Dir), NEW s \in Recoverable(Dir), r # s
               PROVE  docID[r] # docID[s]
    BY DEF SurvivorsUnique
  <2>1. r \in Content(Dir, nodes) /\ s \in Content(Dir, nodes)
    BY AllAreRecovered, LastDir DEF AllRecovered, SecuredInv, Core, Dir
  <2>2. r \in acked /\ s \in acked
    BY <2>1, LastDir DEF SecuredInv, Secured, Disk, SoundIn, Core, Dir
  <2> QED
    BY <2>2 DEF SecuredInv, Secured, Disk, DocIDsApart
<1> QED
  BY SecuredAlways, <1>1, PTL

\* When the worker goes on to delete a segment, no power failure can take
\* the SSTable that replaces it.
THEOREM FlushIsDurable == Spec => []FlushedDurable
<1>1. SecuredInv => FlushedDurable
  <2>1. rotten # 0 => FlushedDurable
    BY DEF FlushedDurable
  <2>2. rotten = 0 /\ KeptInv => FlushedDurable
    BY DEF KeptInv
  <2> QED
    BY <2>1, <2>2, SecuredIsKept
<1> QED
  BY SecuredAlways, <1>1, PTL

\* A record that no power failure can take is never again exposed to one,
\* whatever the engine does to its segment and its SSTables.
THEOREM DurableStays == Spec => StaysDurable
<1>1. SecuredInv /\ SecuredInv' /\ AllRecovered' /\ [Next]_vars =>
        [rotten' = 0 => \A r \in acked : Durable(r) => Durable(r)']_vars
  <2> SUFFICES ASSUME SecuredInv, AllRecovered', [Next]_vars, rotten' = 0,
                      NEW r \in acked, Durable(r), NEW j \in DOMAIN dirs'
               PROVE  r \in Recoverable(dirs[j])'
    BY DEF Durable
  <2>1. Grows /\ rotten = 0
    BY NextSecured
  <2>2. PICK i \in DOMAIN dirs : Content(dirs[i], nodes) \subseteq Content(dirs'[j], nodes')
    BY <2>1 DEF Grows
  <2>3. r \in Content(dirs[i], nodes)
    BY <2>1, AllAreRecovered DEF AllRecovered, Durable
  <2> QED
    BY <2>2, <2>3 DEF AllRecovered
<1> QED
  BY SecuredAlways, AllAreRecovered, <1>1, PTL DEF Spec, StaysDurable
=============================================================================
