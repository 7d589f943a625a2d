---------------------------- MODULE LocksProofs -----------------------------
(***************************************************************************)
(* Proofs about module Locks, for any number of goroutines and MemTables.  *)
(***************************************************************************)
EXTENDS Locks, WellFoundedInduction, TLAPS

\* The constants are what the assumptions say.
LEMMA Constants ==
    /\ MaxFrozen \in Nat /\ MaxTables \in Nat /\ 1 \in Tables
    /\ Tables \subseteq Nat
    /\ Writers \cap Readers = {} /\ Getters \cap Scanners = {}
    /\ "freezer" \notin Writers \cup Readers /\ "flusher" \notin Writers \cup Readers
    /\ Nobody \notin Goroutines
  BY LimitsAssumption, GoroutinesAssumption
     DEF Tables, Readers, Workers, Nobody, Goroutines

\* Nothing but a step of one goroutine, or a stutter.
LEMMA Steps ==
    ASSUME [Next]_vars
    PROVE  \/ \E w \in Writers : WriteBegin(w) \/ WriteStep(w)
           \/ \E p \in Readers : ReadBegin(p) \/ ReadStep(p)
           \/ FreezeStep
           \/ FlushStep
           \/ UNCHANGED vars
  BY DEF Next, Step

-----------------------------------------------------------------------------
(* The RWMutex                                                             *)

\* Whatever is done to a lock, it stays one.
LEMMA LockType ==
    ASSUME NEW l \in Lock, NEW p \in Goroutines
    PROVE  /\ RLock(l, p) \in Lock /\ RUnlock(l, p) \in Lock
           /\ Announce(l, p) \in Lock /\ Unlock(l) \in Lock
  BY DEF Lock, RLock, RUnlock, Announce, Unlock

\* Who shares a lock goes on doing so until it unlocks it itself.
LEMMA StillShared ==
    ASSUME NEW l \in Lock, NEW p \in Goroutines, NEW q \in Goroutines, Shared(l, q)
    PROVE  /\ Shared(RLock(l, p), q) /\ Shared(Announce(l, p), q)
           /\ Shared(Unlock(l), q)
           /\ p # q => Shared(RUnlock(l, p), q)
  BY DEF Lock, RLock, RUnlock, Announce, Unlock, Shared

\* Who has a lock alone goes on having it until it unlocks it itself.
LEMMA StillExclusive ==
    ASSUME NEW l \in Lock, NEW p \in Goroutines, NEW q \in Goroutines,
           Exclusive(l, q)
    PROVE  /\ Exclusive(RLock(l, p), q) /\ Exclusive(RUnlock(l, p), q)
           /\ ~CanAnnounce(l)
           /\ Exclusive(l, p) => p = q
           /\ ~Shared(l, p)
  BY Constants DEF Lock, RLock, RUnlock, Exclusive, CanAnnounce, Shared

-----------------------------------------------------------------------------
(* Sequences                                                               *)

\* Of a nonempty set of numbers, one is the least.
LEMMA OldestExists ==
    ASSUME NEW S, S \subseteq Nat, S # {}
    PROVE  \E t \in S : \A u \in S : t <= u
<1> DEFINE R == OpToRel(<, Nat)
<1>1. IsWellFoundedOn(R, Nat)
  BY NatLessThanWellFounded
<1>2. PICK t \in S : \A u \in S : <<u, t>> \notin R
  <2> HIDE DEF R
  <2> QED
    BY <1>1, WFMin
<1>3. \A u \in S : ~(u < t)
  BY <1>2 DEF OpToRel
<1> QED
  BY <1>3

LEMMA TailIs ==
    ASSUME NEW S, NEW s \in Seq(S), s # <<>>
    PROVE  /\ Tail(s) \in Seq(S) /\ Head(s) = s[1] /\ Head(s) \in S
           /\ 1 \in DOMAIN s
           /\ Len(s) \in Nat /\ Len(Tail(s)) = Len(s) - 1
           /\ DOMAIN Tail(s) = 1..Len(s) - 1
           /\ \A i \in DOMAIN Tail(s) : Tail(s)[i] = s[i + 1] /\ i + 1 \in DOMAIN s
           /\ \A i \in DOMAIN s : i = 1 \/ i - 1 \in DOMAIN Tail(s)
  OBVIOUS

LEMMA Elements ==
    ASSUME NEW s \in Seq(Tables)
    PROVE  /\ Len(s) \in Nat /\ DOMAIN s = 1..Len(s)
           /\ \A i \in DOMAIN s : i \in Nat /\ s[i] \in Tables /\ s[i] \in Nat
<1>1. Len(s) \in Nat /\ DOMAIN s = 1..Len(s)
      /\ \A i \in DOMAIN s : i \in Nat /\ s[i] \in Tables
  OBVIOUS
<1>2. Tables \subseteq Nat
  BY Constants
<1> QED
  BY <1>1, <1>2

LEMMA AppendIs ==
    ASSUME NEW S, NEW s \in Seq(S), NEW e \in S
    PROVE  /\ Append(s, e) \in Seq(S)
           /\ Len(s) \in Nat /\ Len(Append(s, e)) = Len(s) + 1
           /\ DOMAIN s = 1..Len(s)
           /\ DOMAIN Append(s, e) = 1..Len(s) + 1
           /\ \A i \in DOMAIN s : Append(s, e)[i] = s[i]
           /\ Append(s, e)[Len(s) + 1] = e
  OBVIOUS

\* What a snapshot is going to read, in terms of the queue.
LEMMA SnapshotIs ==
    ASSUME NEW S, frozen \in Seq(S), NEW a \in S
    PROVE  LET walk == <<a>> \o NewestFirst IN
           /\ NewestFirst \in Seq(S)
           /\ walk \in Seq(S) /\ Len(frozen) \in Nat
           /\ walk # <<>> /\ walk[1] = a
           /\ DOMAIN walk = 1..Len(frozen) + 1
           /\ DOMAIN frozen = 1..Len(frozen)
           /\ \A i \in 2..Len(frozen) + 1 : walk[i] = frozen[Len(frozen) + 2 - i]
<1>1. /\ Len(frozen) \in Nat
      /\ DOMAIN frozen = 1..Len(frozen)
      /\ \A i \in 1..Len(frozen) : frozen[i] \in S
  OBVIOUS
<1>2. /\ NewestFirst \in Seq(S) /\ Len(NewestFirst) = Len(frozen)
      /\ \A i \in 1..Len(frozen) : NewestFirst[i] = frozen[Len(frozen) + 1 - i]
  BY <1>1 DEF NewestFirst
<1>3. <<a>> \in Seq(S) /\ Len(<<a>>) = 1 /\ <<a>>[1] = a
  OBVIOUS
<1> QED
  BY <1>1, <1>2, <1>3

-----------------------------------------------------------------------------
(* Types                                                                   *)

LEMMA EmptySequence == \A S : <<>> \in Seq(S) /\ Len(<<>>) = 0 /\ DOMAIN <<>> = {}
  OBVIOUS

LEMMA InitType == Init => TypeOK
<1> SUFFICES ASSUME Init PROVE TypeOK
  OBVIOUS
<1>1. LockTypes
  BY DEF Init, LockTypes, Free, Lock
<1>2. TableTypes
  BY EmptySequence, Constants DEF Init, TableTypes
<1>3. ControlTypes
  BY DEF Init, ControlTypes, Labels
<1>4. ReaderTypes
  BY EmptySequence DEF Init, ReaderTypes
<1> QED
  BY <1>1, <1>2, <1>3, <1>4 DEF TypeOK

LEMMA WriteType ==
    ASSUME TypeOK, NEW w \in Writers, WriteBegin(w) \/ WriteStep(w)
    PROVE  TypeOK'
<1> USE DEF tables, channels, rd, Goto, At
<1>0. w \in Goroutines /\ TypeOK
  BY DEF Goroutines
<1>1. ReaderTypes'
  BY <1>0 DEF TypeOK, ReaderTypes, WriteBegin, WriteStep, WriteAppend, PutBegin, Put, WriteReturn
<1>2. ControlTypes'
  BY <1>0, Constants DEF TypeOK, ControlTypes, TableTypes, Labels, WriteBegin, WriteStep,
     WriteAppend, PutBegin, Put, WriteReturn
<1>3. TableTypes'
  <2>1. CASE Put(w)
    BY <1>0, <2>1, AppendIs DEF TypeOK, TableTypes, Put
  <2> QED
    BY <1>0, <2>1 DEF TypeOK, TableTypes, WriteBegin, WriteStep, WriteAppend, PutBegin,
       WriteReturn
<1>4. LockTypes'
  <2>1. CASE WriteBegin(w)
    BY <1>0, <2>1, LockType DEF TypeOK, LockTypes, WriteBegin
  <2>2. CASE WriteAppend(w)
    BY <1>0, <2>2 DEF TypeOK, LockTypes, WriteAppend
  <2>3. CASE PutBegin(w)
    BY <1>0, <2>3, LockType DEF TypeOK, LockTypes, PutBegin
  <2>4. CASE Put(w)
    BY <1>0, <2>4, LockType DEF TypeOK, LockTypes, Put
  <2>5. CASE WriteReturn(w)
    BY <1>0, <2>5, LockType DEF TypeOK, LockTypes, WriteReturn
  <2> QED
    BY <2>1, <2>2, <2>3, <2>4, <2>5 DEF WriteStep
<1> QED
  BY <1>1, <1>2, <1>3, <1>4 DEF TypeOK

LEMMA ReadType ==
    ASSUME TypeOK, Walking, NEW p \in Readers, ReadBegin(p) \/ ReadStep(p)
    PROVE  TypeOK'
<1> USE DEF tables, channels, rd, Goto, At
<1>0. p \in Goroutines /\ TypeOK
  BY DEF Goroutines
<1>1. TableTypes'
  BY <1>0 DEF TypeOK, TableTypes, ReadBegin, ReadStep, Snapshot, ReadLock, GetTable,
     OpenIterator, Exhaust, ScanAbort, ReadReturn
<1>2. ControlTypes'
  BY <1>0 DEF TypeOK, ControlTypes, Labels, ReadBegin, ReadStep, Snapshot, ReadLock,
     GetTable, OpenIterator, Exhaust, ScanAbort, ReadReturn
<1>3. todo[p] \in Seq(Tables)
  BY DEF TypeOK, ReaderTypes
<1>4. todo[p] # <<>> => Head(todo[p]) \in Tables /\ Tail(todo[p]) \in Seq(Tables)
  BY <1>3, TailIs
<1>5. pc[p] = "table" => todo[p] # <<>>
  BY DEF Walking
<1>6. LockTypes' /\ ReaderTypes'
  <2>1. CASE ReadBegin(p)
    <3>1. Len(order) \in Nat
      BY DEF TypeOK, TableTypes
    <3>2. want' \in [Readers -> SUBSET Writers]
      BY <2>1, GoroutinesAssumption DEF TypeOK, ReaderTypes, ReadBegin
    <3>3. ReaderTypes'
      BY <2>1, <3>1, <3>2 DEF TypeOK, ReaderTypes, ReadBegin
    <3>4. mu' \in Lock /\ mt' = mt
      BY <1>0, <2>1, LockType DEF TypeOK, LockTypes, ReadBegin
    <3> QED
      BY <3>3, <3>4 DEF TypeOK, LockTypes
  <2>2. CASE Snapshot(p)
    <3>1. <<active>> \o NewestFirst \in Seq(Tables)
      BY SnapshotIs DEF TypeOK, TableTypes
    <3>2. InFiles \subseteq Writers
      BY DEF TypeOK, TableTypes, InFiles
    <3>3. ReaderTypes'
      BY <2>2, <3>1, <3>2 DEF TypeOK, ReaderTypes, Snapshot
    <3> QED
      BY <1>0, <2>2, <3>3, LockType DEF TypeOK, LockTypes, Snapshot
  <2>3. CASE ReadLock(p)
    BY <1>0, <1>4, <2>3, LockType DEF TypeOK, LockTypes, ReaderTypes, ReadLock
  <2>4. CASE GetTable(p)
    <3>1. held[Head(todo[p])] \subseteq Writers
      BY <1>4, <1>5, <2>4 DEF TypeOK, TableTypes, GetTable
    <3>2. ReaderTypes'
      BY <1>4, <1>5, <2>4, <3>1, EmptySequence DEF TypeOK, ReaderTypes, GetTable
    <3> QED
      BY <1>0, <1>4, <1>5, <2>4, <3>2, LockType DEF TypeOK, LockTypes, GetTable
  <2>5. CASE OpenIterator(p)
    <3>1. held[Head(todo[p])] \subseteq Writers
      BY <1>4, <1>5, <2>5 DEF TypeOK, TableTypes, OpenIterator
    <3>2. ReaderTypes'
      BY <1>4, <1>5, <2>5, <3>1 DEF TypeOK, ReaderTypes, OpenIterator
    <3>3. mt' \in [Tables -> Lock]
      BY <1>0, <1>4, <1>5, <2>5, LockType DEF TypeOK, LockTypes, OpenIterator
    <3> QED
      BY <2>5, <3>2, <3>3 DEF TypeOK, LockTypes, OpenIterator
  <2>6. CASE Exhaust(p)
    <3>1. PICK t \in open[p] : /\ open' = [open EXCEPT ![p] = @ \ {t}]
                               /\ mt' = [mt EXCEPT ![t] = RUnlock(@, p)]
      BY <2>6 DEF Exhaust
    <3>2. t \in Tables
      BY DEF TypeOK, ReaderTypes
    <3>3. ReaderTypes'
      BY <2>6, <3>1 DEF TypeOK, ReaderTypes, Exhaust
    <3> QED
      BY <1>0, <2>6, <3>1, <3>2, <3>3, LockType DEF TypeOK, LockTypes, Exhaust
  <2>7. CASE ScanAbort(p)
    BY <1>0, <2>7, LockType DEF TypeOK, LockTypes, ReaderTypes, ScanAbort
  <2>8. CASE ReadReturn(p)
    BY <2>8 DEF TypeOK, LockTypes, ReaderTypes, ReadReturn
  <2> QED
    BY <2>1, <2>2, <2>3, <2>4, <2>5, <2>6, <2>7, <2>8 DEF ReadStep
<1> QED
  BY <1>1, <1>2, <1>6 DEF TypeOK

LEMMA FreezeType ==
    ASSUME TypeOK, QueueOrder, FreezeStep
    PROVE  TypeOK'
<1> USE DEF tables, channels, rd, Goto, At
<1>0. "freezer" \in Goroutines /\ TypeOK
  BY DEF Goroutines, Workers
<1>1. ControlTypes'
  BY <1>0 DEF TypeOK, ControlTypes, Labels, FreezeStep, FreezeReceive, FreezeLock,
     FreezeSkip, FreezeTable, FreezeRotate, FreezeSignal
<1>2. ReaderTypes'
  BY DEF TypeOK, ReaderTypes, FreezeStep, FreezeReceive, FreezeLock, FreezeSkip, FreezeTable,
     FreezeRotate, FreezeSignal
<1>3. TableTypes'
  <2>1. CASE FreezeRotate
    <3>1. active \in Tables /\ active + 1 \in Tables
      BY <2>1, Constants DEF TypeOK, TableTypes, FreezeRotate, QueueOrder, Tables
    <3> QED
      BY <2>1, <3>1, AppendIs DEF TypeOK, TableTypes, FreezeRotate
  <2> QED
    BY <2>1 DEF TypeOK, TableTypes, FreezeStep, FreezeReceive, FreezeLock, FreezeSkip,
       FreezeTable, FreezeSignal
<1>4. LockTypes'
  <2>1. CASE FreezeLock \/ FreezeSkip
    BY <1>0, <2>1, LockType DEF TypeOK, LockTypes, FreezeLock, FreezeSkip
  <2>2. CASE FreezeTable
    BY <1>0, <2>2, LockType DEF TypeOK, LockTypes, TableTypes, FreezeTable
  <2>3. CASE FreezeRotate
    BY <1>0, <2>3, LockType DEF TypeOK, LockTypes, TableTypes, FreezeRotate
  <2>4. CASE FreezeReceive \/ FreezeSignal
    BY <2>4 DEF TypeOK, LockTypes, FreezeReceive, FreezeSignal
  <2> QED
    BY <2>1, <2>2, <2>3, <2>4 DEF FreezeStep
<1> QED
  BY <1>1, <1>2, <1>3, <1>4 DEF TypeOK

LEMMA FlushType ==
    ASSUME TypeOK, Stored, FlushStep
    PROVE  TypeOK'
<1> USE DEF tables, channels, rd, Goto, At
<1>0. "flusher" \in Goroutines /\ TypeOK
  BY DEF Goroutines, Workers
<1>a. frozen # <<>> => /\ Head(frozen) \in Tables /\ Tail(frozen) \in Seq(Tables)
                        /\ frozen[1] \in Tables
  BY TailIs DEF TypeOK, TableTypes
<1>1. frozen # <<>> => /\ Head(frozen) \in Tables /\ Tail(frozen) \in Seq(Tables)
                        /\ frozen[1] \in Tables /\ Head(frozen) \in Nat
  BY <1>a, Constants
<1>2. pc["flusher"] \in {"picked", "iterating", "written", "swapping"} =>
         frozen # <<>> /\ tab["flusher"] \in Tables
  BY <1>1 DEF Stored
<1>3. ControlTypes'
  <2>1. CASE FlushSnapshot
    <3>1. freezeCh' \in BOOLEAN /\ flushCh' \in BOOLEAN
      BY <2>1 DEF TypeOK, ControlTypes, FlushSnapshot
    <3>2. pc' \in [Goroutines -> Labels]
      BY <1>0, <2>1 DEF TypeOK, ControlTypes, Labels, FlushSnapshot
    <3>3. tab' \in [Goroutines -> Nat]
      BY <1>0, <1>1, <2>1 DEF TypeOK, ControlTypes, FlushSnapshot
    <3> QED
      BY <3>1, <3>2, <3>3 DEF ControlTypes
  <2> QED
    BY <1>0, <2>1 DEF TypeOK, ControlTypes, Labels, FlushStep, FlushBegin,
       FlushIterator, FlushWrite, FlushLock, FlushSwap, FlushSignal
<1>4. ReaderTypes'
  BY DEF TypeOK, ReaderTypes, FlushStep, FlushBegin, FlushSnapshot, FlushIterator, FlushWrite,
     FlushLock, FlushSwap, FlushSignal
<1>5. TableTypes'
  BY <1>1, <1>2 DEF TypeOK, TableTypes, FlushStep, FlushBegin, FlushSnapshot,
     FlushIterator, FlushWrite, FlushLock, FlushSwap, FlushSignal
<1>6. LockTypes'
  <2>1. CASE FlushBegin \/ FlushSnapshot
    BY <1>0, <2>1, LockType DEF TypeOK, LockTypes, FlushBegin, FlushSnapshot
  <2>2. CASE FlushIterator \/ FlushWrite
    <3>1. tab["flusher"] \in Tables /\ mu' = mu
      BY <1>2, <2>2 DEF FlushIterator, FlushWrite
    <3>2. PICK l \in Lock : mt' = [mt EXCEPT ![tab["flusher"]] = l]
      BY <1>0, <2>2, <3>1, LockType DEF TypeOK, LockTypes, FlushIterator, FlushWrite
    <3> QED
      BY <3>1, <3>2 DEF TypeOK, LockTypes
  <2>3. CASE FlushLock \/ FlushSwap
    BY <1>0, <2>3, LockType DEF TypeOK, LockTypes, FlushLock, FlushSwap
  <2>4. CASE FlushSignal
    BY <2>4 DEF TypeOK, LockTypes, FlushSignal
  <2> QED
    BY <2>1, <2>2, <2>3, <2>4 DEF FlushStep
<1> QED
  BY <1>3, <1>4, <1>5, <1>6 DEF TypeOK

-----------------------------------------------------------------------------
(* What a step of one goroutine leaves to the others                       *)

\* The ways in which goroutine p changes a lock.
Moves(l, m, p) ==
    \/ m \in {l, RLock(l, p), RUnlock(l, p)}
    \/ CanAnnounce(l) /\ m = Announce(l, p)
    \/ Exclusive(l, p) /\ m = Unlock(l)

\* None of them takes a lock away from another goroutine.
LEMMA MovesKeep ==
    ASSUME NEW l \in Lock, NEW m, NEW p \in Goroutines, Moves(l, m, p),
           NEW q \in Goroutines, p # q
    PROVE  /\ Shared(l, q) => Shared(m, q)
           /\ Exclusive(l, q) => Exclusive(m, q)
<1>1. CASE m \in {l, RLock(l, p), RUnlock(l, p)}
  BY <1>1, StillShared, StillExclusive
<1>2. CASE CanAnnounce(l) /\ m = Announce(l, p)
  BY <1>2, StillShared, StillExclusive
<1>3. CASE Exclusive(l, p) /\ m = Unlock(l)
  BY <1>3, StillShared, StillExclusive
<1> QED
  BY <1>1, <1>2, <1>3 DEF Moves

Moved(p) ==
    /\ Moves(mu, mu', p)
    /\ \A t \in Tables : Moves(mt[t], mt'[t], p)
    /\ \A q \in Goroutines \ {p} : pc'[q] = pc[q] /\ tab'[q] = tab[q]
    /\ \A q \in Readers \ {p} : /\ todo'[q] = todo[q] /\ open'[q] = open[q]
                               /\ got'[q] = got[q]
                               /\ from'[q] = from[q] /\ want'[q] = want[q]

LEMMA WriteMoves ==
    ASSUME TypeOK, NEW w \in Writers, WriteBegin(w) \/ WriteStep(w)
    PROVE  Moved(w)
<1> USE DEF tables, channels, rd, Goto, At
<1>0. w \in Goroutines /\ w \notin Readers
  BY Constants DEF Goroutines
<1>1. CASE WriteBegin(w)
  BY <1>0, <1>1 DEF TypeOK, ControlTypes, Moved, Moves, WriteBegin
<1>2. CASE WriteAppend(w)
  BY <1>0, <1>2 DEF TypeOK, ControlTypes, Moved, Moves, WriteAppend
<1>3. CASE PutBegin(w)
  BY <1>0, <1>3 DEF TypeOK, ControlTypes, LockTypes, Moved, Moves, PutBegin
<1>4. CASE Put(w)
  BY <1>0, <1>4 DEF TypeOK, ControlTypes, LockTypes, Moved, Moves, Put
<1>5. CASE WriteReturn(w)
  BY <1>0, <1>5 DEF TypeOK, ControlTypes, Moved, Moves, WriteReturn
<1> QED
  BY <1>1, <1>2, <1>3, <1>4, <1>5 DEF WriteStep

LEMMA ReadMoves ==
    ASSUME TypeOK, NEW p \in Readers, ReadBegin(p) \/ ReadStep(p)
    PROVE  Moved(p)
<1> USE DEF tables, channels, rd, Goto, At
<1>0. p \in Goroutines
  BY DEF Goroutines
<1>1. \A q \in Goroutines \ {p} : pc'[q] = pc[q] /\ tab'[q] = tab[q]
  BY DEF TypeOK, ControlTypes, ReadBegin, ReadStep, Snapshot, ReadLock,
     GetTable, OpenIterator, Exhaust, ScanAbort, ReadReturn
<1>2. \A q \in Readers \ {p} : /\ todo'[q] = todo[q] /\ open'[q] = open[q]
                             /\ got'[q] = got[q]
                             /\ from'[q] = from[q] /\ want'[q] = want[q]
  BY DEF TypeOK, ReaderTypes, ReadBegin, ReadStep, Snapshot, ReadLock,
     GetTable, OpenIterator, Exhaust, ScanAbort, ReadReturn
<1>3. Moves(mu, mu', p)
  BY DEF Moves, ReadBegin, ReadStep, Snapshot, ReadLock, GetTable, OpenIterator,
     Exhaust, ScanAbort, ReadReturn
<1>4. ASSUME NEW t \in Tables
      PROVE  Moves(mt[t], mt'[t], p)
  BY DEF TypeOK, LockTypes, Moves, ReadBegin, ReadStep, Snapshot, ReadLock, GetTable,
     OpenIterator, Exhaust, ScanAbort, ReadReturn
<1> QED
  BY <1>1, <1>2, <1>3, <1>4 DEF Moved

LEMMA FreezeMoves ==
    ASSUME TypeOK, Binding, FreezeStep
    PROVE  Moved("freezer")
<1> USE DEF tables, channels, rd, Goto, At
<1>1. \A q \in Goroutines \ {"freezer"} : pc'[q] = pc[q] /\ tab'[q] = tab[q]
  BY DEF TypeOK, ControlTypes, FreezeStep, FreezeReceive, FreezeLock, FreezeSkip,
     FreezeTable, FreezeRotate, FreezeSignal
<1>2. UNCHANGED rd
  BY DEF FreezeStep, FreezeReceive, FreezeLock, FreezeSkip, FreezeTable, FreezeRotate,
     FreezeSignal
<1>3. Moves(mu, mu', "freezer")
  BY DEF Binding, Moves, FreezeStep, FreezeReceive, FreezeLock, FreezeSkip, FreezeTable,
     FreezeRotate, FreezeSignal
<1>4. ASSUME NEW t \in Tables
      PROVE  Moves(mt[t], mt'[t], "freezer")
  BY DEF TypeOK, LockTypes, Moves, FreezeStep, FreezeReceive, FreezeLock, FreezeSkip,
     FreezeTable, FreezeRotate, FreezeSignal
<1> QED
  BY <1>1, <1>2, <1>3, <1>4 DEF Moved

LEMMA FlushMoves ==
    ASSUME TypeOK, FlushStep
    PROVE  Moved("flusher")
<1> USE DEF tables, channels, rd, Goto, At
<1>1. \A q \in Goroutines \ {"flusher"} : pc'[q] = pc[q] /\ tab'[q] = tab[q]
  BY DEF TypeOK, ControlTypes, FlushStep, FlushBegin, FlushSnapshot, FlushIterator,
     FlushWrite, FlushLock, FlushSwap, FlushSignal
<1>2. UNCHANGED rd
  BY DEF FlushStep, FlushBegin, FlushSnapshot, FlushIterator, FlushWrite, FlushLock,
     FlushSwap, FlushSignal
<1>3. Moves(mu, mu', "flusher")
  BY DEF Moves, FlushStep, FlushBegin, FlushSnapshot, FlushIterator, FlushWrite,
     FlushLock, FlushSwap, FlushSignal
<1>4. ASSUME NEW t \in Tables
      PROVE  Moves(mt[t], mt'[t], "flusher")
  BY DEF TypeOK, LockTypes, Moves, FlushStep, FlushBegin, FlushSnapshot, FlushIterator,
     FlushWrite, FlushLock, FlushSwap, FlushSignal
<1> QED
  BY <1>1, <1>2, <1>3, <1>4 DEF Moved

\* A goroutine that does not take the step keeps what it had.
LEMMA OthersKeep ==
    ASSUME TypeOK, NEW p \in Goroutines, Moved(p), NEW q \in Goroutines, q # p
    PROVE  /\ Shared(mu, q) => Shared(mu', q)
           /\ Exclusive(mu, q) => Exclusive(mu', q)
           /\ \A t \in Tables : Shared(mt[t], q) => Shared(mt'[t], q)
  BY MovesKeep DEF TypeOK, LockTypes, Moved

-----------------------------------------------------------------------------
(* The parts of the invariant, one step at a time                          *)

LEMMA BindingStep ==
    ASSUME TypeOK, Binding, Next
    PROVE  Binding'
<1> USE DEF tables, channels, rd, Goto, At
<1>1. ASSUME NEW w \in Writers, WriteBegin(w) \/ WriteStep(w)
      PROVE  Binding'
  <2>0. /\ Moved(w) /\ w \in Goroutines /\ Writers \subseteq Goroutines
        /\ "freezer" \in Goroutines /\ "freezer" # w
        /\ active' = active /\ isFrozen' = isFrozen
    BY <1>1, WriteMoves, Constants DEF Goroutines, Workers, WriteBegin, WriteStep,
       WriteAppend, PutBegin, Put, WriteReturn
  <2>1. pc'["freezer"] = "freezing" => Exclusive(mu', "freezer")
    BY <2>0, OthersKeep DEF Moved, Binding
  <2>2. ASSUME NEW v \in Writers, v # w
        PROVE  /\ pc'[v] \in {"logged", "putting", "stored"} => Shared(mu', v)
               /\ pc'[v] \in {"logged", "putting"} => tab'[v] = active'
    BY <2>0, <2>2, OthersKeep DEF Moved, Binding
  <2>3. /\ pc'[w] \in {"logged", "putting", "stored"} => Shared(mu', w)
        /\ pc'[w] \in {"logged", "putting"} => tab'[w] = active'
    BY <1>1, <2>0 DEF Binding, TypeOK, ControlTypes, WriteBegin, WriteStep,
       WriteAppend, PutBegin, Put, WriteReturn
  <2> QED
    BY <2>0, <2>1, <2>2, <2>3 DEF Binding
<1>2. ASSUME NEW p \in Readers, ReadBegin(p) \/ ReadStep(p)
      PROVE  Binding'
  <2>0. /\ Moved(p) /\ p \in Goroutines /\ Writers \subseteq Goroutines
        /\ p \notin Writers
        /\ "freezer" \in Goroutines /\ "freezer" # p
        /\ active' = active /\ isFrozen' = isFrozen
    BY <1>2, ReadMoves, Constants DEF Goroutines, Workers, ReadBegin, ReadStep, Snapshot,
       ReadLock, GetTable, OpenIterator, Exhaust, ScanAbort, ReadReturn
  <2> QED
    BY <2>0, OthersKeep DEF Moved, Binding
<1>3. CASE FreezeStep
  <2>0. /\ Moved("freezer") /\ Writers \subseteq Goroutines
        /\ "freezer" \in Goroutines /\ "freezer" \notin Writers
    BY <1>3, FreezeMoves, Constants DEF Goroutines, Workers
  <2>1. CASE FreezeRotate
    <3>1. \A w \in Writers : pc[w] \notin {"logged", "putting", "stored"}
      BY <2>1 DEF FreezeRotate, Binding, Exclusive, Shared
    <3>2. \A w \in Writers : pc'[w] \notin {"logged", "putting", "stored"}
      BY <2>0, <3>1 DEF Moved
    <3>3. pc'["freezer"] # "freezing"
      BY <2>0, <2>1 DEF FreezeRotate, TypeOK, ControlTypes
    <3>4. \A t \in isFrozen' : t < active'
      BY <2>1, Constants DEF FreezeRotate, Binding, TypeOK, TableTypes
    <3> QED
      BY <3>2, <3>3, <3>4 DEF Binding
  <2>2. CASE ~FreezeRotate
    <3>1. active' = active /\ isFrozen' = isFrozen
      BY <1>3, <2>2 DEF FreezeStep, FreezeReceive, FreezeLock, FreezeSkip, FreezeTable,
         FreezeSignal
    <3>2. pc'["freezer"] = "freezing" => Exclusive(mu', "freezer")
      BY <1>3, <2>0, <2>2 DEF FreezeStep, FreezeReceive, FreezeLock, FreezeSkip,
         FreezeTable, FreezeSignal, TypeOK, ControlTypes
    <3> QED
      BY <2>0, <3>1, <3>2, OthersKeep DEF Moved, Binding
  <2> QED
    BY <2>1, <2>2
<1>4. CASE FlushStep
  <2>0. /\ Moved("flusher") /\ Writers \subseteq Goroutines
        /\ "freezer" \in Goroutines /\ "flusher" \in Goroutines
        /\ "flusher" \notin Writers
        /\ active' = active /\ isFrozen' = isFrozen
    BY <1>4, FlushMoves, Constants DEF Goroutines, Workers, FlushStep, FlushBegin,
       FlushSnapshot, FlushIterator, FlushWrite, FlushLock, FlushSwap, FlushSignal
  <2> QED
    BY <2>0, OthersKeep DEF Moved, Binding
<1> QED
  BY <1>1, <1>2, <1>3, <1>4 DEF Next, Step

LEMMA QueueOrderStep ==
    ASSUME TypeOK, Binding, QueueOrder, Stored, Next
    PROVE  QueueOrder'
<1> USE DEF tables, channels, rd, Goto, At
<1>0. /\ "freezer" \in Goroutines /\ "flusher" \in Goroutines
      /\ MaxFrozen \in Nat /\ MaxTables \in Nat /\ active \in Nat /\ active \in Tables
      /\ Len(frozen) \in Nat /\ frozen \in Seq(Tables) /\ DOMAIN frozen = 1..Len(frozen)
      /\ \A i \in DOMAIN frozen : frozen[i] \in Nat
  BY Constants, Elements DEF TypeOK, TableTypes, Goroutines, Workers
<1>1. ASSUME UNCHANGED <<frozen, active>>, pc'["freezer"] = pc["freezer"]
      PROVE  QueueOrder'
  BY <1>1 DEF QueueOrder
<1>2. ASSUME NEW w \in Writers, WriteBegin(w) \/ WriteStep(w)
      PROVE  QueueOrder'
  <2>1. pc'["freezer"] = pc["freezer"]
    BY <1>0, <1>2, WriteMoves, Constants DEF Moved
  <2> QED
    BY <1>1, <1>2, <2>1 DEF WriteBegin, WriteStep, WriteAppend, PutBegin, Put, WriteReturn
<1>3. ASSUME NEW p \in Readers, ReadBegin(p) \/ ReadStep(p)
      PROVE  QueueOrder'
  <2>1. pc'["freezer"] = pc["freezer"]
    BY <1>0, <1>3, ReadMoves, Constants DEF Moved
  <2> QED
    BY <1>1, <1>3, <2>1 DEF ReadBegin, ReadStep, Snapshot,
       ReadLock, GetTable, OpenIterator, Exhaust, ScanAbort, ReadReturn
<1>4. CASE FreezeStep
  <2>1. CASE FreezeTable
    <3>1. Len(frozen) < MaxFrozen /\ active < MaxTables
      BY <1>0, <2>1 DEF FreezeTable, CannotRotate, Tables
    <3> QED
      BY <2>1, <3>1 DEF FreezeTable, QueueOrder
  <2>2. CASE FreezeRotate
    <3>1. /\ Len(frozen') = Len(frozen) + 1 /\ DOMAIN frozen' = 1..Len(frozen) + 1
          /\ \A i \in DOMAIN frozen : frozen'[i] = frozen[i]
          /\ frozen'[Len(frozen) + 1] = active
      BY <1>0, <2>2, AppendIs DEF FreezeRotate
    <3>2. pc'["freezer"] # "freezing"
      BY <1>0, <2>2 DEF FreezeRotate, TypeOK, ControlTypes
    <3>3. Len(frozen') <= MaxFrozen
      BY <1>0, <2>2, <3>1 DEF FreezeRotate, QueueOrder
    <3>4. \A i \in DOMAIN frozen' : i \in DOMAIN frozen \/ i = Len(frozen) + 1
      BY <1>0, <3>1
    <3>5. ASSUME NEW i \in DOMAIN frozen', NEW j \in DOMAIN frozen', i < j
          PROVE  frozen'[i] < frozen'[j]
      <4>1. i \in DOMAIN frozen
        BY <1>0, <3>1, <3>5
      <4> QED
        BY <1>0, <3>1, <3>4, <3>5, <4>1 DEF QueueOrder
    <3>6. \A i \in DOMAIN frozen' : frozen'[i] < active'
      BY <1>0, <2>2, <3>1, <3>4 DEF FreezeRotate, QueueOrder
    <3> QED
      BY <3>2, <3>3, <3>5, <3>6 DEF QueueOrder
  <2>3. CASE ~FreezeTable /\ ~FreezeRotate
    <3>1. UNCHANGED <<frozen, active>> /\ pc'["freezer"] # "freezing"
      BY <1>0, <1>4, <2>3 DEF FreezeStep, FreezeReceive, FreezeLock, FreezeSkip,
         FreezeSignal, TypeOK, ControlTypes
    <3> QED
      BY <3>1 DEF QueueOrder
  <2> QED
    BY <2>1, <2>2, <2>3
<1>5. CASE FlushStep
  <2>1. pc'["freezer"] = pc["freezer"] /\ active' = active
    BY <1>0, <1>5, FlushMoves DEF Moved, FlushStep, FlushBegin, FlushSnapshot,
       FlushIterator, FlushWrite, FlushLock, FlushSwap, FlushSignal
  <2>2. CASE FlushSwap
    <3>1. frozen # <<>> /\ frozen' = Tail(frozen)
      BY <2>2 DEF FlushSwap, Stored
    <3>2. /\ Len(frozen') = Len(frozen) - 1
          /\ \A i \in DOMAIN frozen' : /\ i \in Nat /\ i + 1 \in DOMAIN frozen
                                      /\ frozen'[i] = frozen[i + 1]
      BY <1>0, <3>1, TailIs
    <3> QED
      BY <1>0, <2>1, <3>2 DEF QueueOrder
  <2>3. CASE ~FlushSwap
    BY <1>1, <1>5, <2>1, <2>3 DEF FlushStep, FlushBegin, FlushSnapshot,
       FlushIterator, FlushWrite, FlushLock, FlushSignal
  <2> QED
    BY <2>2, <2>3
<1> QED
  BY <1>2, <1>3, <1>4, <1>5 DEF Next, Step

LEMMA WalkingStep ==
    ASSUME TypeOK, Binding, QueueOrder, Walking, Next
    PROVE  Walking'
<1> USE DEF tables, channels, rd, Goto, At
<1>0. /\ Readers \subseteq Goroutines /\ Writers \subseteq Goroutines
      /\ "freezer" \in Goroutines /\ "flusher" \in Goroutines
      /\ active \in Nat /\ active \in Tables /\ active' \in {active, active + 1}
  BY Constants DEF TypeOK, TableTypes, Goroutines, Workers, Next, Step, WriteBegin,
     WriteStep, WriteAppend, PutBegin, Put, WriteReturn, ReadBegin, ReadStep, Snapshot,
     ReadLock, GetTable, OpenIterator, Exhaust, ScanAbort, ReadReturn,
     FreezeStep, FreezeReceive, FreezeLock, FreezeSkip, FreezeTable, FreezeRotate,
     FreezeSignal, FlushStep, FlushBegin, FlushSnapshot, FlushIterator, FlushWrite,
     FlushLock, FlushSwap, FlushSignal
<1> DEFINE W(p) ==
      /\ \A i, j \in DOMAIN todo[p] : i < j => todo[p][j] < todo[p][i]
      /\ \A i \in DOMAIN todo[p] :
           todo[p][i] <= active /\ \A t \in open[p] : todo[p][i] < t
      /\ \A t \in open[p] : Shared(mt[t], p)
      /\ pc[p] \in {"idle", "locking"} => open[p] = {}
      /\ pc[p] = "table" => todo[p] # <<>>
      /\ pc[p] = "done" => todo[p] = <<>>
      /\ p \in Getters => open[p] = {}
<1>1. \A p \in Readers : /\ W(p) /\ todo[p] \in Seq(Tables) /\ open[p] \subseteq Tables
                         /\ DOMAIN todo[p] = 1..Len(todo[p]) /\ Len(todo[p]) \in Nat
                         /\ \A i \in DOMAIN todo[p] : todo[p][i] \in Nat
  <2> SUFFICES ASSUME NEW p \in Readers
               PROVE  /\ W(p) /\ todo[p] \in Seq(Tables) /\ open[p] \subseteq Tables
                      /\ DOMAIN todo[p] = 1..Len(todo[p]) /\ Len(todo[p]) \in Nat
                      /\ \A i \in DOMAIN todo[p] : todo[p][i] \in Nat
    OBVIOUS
  <2>1. W(p)
    BY DEF Walking
  <2>2. todo[p] \in Seq(Tables) /\ open[p] \subseteq Tables
    BY DEF TypeOK, ReaderTypes
  <2> QED
    BY <2>1, <2>2, Elements
<1>2. ASSUME NEW p \in Goroutines, Moved(p), NEW q \in Readers, q # p
      PROVE  W(q)'
  <2>1. q \in Goroutines
    BY <1>0
  <2>2. pc'[q] = pc[q] /\ todo'[q] = todo[q] /\ open'[q] = open[q]
    BY <1>2, <2>1 DEF Moved
  <2>3. \A t \in open[q] : Shared(mt'[t], q)
    BY <1>1, <1>2, <2>1, OthersKeep
  <2>4. \A i \in DOMAIN todo[q] : todo[q][i] <= active'
    BY <1>0, <1>1
  <2> QED
    BY <1>1, <2>2, <2>3, <2>4
<1>3. ASSUME NEW w \in Writers, WriteBegin(w) \/ WriteStep(w)
      PROVE  Walking'
  BY <1>0, <1>2, <1>3, WriteMoves, Constants DEF Walking
<1>4. CASE FreezeStep
  BY <1>0, <1>2, <1>4, FreezeMoves, Constants DEF Walking
<1>5. CASE FlushStep
  BY <1>0, <1>2, <1>5, FlushMoves, Constants DEF Walking
<1>6. ASSUME NEW p \in Readers, ReadBegin(p) \/ ReadStep(p)
      PROVE  Walking'
  <2>1. SUFFICES W(p)'
    BY <1>0, <1>2, <1>6, ReadMoves DEF Walking
  <2>2. active' = active
    BY <1>6 DEF ReadBegin, ReadStep, Snapshot, ReadLock, GetTable, OpenIterator, Exhaust,
       ScanAbort, ReadReturn
  <2>3. p \in Goroutines /\ W(p) /\ todo[p] \in Seq(Tables) /\ open[p] \subseteq Tables
    BY <1>0, <1>1
  <2>4. todo[p] # <<>> =>
          /\ Head(todo[p]) = todo[p][1] /\ 1 \in DOMAIN todo[p]
          /\ \A i \in DOMAIN Tail(todo[p]) : /\ i + 1 \in DOMAIN todo[p] /\ i \in Nat \ {0}
                                          /\ Tail(todo[p])[i] = todo[p][i + 1]
    BY <2>3, TailIs
  <2>4a. todo[p] # <<>> =>
          /\ \A i, j \in DOMAIN Tail(todo[p]) : i < j => Tail(todo[p])[j] < Tail(todo[p])[i]
          /\ \A i \in DOMAIN Tail(todo[p]) :
               /\ Tail(todo[p])[i] <= active' /\ \A t \in open[p] : Tail(todo[p])[i] < t
               /\ Tail(todo[p])[i] < todo[p][1]
    <3> SUFFICES ASSUME todo[p] # <<>>
                 PROVE /\ \A i, j \in DOMAIN Tail(todo[p]) :
                            i < j => Tail(todo[p])[j] < Tail(todo[p])[i]
                       /\ \A i \in DOMAIN Tail(todo[p]) :
                            /\ Tail(todo[p])[i] <= active'
                            /\ \A t \in open[p] : Tail(todo[p])[i] < t
                            /\ Tail(todo[p])[i] < todo[p][1]
      OBVIOUS
    <3>1. \A i \in DOMAIN Tail(todo[p]) : /\ i + 1 \in DOMAIN todo[p] /\ i \in Nat \ {0}
                                          /\ Tail(todo[p])[i] = todo[p][i + 1]
      BY <2>4
    <3>2. ASSUME NEW i \in DOMAIN Tail(todo[p]), NEW j \in DOMAIN Tail(todo[p]), i < j
          PROVE  Tail(todo[p])[j] < Tail(todo[p])[i]
      <4>1. i + 1 < j + 1
        BY <3>1, <3>2
      <4> QED
        BY <2>3, <3>1, <4>1
    <3>3. ASSUME NEW i \in DOMAIN Tail(todo[p])
          PROVE  /\ Tail(todo[p])[i] <= active'
                 /\ \A t \in open[p] : Tail(todo[p])[i] < t
                 /\ Tail(todo[p])[i] < todo[p][1]
      <4>1. 1 < i + 1 /\ 1 \in DOMAIN todo[p] /\ i + 1 \in DOMAIN todo[p]
        BY <2>4, <3>1
      <4> QED
        BY <2>2, <2>3, <3>1, <4>1
    <3> QED
      BY <3>2, <3>3
  <2>5. CASE ReadBegin(p)
    BY <2>2, <2>3, <2>5 DEF ReadBegin, TypeOK, ControlTypes
  <2>6. CASE Snapshot(p)
    <3>1. todo'[p] = <<active>> \o NewestFirst /\ open'[p] = {} /\ pc'[p] = "reading"
      BY <2>3, <2>6 DEF Snapshot, TypeOK, ControlTypes, ReaderTypes
    <3>2. /\ DOMAIN todo'[p] = 1..Len(frozen) + 1 /\ DOMAIN frozen = 1..Len(frozen)
          /\ Len(frozen) \in Nat /\ todo'[p][1] = active
          /\ \A i \in 2..Len(frozen) + 1 : todo'[p][i] = frozen[Len(frozen) + 2 - i]
      BY <1>0, <3>1, SnapshotIs DEF TypeOK, TableTypes
    <3>3. \A i \in 2..Len(frozen) + 1 : /\ todo'[p][i] < active /\ i > 1
                                       /\ Len(frozen) + 2 - i \in DOMAIN frozen
      <4>1. \A i \in 2..Len(frozen) + 1 : i > 1 /\ Len(frozen) + 2 - i \in DOMAIN frozen
        BY <3>2
      <4> QED
        BY <3>2, <4>1 DEF QueueOrder
    <3>4. ASSUME NEW i \in DOMAIN todo'[p], NEW j \in DOMAIN todo'[p], i < j
          PROVE  todo'[p][j] < todo'[p][i]
      <4>1. j \in 2..Len(frozen) + 1
        BY <3>2, <3>4
      <4>2. CASE i = 1
        BY <3>2, <3>3, <4>1, <4>2
      <4>3. CASE i # 1
        <5>1. i \in 2..Len(frozen) + 1
          BY <3>2, <4>3
        <5>2. Len(frozen) + 2 - j < Len(frozen) + 2 - i
          BY <3>2, <3>4
        <5> QED
          BY <3>2, <3>3, <4>1, <5>1, <5>2 DEF QueueOrder
      <4> QED
        BY <4>2, <4>3
    <3>5. \A i \in DOMAIN todo'[p] : todo'[p][i] <= active'
      <4>1. \A i \in DOMAIN todo'[p] : i = 1 \/ i \in 2..Len(frozen) + 1
        BY <3>2
      <4>2. \A i \in 2..Len(frozen) + 1 : todo'[p][i] \in Nat
        BY <3>2, <3>3, Elements DEF TypeOK, TableTypes
      <4> QED
        BY <1>0, <2>2, <3>2, <3>3, <4>1, <4>2
    <3> QED
      BY <3>1, <3>4, <3>5
  <2>7. CASE ReadLock(p)
    <3>1. \A t \in open[p] : Shared(mt'[t], p)
      BY <2>3, <2>7, StillShared DEF ReadLock, TypeOK, LockTypes
    <3> QED
      BY <2>2, <2>3, <2>7, <3>1 DEF ReadLock, TypeOK, ControlTypes
  <2>8. CASE GetTable(p)
    <3>1. todo'[p] \in {<<>>, Tail(todo[p])} /\ open'[p] = {} /\ pc'[p] = "reading"
      BY <2>3, <2>8 DEF GetTable, TypeOK, ControlTypes, ReaderTypes
    <3>2. todo[p] # <<>>
      BY <2>3, <2>8 DEF GetTable
    <3>3. CASE todo'[p] = <<>>
      BY <3>1, <3>3, EmptySequence
    <3>4. CASE todo'[p] = Tail(todo[p])
      BY <2>4a, <3>1, <3>2, <3>4
    <3> QED
      BY <3>1, <3>3, <3>4
  <2>9. CASE OpenIterator(p)
    <3>0. todo[p] # <<>>
      BY <2>3, <2>9 DEF OpenIterator
    <3>1. todo'[p] = Tail(todo[p]) /\ pc'[p] = "reading" /\ p \notin Getters
      BY <2>3, <2>9, Constants DEF OpenIterator, TypeOK, ControlTypes, ReaderTypes
    <3>2. Head(todo[p]) = todo[p][1] /\ Head(todo[p]) \notin open[p]
      BY <1>1, <2>3, <2>4, <2>9 DEF OpenIterator
    <3>3. \A t \in open'[p] : Shared(mt'[t], p) /\ (t \in open[p] \/ t = Head(todo[p]))
      BY <2>3, <2>9, <3>2 DEF OpenIterator, TypeOK, LockTypes, ReaderTypes
    <3>4. \A i, j \in DOMAIN todo'[p] : i < j => todo'[p][j] < todo'[p][i]
      BY <2>4a, <3>1, <3>0
    <3>5. \A i \in DOMAIN todo'[p] :
            todo'[p][i] <= active' /\ \A t \in open'[p] : todo'[p][i] < t
      BY <2>4a, <3>0, <3>1, <3>2, <3>3
    <3> QED
      BY <3>1, <3>3, <3>4, <3>5
  <2>10. CASE Exhaust(p)
    <3>1. PICK t \in open[p] : /\ open' = [open EXCEPT ![p] = @ \ {t}]
                               /\ mt' = [mt EXCEPT ![t] = RUnlock(@, p)]
      BY <2>10 DEF Exhaust
    <3>2. open'[p] = open[p] \ {t}
      BY <3>1 DEF TypeOK, ReaderTypes
    <3>3. \A u \in open'[p] : Shared(mt'[u], p)
      BY <2>3, <3>1, <3>2 DEF TypeOK, LockTypes
    <3> QED
      BY <2>2, <2>3, <2>10, <3>2, <3>3 DEF Exhaust
  <2>11. CASE ScanAbort(p)
    <3>1. open'[p] = {} /\ todo' = todo /\ todo[p] = <<>> /\ pc'[p] = "aborted"
      BY <2>3, <2>11 DEF ScanAbort, TypeOK, ReaderTypes, ControlTypes
    <3> QED
      BY <3>1, EmptySequence
  <2>12. CASE ReadReturn(p)
    BY <2>2, <2>3, <2>12 DEF ReadReturn, TypeOK, ControlTypes
  <2> QED
    BY <1>6, <2>5, <2>6, <2>7, <2>8, <2>9, <2>10, <2>11, <2>12 DEF ReadStep
<1> QED
  BY <1>3, <1>4, <1>5, <1>6 DEF Next, Step

LEMMA StoredStep ==
    ASSUME TypeOK, Binding, QueueOrder, Stored, Next
    PROVE  Stored'
<1> USE DEF tables, channels, rd, Goto, At
<1>0. /\ Readers \subseteq Goroutines /\ Writers \subseteq Goroutines
      /\ "freezer" \in Goroutines /\ "flusher" \in Goroutines
      /\ "flusher" \notin Writers \cup Readers \cup {"freezer"}
      /\ active \in Nat /\ active \in Tables /\ Tables \subseteq Nat
      /\ frozen \in Seq(Tables) /\ order \in Seq(Writers)
      /\ held \in [Tables -> SUBSET Writers] /\ file \in [Tables -> SUBSET Writers]
      /\ sstables \subseteq Tables
  BY Constants DEF TypeOK, TableTypes, Goroutines, Workers
<1>1. /\ Len(frozen) \in Nat /\ DOMAIN frozen = 1..Len(frozen)
      /\ \A i \in DOMAIN frozen : frozen[i] \in Tables /\ frozen[i] < active
      /\ frozen # <<>> => 1 \in DOMAIN frozen
  BY <1>0, Elements DEF QueueOrder
<1> DEFINE busy == {"picked", "iterating", "written", "swapping"}
<1>2. pc["flusher"] \in busy =>
         /\ frozen # <<>> /\ tab["flusher"] = frozen[1]
         /\ tab["flusher"] \in Tables /\ tab["flusher"] < active
  BY <1>1 DEF Stored
<1>3. ASSUME UNCHANGED tables, pc'["flusher"] = pc["flusher"], tab'["flusher"] = tab["flusher"]
      PROVE  Stored'
  BY <1>3 DEF Stored, InStore, HeldIn, PutSoFar
<1>4. ASSUME NEW w \in Writers, WriteBegin(w) \/ WriteStep(w)
      PROVE  Stored'
  <2>1. pc'["flusher"] = pc["flusher"] /\ tab'["flusher"] = tab["flusher"]
    BY <1>0, <1>4, WriteMoves DEF Moved
  <2>2. CASE Put(w)
    <3>1. /\ tab[w] = active /\ UNCHANGED <<active, frozen, file, sstables>>
          /\ held' = [held EXCEPT ![active] = @ \cup {w}] /\ order' = Append(order, w)
      BY <2>2 DEF Put, Binding
    <3>2. /\ held'[active] = held[active] \cup {w}
          /\ \A t \in Tables : t # active => held'[t] = held[t]
      BY <1>0, <3>1
    <3>3. PutSoFar' = PutSoFar \cup {w}
      <4>1. /\ Len(order) \in Nat /\ DOMAIN order = 1..Len(order)
            /\ DOMAIN order' = 1..Len(order) + 1 /\ order'[Len(order) + 1] = w
            /\ \A i \in DOMAIN order : order'[i] = order[i]
        BY <1>0, <3>1, AppendIs
      <4>2. \A i : i \in DOMAIN order' <=> i \in DOMAIN order \/ i = Len(order) + 1
        BY <4>1
      <4> QED
        BY <4>1, <4>2 DEF PutSoFar
    <3>4. InStore' = InStore \cup {w}
      <4>1. ASSUME NEW t \in {active} \cup sstables \cup {frozen[i] : i \in DOMAIN frozen}
            PROVE  t \in Tables
        BY <1>0, <1>1
      <4> QED
        BY <1>0, <3>1, <3>2, <4>1 DEF InStore, HeldIn
    <3>5. PutSoFar' = InStore'
      BY <3>3, <3>4 DEF Stored
    <3>6. \A t \in sstables' : t < active' /\ file'[t] = held'[t]
      BY <1>0, <3>1, <3>2 DEF Stored
    <3>7. \A t \in Tables : t > active' => held'[t] = {}
      BY <1>0, <3>1, <3>2 DEF Stored
    <3>8. pc'["flusher"] \in busy => frozen' # <<>> /\ tab'["flusher"] = frozen'[1]
      BY <1>2, <2>1, <3>1
    <3>9. pc'["flusher"] \in {"written", "swapping"} =>
             file'[tab'["flusher"]] = held'[tab'["flusher"]]
      BY <1>0, <1>2, <2>1, <3>1, <3>2 DEF Stored
    <3> QED
      BY <3>5, <3>6, <3>7, <3>8, <3>9 DEF Stored
  <2>3. CASE ~Put(w)
    BY <1>3, <1>4, <2>1, <2>3 DEF WriteBegin, WriteStep, WriteAppend, PutBegin, WriteReturn
  <2> QED
    BY <2>2, <2>3
<1>5. ASSUME NEW p \in Readers, ReadBegin(p) \/ ReadStep(p)
      PROVE  Stored'
  <2>1. pc'["flusher"] = pc["flusher"] /\ tab'["flusher"] = tab["flusher"]
    BY <1>0, <1>5, ReadMoves DEF Moved
  <2> QED
    BY <1>3, <1>5, <2>1 DEF ReadBegin, ReadStep, Snapshot,
       ReadLock, GetTable, OpenIterator, Exhaust, ScanAbort, ReadReturn
<1>6. CASE FreezeStep
  <2>1. pc'["flusher"] = pc["flusher"] /\ tab'["flusher"] = tab["flusher"]
    BY <1>0, <1>6, FreezeMoves DEF Moved
  <2>2. CASE FreezeRotate
    <3>1. /\ frozen' = Append(frozen, active) /\ active' = active + 1
          /\ UNCHANGED <<held, file, sstables, order>>
          /\ active + 1 \in Tables /\ active + 1 > active
      BY <1>0, <2>2, Constants DEF FreezeRotate, QueueOrder, Tables
    <3>2. /\ DOMAIN frozen' = 1..Len(frozen) + 1
          /\ \A i \in DOMAIN frozen : frozen'[i] = frozen[i]
          /\ frozen'[Len(frozen) + 1] = active
      BY <1>0, <3>1, AppendIs
    <3>3. {frozen'[i] : i \in DOMAIN frozen'} = {frozen[i] : i \in DOMAIN frozen} \cup {active}
      <4>1. \A i : i \in DOMAIN frozen' <=> i \in DOMAIN frozen \/ i = Len(frozen) + 1
        BY <1>1, <3>2
      <4> QED
        BY <3>2, <4>1
    <3>4. held[active + 1] = {}
      BY <3>1 DEF Stored
    <3>5. InStore' = InStore
      BY <3>1, <3>3, <3>4 DEF InStore, HeldIn
    <3>6. pc'["flusher"] \in busy => frozen' # <<>> /\ tab'["flusher"] = frozen'[1]
      <4>1. frozen' # <<>>
        BY <1>1, <3>2, EmptySequence
      <4> QED
        BY <1>1, <1>2, <2>1, <3>2, <4>1
    <3>7. \A t \in sstables' : t < active' /\ file'[t] = held'[t]
      BY <1>0, <3>1 DEF Stored
    <3>8. \A t \in Tables : t > active' => held'[t] = {}
      BY <1>0, <3>1 DEF Stored
    <3>9. PutSoFar' = PutSoFar
      BY <3>1 DEF PutSoFar
    <3>10. pc'["flusher"] \in {"written", "swapping"} =>
              file'[tab'["flusher"]] = held'[tab'["flusher"]]
      BY <2>1, <3>1 DEF Stored
    <3> QED
      BY <3>5, <3>6, <3>7, <3>8, <3>9, <3>10 DEF Stored
  <2>3. CASE ~FreezeRotate
    BY <1>3, <1>6, <2>1, <2>3 DEF FreezeStep, FreezeReceive, FreezeLock, FreezeSkip,
       FreezeTable, FreezeSignal
  <2> QED
    BY <2>2, <2>3
<1>7. CASE FlushStep
  <2> USE DEF TypeOK, ControlTypes
  <2>6. ASSUME UNCHANGED <<held, active, frozen, sstables, order>>
        PROVE  InStore' = InStore /\ PutSoFar' = PutSoFar
    BY <2>6 DEF InStore, HeldIn, PutSoFar
  <2>1. CASE FlushBegin \/ FlushSignal
    <3>1. UNCHANGED tables /\ pc'["flusher"] \notin busy
      BY <1>0, <2>1 DEF FlushBegin, FlushSignal
    <3>2. UNCHANGED tables
      BY <3>1
    <3> QED
      BY <2>6, <3>1, <3>2 DEF Stored
  <2>2. CASE FlushSnapshot
    <3>1. UNCHANGED tables /\ pc'["flusher"] \notin {"written", "swapping"}
      BY <1>0, <2>2 DEF FlushSnapshot
    <3>2. pc'["flusher"] \in busy => frozen # <<>> /\ tab'["flusher"] = frozen[1]
      BY <1>0, <2>2 DEF FlushSnapshot
    <3>3. UNCHANGED tables
      BY <3>1
    <3> QED
      BY <2>6, <3>1, <3>2, <3>3 DEF Stored
  <2>3. CASE FlushIterator \/ FlushLock
    <3>1. /\ UNCHANGED tables /\ tab' = tab /\ pc["flusher"] \in busy
          /\ pc'["flusher"] \in {"written", "swapping"} =>
                pc["flusher"] \in {"written", "swapping"}
      BY <1>0, <2>3 DEF FlushIterator, FlushLock
    <3>2. UNCHANGED tables
      BY <3>1
    <3> QED
      BY <2>6, <3>1, <3>2 DEF Stored
  <2>4. CASE FlushWrite
    <3>1. /\ UNCHANGED <<held, active, frozen, sstables, order, tab>>
          /\ pc["flusher"] \in busy
          /\ file' = [file EXCEPT ![tab["flusher"]] = held[tab["flusher"]]]
      BY <2>4 DEF FlushWrite
    <3>2. file'[tab["flusher"]] = held[tab["flusher"]]
      BY <1>0, <1>2, <3>1
    <3>3. \A t \in sstables : file'[t] = held[t]
      BY <1>0, <1>2, <3>1 DEF Stored
    <3>4. UNCHANGED <<held, active, frozen, sstables, order, tab>>
      BY <3>1
    <3> QED
      BY <2>6, <3>1, <3>2, <3>3, <3>4 DEF Stored
  <2>5. CASE FlushSwap
    <3>1. /\ UNCHANGED <<held, active, file, order, tab>>
          /\ pc["flusher"] = "swapping" /\ pc'["flusher"] \notin busy
          /\ frozen' = Tail(frozen) /\ sstables' = sstables \cup {tab["flusher"]}
          /\ frozen # <<>> /\ tab["flusher"] = frozen[1]
      BY <1>0, <1>2, <2>5 DEF FlushSwap
    <3>2. {frozen[i] : i \in DOMAIN frozen} =
             {frozen'[i] : i \in DOMAIN frozen'} \cup {tab["flusher"]}
      <4>1. /\ \A i \in DOMAIN frozen' : /\ i + 1 \in DOMAIN frozen
                                        /\ frozen'[i] = frozen[i + 1]
            /\ \A i \in DOMAIN frozen : i = 1 \/ i - 1 \in DOMAIN frozen'
            /\ 1 \in DOMAIN frozen
        BY <1>0, <3>1, TailIs
      <4>2. ASSUME NEW i \in DOMAIN frozen, i # 1
            PROVE  frozen[i] = frozen'[i - 1] /\ i - 1 \in DOMAIN frozen'
        <5>1. i - 1 \in DOMAIN frozen' /\ i \in Nat
          BY <1>1, <4>1, <4>2
        <5>2. frozen'[i - 1] = frozen[(i - 1) + 1] /\ (i - 1) + 1 = i
          BY <4>1, <5>1
        <5> QED
          BY <5>1, <5>2
      <4> QED
        BY <3>1, <4>1, <4>2
    <3>3. InStore' = InStore
      BY <3>1, <3>2 DEF InStore, HeldIn
    <3>4. \A t \in sstables' : t < active' /\ file'[t] = held'[t]
      BY <1>2, <3>1 DEF Stored
    <3>5. PutSoFar' = PutSoFar
      BY <3>1 DEF PutSoFar
    <3>6. \A t \in Tables : t > active' => held'[t] = {}
      BY <3>1 DEF Stored
    <3> QED
      BY <3>1, <3>3, <3>4, <3>5, <3>6 DEF Stored
  <2> QED
    BY <1>7, <2>1, <2>2, <2>3, <2>4, <2>5 DEF FlushStep
<1> QED
  BY <1>4, <1>5, <1>6, <1>7 DEF Next, Step

-----------------------------------------------------------------------------
(* What a reader finds                                                     *)

LEMMA RecordsTail ==
    ASSUME NEW s \in Seq(Tables), s # <<>>
    PROVE  Records(held, s) = held[Head(s)] \cup Records(held, Tail(s))
<1>1. /\ Head(s) = s[1] /\ 1 \in DOMAIN s
      /\ \A i \in DOMAIN Tail(s) : Tail(s)[i] = s[i + 1] /\ i + 1 \in DOMAIN s
      /\ \A i \in DOMAIN s : i = 1 \/ i - 1 \in DOMAIN Tail(s)
  BY TailIs
<1>2. ASSUME NEW i \in DOMAIN s, i # 1
      PROVE  i - 1 \in DOMAIN Tail(s) /\ s[i] = Tail(s)[i - 1]
  <2>1. i - 1 \in DOMAIN Tail(s) /\ i \in Nat
    BY <1>1, <1>2, Elements
  <2>2. Tail(s)[i - 1] = s[(i - 1) + 1] /\ (i - 1) + 1 = i
    BY <1>1, <2>1
  <2> QED
    BY <2>1, <2>2
<1> QED
  BY <1>1, <1>2 DEF Records

LEMMA RecordsEmpty == Records(held, <<>>) = {}
  BY EmptySequence DEF Records

\* A Put adds to what the active MemTable is going to give, and to nothing else.
LEMMA RecordsPut ==
    ASSUME TypeOK, NEW w, held' = [held EXCEPT ![active] = @ \cup {w}],
           NEW s \in Seq(Tables)
    PROVE  /\ Records(held, s) \subseteq Records(held', s)
           /\ (\A i \in DOMAIN s : s[i] # active) => Records(held', s) = Records(held, s)
           /\ (\E i \in DOMAIN s : s[i] = active) => Records(held', s) = Records(held, s) \cup {w}
<1>1. \A i \in DOMAIN s : s[i] \in Tables
  BY Elements
<1>2. /\ held'[active] = held[active] \cup {w}
      /\ \A t \in Tables : t # active => held'[t] = held[t]
  BY DEF TypeOK, TableTypes
<1>3. \A i \in DOMAIN s :
        /\ held[s[i]] \subseteq held'[s[i]]
        /\ s[i] # active => held'[s[i]] = held[s[i]]
        /\ held'[s[i]] \subseteq held[s[i]] \cup {w}
        /\ s[i] = active => w \in held'[s[i]]
  BY <1>1, <1>2
<1>4. /\ \A x : x \in Records(held, s) <=> \E i \in DOMAIN s : x \in held[s[i]]
      /\ \A x : x \in Records(held', s) <=> \E i \in DOMAIN s : x \in held'[s[i]]
  BY DEF Records
<1>5. ASSUME NEW x \in Records(held, s)
      PROVE  x \in Records(held', s)
  <2>1. PICK i \in DOMAIN s : x \in held[s[i]]
    BY <1>4
  <2>2. x \in held'[s[i]]
    BY <1>3, <2>1
  <2> QED
    BY <1>4, <2>2
<1>6. ASSUME NEW x \in Records(held', s)
      PROVE  /\ x \in Records(held, s) \cup {w}
             /\ (\A i \in DOMAIN s : s[i] # active) => x \in Records(held, s)
  <2>1. PICK i \in DOMAIN s : x \in held'[s[i]]
    BY <1>4
  <2>2. /\ x \in held[s[i]] \cup {w}
        /\ s[i] # active => x \in held[s[i]]
    BY <1>3, <2>1
  <2> QED
    BY <1>4, <2>2
<1>7. ASSUME NEW i \in DOMAIN s, s[i] = active
      PROVE  w \in Records(held', s)
  <2>1. w \in held'[s[i]]
    BY <1>2, <1>7
  <2> QED
    BY <1>4, <2>1
<1>8. Records(held, s) \subseteq Records(held', s)
  BY <1>5
<1>9. (\A i \in DOMAIN s : s[i] # active) => Records(held', s) = Records(held, s)
  BY <1>5, <1>6
<1>10. (\E i \in DOMAIN s : s[i] = active) => Records(held', s) = Records(held, s) \cup {w}
  BY <1>5, <1>6, <1>7
<1> QED
  BY <1>8, <1>9, <1>10

LEMMA FirstAppend ==
    ASSUME order \in Seq(Writers), NEW w \in Writers, order' = Append(order, w)
    PROVE  /\ Len(order) \in Nat /\ Len(order)' = Len(order) + 1
           /\ \A k \in 0..Len(order) : First(k)' = First(k)
           /\ First(Len(order))' = First(Len(order)) \cup {w}
<1>1. /\ Len(order) \in Nat /\ Len(order') = Len(order) + 1
      /\ order'[Len(order) + 1] = w
      /\ \A i \in 1..Len(order) : order'[i] = order[i]
  BY AppendIs
<1>2. \A k \in 0..Len(order) : First(k)' = First(k)
  <2> SUFFICES ASSUME NEW k \in 0..Len(order) PROVE First(k)' = First(k)
    OBVIOUS
  <2>1. \A i \in 1..k : i \in 1..Len(order)
    BY <1>1
  <2> QED
    BY <1>1, <2>1 DEF First
<1>3. \A i : i \in 1..Len(order) + 1 <=> i \in 1..Len(order) \/ i = Len(order) + 1
  BY <1>1
<1>4. First(Len(order))' = {order'[i] : i \in 1..Len(order) + 1}
  BY <1>1 DEF First
<1>5. First(Len(order)) = {order[i] : i \in 1..Len(order)}
  BY DEF First
<1>6. First(Len(order))' = First(Len(order)) \cup {w}
  BY <1>1, <1>3, <1>4, <1>5
<1> QED
  BY <1>1, <1>2, <1>6

\* What a snapshot is going to find is the whole store.
LEMMA SnapshotCovers ==
    ASSUME TypeOK, Stored
    PROVE  InFiles \cup Records(held, <<active>> \o NewestFirst)
              = First(Len(order))
<1> DEFINE s == <<active>> \o NewestFirst
<1>1. /\ active \in Tables /\ frozen \in Seq(Tables) /\ order \in Seq(Writers)
  BY DEF TypeOK, TableTypes
<1>2. /\ DOMAIN s = 1..Len(frozen) + 1 /\ DOMAIN frozen = 1..Len(frozen)
      /\ Len(frozen) \in Nat /\ s[1] = active
      /\ \A i \in 2..Len(frozen) + 1 : s[i] = frozen[Len(frozen) + 2 - i]
  BY <1>1, SnapshotIs
<1>3. \A i \in DOMAIN s : i = 1 \/ i \in 2..Len(frozen) + 1
  BY <1>2
<1>3a. \A i \in 2..Len(frozen) + 1 : Len(frozen) + 2 - i \in DOMAIN frozen
  BY <1>2
<1>4. ASSUME NEW j \in DOMAIN frozen
      PROVE  \E i \in DOMAIN s : s[i] = frozen[j]
  <2>1. /\ Len(frozen) + 2 - j \in 2..Len(frozen) + 1
        /\ Len(frozen) + 2 - (Len(frozen) + 2 - j) = j
        /\ Len(frozen) + 2 - j \in DOMAIN s
    BY <1>2
  <2> QED
    BY <1>2, <2>1
<1>5. {s[i] : i \in DOMAIN s} = {active} \cup {frozen[i] : i \in DOMAIN frozen}
  <2>1. 1 \in DOMAIN s
    BY <1>2
  <2>2. \A i \in DOMAIN s : s[i] = active \/ \E j \in DOMAIN frozen : s[i] = frozen[j]
    BY <1>2, <1>3, <1>3a
  <2>3. \A x : x \in {s[i] : i \in DOMAIN s} =>
                x \in {active} \cup {frozen[i] : i \in DOMAIN frozen}
    BY <2>2
  <2>4. \A x : x \in {active} \cup {frozen[i] : i \in DOMAIN frozen} =>
                x \in {s[i] : i \in DOMAIN s}
    BY <1>2, <1>4, <2>1
  <2> QED
    BY <2>3, <2>4
<1> DEFINE Q == {frozen[i] : i \in DOMAIN frozen}
<1>6. Records(held, s) = HeldIn({active} \cup Q)
  BY <1>5 DEF Records, HeldIn
<1>7. InFiles = HeldIn(sstables)
  BY DEF Stored, HeldIn, InFiles
<1>8. First(Len(order)) = PutSoFar
  BY <1>1 DEF First, PutSoFar
<1>9. ASSUME NEW S, NEW T
      PROVE  HeldIn(S) \cup HeldIn(T) = HeldIn(S \cup T)
  BY DEF HeldIn
<1>10. HeldIn(sstables) \cup HeldIn({active} \cup Q) = HeldIn(sstables \cup ({active} \cup Q))
  BY <1>9
<1>11. sstables \cup ({active} \cup Q) = {active} \cup sstables \cup Q
  OBVIOUS
<1>12. InStore = HeldIn(sstables \cup ({active} \cup Q))
  BY <1>11 DEF InStore
<1>13. PutSoFar = InStore
  BY DEF Stored
<1> QED
  BY <1>6, <1>7, <1>8, <1>10, <1>12, <1>13

LEMMA CoveredStep ==
    ASSUME TypeOK, Binding, QueueOrder, Walking, Stored, Covered, Next
    PROVE  Covered'
<1> USE DEF tables, channels, rd, Goto, At
<1> DEFINE reached == {"reading", "table", "done"}
<1> DEFINE C(p) ==
      /\ from[p] <= Len(order)
      /\ p \in Scanners /\ pc[p] \in reached =>
           /\ \E k \in from[p]..Len(order) : Cover(p) = First(k)
           /\ todo[p] # <<>> /\ todo[p][1] = active => Cover(p) = First(Len(order))
      /\ p \in Getters /\ pc[p] \in reached =>
           want[p] \cap First(from[p]) \subseteq Cover(p)
<1>0. /\ Readers \subseteq Goroutines /\ Writers \subseteq Goroutines
      /\ "freezer" \in Goroutines /\ "flusher" \in Goroutines
      /\ Scanners \subseteq Readers /\ Getters \subseteq Readers
      /\ active \in Nat /\ active \in Tables /\ order \in Seq(Writers)
      /\ Len(order) \in Nat
  BY Constants, AppendIs DEF TypeOK, TableTypes, Goroutines, Workers, Readers
<1>1. SUFFICES ASSUME NEW p \in Readers PROVE C(p)'
  BY <1>0 DEF Covered
<1>2. /\ C(p) /\ from[p] \in Nat /\ todo[p] \in Seq(Tables)
      /\ got[p] \subseteq Writers /\ want[p] \subseteq Writers
  BY <1>0 DEF Covered, TypeOK, ReaderTypes
<1>3. /\ DOMAIN todo[p] = 1..Len(todo[p]) /\ Len(todo[p]) \in Nat
      /\ \A i \in DOMAIN todo[p] : todo[p][i] \in Nat /\ todo[p][i] <= active
      /\ todo[p] # <<>> => 1 \in DOMAIN todo[p]
      /\ todo[p] = <<>> => DOMAIN todo[p] = {}
  BY <1>2, Elements, EmptySequence DEF Walking
\* What does not touch the reader and leaves the store alone.
<1>4. ASSUME UNCHANGED <<held, order>>, pc'[p] = pc[p], todo'[p] = todo[p],
             got'[p] = got[p], from'[p] = from[p], want'[p] = want[p],
             todo[p] # <<>> /\ todo[p][1] = active' => active' = active
      PROVE  C(p)'
  <2>1. Cover(p)' = Cover(p)
    BY <1>4 DEF Cover
  <2>2. \A k : First(k)' = First(k)
    BY <1>4 DEF First
  <2>3. First(Len(order))' = First(Len(order)) /\ First(from[p])' = First(from[p])
    BY <1>4 DEF First
  <2> QED
    BY <1>2, <1>4, <2>1, <2>2, <2>3
<1>5. ASSUME NEW w \in Writers, WriteBegin(w) \/ WriteStep(w)
      PROVE  C(p)'
  <2>1. /\ pc'[p] = pc[p] /\ todo'[p] = todo[p] /\ got'[p] = got[p]
        /\ from'[p] = from[p] /\ want'[p] = want[p]
    BY <1>0, <1>5, WriteMoves, Constants DEF Moved
  <2>2. CASE Put(w)
    <3>1. /\ held' = [held EXCEPT ![active] = @ \cup {w}] /\ order' = Append(order, w)
          /\ active' = active
      BY <2>2 DEF Put, Binding
    <3>2. /\ Len(order)' = Len(order) + 1
          /\ \A k \in 0..Len(order) : First(k)' = First(k)
          /\ First(Len(order))' = First(Len(order)) \cup {w}
      BY <1>0, <3>1, FirstAppend
    <3>3. Cover(p)' = got[p] \cup Records(held', todo[p])
      BY <2>1 DEF Cover
    <3>4. Cover(p) \subseteq Cover(p)'
      <4>1. Records(held, todo[p]) \subseteq Records(held', todo[p])
        BY <1>2, <3>1, RecordsPut
      <4> QED
        BY <3>3, <4>1 DEF Cover
    <3>5. from'[p] <= Len(order)'
      BY <1>0, <1>2, <2>1, <3>2
    <3>6. First(from[p])' = First(from[p])
      <4>1. from[p] \in 0..Len(order)
        BY <1>0, <1>2
      <4>2. First(from[p])' = {order'[i] : i \in 1..from[p]}
        BY <2>1 DEF First
      <4>3. \A i \in 1..from[p] : order'[i] = order[i]
        BY <1>0, <1>2, <3>1, AppendIs
      <4> QED
        BY <4>2, <4>3 DEF First
    <3>7. p \in Getters /\ pc'[p] \in reached =>
             want'[p] \cap First(from[p])' \subseteq Cover(p)'
      BY <1>2, <2>1, <3>4, <3>6
    <3>8. ASSUME p \in Scanners, pc[p] \in reached
          PROVE  /\ \E k \in from[p]..Len(order') : Cover(p)' = First(k)'
                 /\ todo[p] # <<>> /\ todo[p][1] = active => Cover(p)' = First(Len(order))'
      <4>1. CASE todo[p] # <<>> /\ todo[p][1] = active
        <5>1. Cover(p) = First(Len(order))
          BY <1>2, <3>8, <4>1
        <5>2. Records(held', todo[p]) = Records(held, todo[p]) \cup {w}
          BY <1>2, <1>3, <3>1, <4>1, RecordsPut
        <5>3. Cover(p)' = First(Len(order))'
          BY <3>2, <3>3, <5>1, <5>2 DEF Cover
        <5>4. Len(order') \in from[p]..Len(order')
          BY <1>0, <1>2, <3>2
        <5> QED
          BY <5>3, <5>4
      <4>2. CASE ~(todo[p] # <<>> /\ todo[p][1] = active)
        <5>1. \A i \in DOMAIN todo[p] : todo[p][i] # active
          <6> SUFFICES ASSUME NEW i \in DOMAIN todo[p] PROVE todo[p][i] # active
            OBVIOUS
          <6>1. todo[p] # <<>> /\ todo[p][1] # active /\ 1 \in DOMAIN todo[p]
            BY <1>3, <4>2
          <6>2. i # 1 => todo[p][i] < todo[p][1]
            <7>1. i # 1 => 1 < i
              BY <1>3
            <7> QED
              BY <6>1, <7>1 DEF Walking
          <6>3. todo[p][1] <= active /\ todo[p][1] \in Nat /\ todo[p][i] \in Nat
            BY <1>3, <6>1
          <6> QED
            BY <1>0, <6>1, <6>2, <6>3
        <5>2. Records(held', todo[p]) = Records(held, todo[p])
          BY <1>2, <3>1, <5>1, RecordsPut
        <5>3. Cover(p)' = Cover(p)
          BY <3>3, <5>2 DEF Cover
        <5>4. PICK k \in from[p]..Len(order) : Cover(p) = First(k)
          BY <1>2, <3>8
        <5>5. k \in 0..Len(order) /\ k \in from[p]..Len(order')
          BY <1>0, <1>2, <3>2
        <5>6. First(k)' = First(k)
          BY <3>2, <5>5
        <5> QED
          BY <4>2, <5>3, <5>4, <5>5, <5>6
      <4> QED
        BY <4>1, <4>2
    <3> QED
      BY <2>1, <3>1, <3>5, <3>7, <3>8
  <2>3. CASE ~Put(w)
    BY <1>4, <1>5, <2>1, <2>3 DEF WriteBegin, WriteStep, WriteAppend, PutBegin, WriteReturn
  <2> QED
    BY <2>2, <2>3
<1>6. CASE FreezeStep
  <2>1. /\ pc'[p] = pc[p] /\ todo'[p] = todo[p] /\ got'[p] = got[p]
        /\ from'[p] = from[p] /\ want'[p] = want[p]
    BY <1>0, <1>6, FreezeMoves, Constants DEF Moved
  <2>2. UNCHANGED <<held, order>> /\ active' \in {active, active + 1}
    BY <1>6 DEF FreezeStep, FreezeReceive, FreezeLock, FreezeSkip, FreezeTable,
       FreezeRotate, FreezeSignal
  <2>3. todo[p] # <<>> /\ todo[p][1] = active' => active' = active
    BY <1>0, <1>3, <2>2
  <2> QED
    BY <1>4, <2>1, <2>2, <2>3
<1>7. CASE FlushStep
  <2>1. /\ pc'[p] = pc[p] /\ todo'[p] = todo[p] /\ got'[p] = got[p]
        /\ from'[p] = from[p] /\ want'[p] = want[p]
    BY <1>0, <1>7, FlushMoves, Constants DEF Moved
  <2>2. UNCHANGED <<held, order, active>>
    BY <1>7 DEF FlushStep, FlushBegin, FlushSnapshot, FlushIterator, FlushWrite,
       FlushLock, FlushSwap, FlushSignal
  <2> QED
    BY <1>4, <2>1, <2>2
<1>8. ASSUME NEW q \in Readers, ReadBegin(q) \/ ReadStep(q)
      PROVE  C(p)'
  <2>1. UNCHANGED <<held, order, active>>
    BY <1>8 DEF ReadBegin, ReadStep, Snapshot, ReadLock, GetTable, OpenIterator, Exhaust,
       ScanAbort, ReadReturn
  <2>2. CASE q # p
    BY <1>0, <1>4, <1>8, <2>1, <2>2, ReadMoves DEF Moved
  <2>3. CASE q = p
    <3>0. /\ \A k : First(k)' = First(k)
          /\ Len(order)' = Len(order) /\ First(Len(order))' = First(Len(order))
          /\ p \in Goroutines
      BY <1>0, <2>1 DEF First
    <3>1. CASE ReadBegin(p)
      BY <1>0, <1>2, <3>0, <3>1 DEF ReadBegin, TypeOK, ControlTypes, ReaderTypes
    <3>2. CASE Snapshot(p)
      <4>1. /\ todo'[p] = <<active>> \o NewestFirst /\ from'[p] = from[p]
            /\ got'[p] = InFiles /\ want'[p] = want[p]
        BY <1>0, <3>2 DEF Snapshot, TypeOK, ReaderTypes
      <4>2. Cover(p)' = First(Len(order))
        <5>1. Cover(p)' = InFiles \cup Records(held, <<active>> \o NewestFirst)
          BY <2>1, <4>1 DEF Cover
        <5> QED
          BY <5>1, SnapshotCovers
      <4>3. Len(order) \in from[p]..Len(order)
        BY <1>0, <1>2
      <4>4. First(from[p])' = First(from[p]) /\ First(from[p]) \subseteq First(Len(order))
        <5>1. \A i \in 1..from[p] : i \in 1..Len(order)
          BY <1>0, <1>2
        <5> QED
          BY <2>1, <4>1, <5>1 DEF First
      <4> QED
        BY <1>2, <3>0, <4>1, <4>2, <4>3, <4>4
    <3>3. CASE ReadLock(p)
      <4>1. pc[p] \in reached /\ UNCHANGED <<todo, got, from, want>>
        BY <3>3 DEF ReadLock
      <4>2. Cover(p)' = Cover(p) /\ First(from[p])' = First(from[p])
        BY <2>1, <4>1 DEF Cover, First
      <4> QED
        BY <1>2, <2>1, <3>0, <4>1, <4>2
    <3>4. CASE GetTable(p)
      <4>0. /\ p \in Getters /\ p \notin Scanners /\ pc[p] \in reached /\ todo[p] # <<>>
            /\ from' = from /\ want' = want
        BY <3>4, Constants DEF GetTable, Walking
      <4>1. /\ got'[p] = got[p] \cup held[Head(todo[p])]
            /\ todo'[p] = IF want[p] \subseteq held[Head(todo[p])] THEN <<>> ELSE Tail(todo[p])
        BY <1>0, <3>4 DEF GetTable, TypeOK, ReaderTypes
      <4>2. Records(held, todo[p]) = held[Head(todo[p])] \cup Records(held, Tail(todo[p]))
        BY <1>2, <4>0, RecordsTail
      <4>3. First(from[p])' = First(from[p])
        BY <2>1, <4>0 DEF First
      <4>4. CASE want[p] \subseteq held[Head(todo[p])]
        <5>1. want[p] \subseteq Cover(p)'
          BY <4>1, <4>4 DEF Cover
        <5> QED
          BY <1>2, <3>0, <4>0, <4>3, <5>1
      <4>5. CASE ~(want[p] \subseteq held[Head(todo[p])])
        <5>2. Cover(p)' = Cover(p)
          BY <2>1, <4>1, <4>2, <4>5 DEF Cover
        <5> QED
          BY <1>2, <3>0, <4>0, <4>3, <5>2
      <4> QED
        BY <4>4, <4>5
    <3>5. CASE OpenIterator(p)
      <4>0. /\ p \in Scanners /\ p \notin Getters /\ pc[p] \in reached /\ todo[p] # <<>>
            /\ from' = from
        BY <3>5, Constants DEF OpenIterator, Walking
      <4>1. /\ got'[p] = got[p] \cup held[Head(todo[p])]
            /\ todo'[p] = Tail(todo[p])
        BY <1>0, <3>5 DEF OpenIterator, TypeOK, ReaderTypes
      <4>2. Records(held, todo[p]) = held[Head(todo[p])] \cup Records(held, Tail(todo[p]))
        BY <1>2, <4>0, RecordsTail
      <4>4. Cover(p)' = Cover(p)
        BY <2>1, <4>1, <4>2 DEF Cover
      <4>5. todo'[p] # <<>> => todo'[p][1] # active
        <5> SUFFICES ASSUME Tail(todo[p]) # <<>> PROVE Tail(todo[p])[1] # active
          BY <4>1
        <5>1. Tail(todo[p])[1] = todo[p][2] /\ 2 \in DOMAIN todo[p]
          <6>1. Tail(todo[p]) \in Seq(Tables)
            BY <1>2, <4>0, TailIs
          <6>2. 1 \in DOMAIN Tail(todo[p])
            BY <6>1, TailIs
          <6> QED
            BY <1>2, <4>0, <6>2, TailIs
        <5>2. todo[p][2] < todo[p][1] /\ todo[p][1] <= active
          BY <1>3, <4>0, <5>1 DEF Walking
        <5> QED
          BY <1>0, <1>3, <4>0, <5>1, <5>2
      <4> QED
        BY <1>2, <2>1, <3>0, <4>0, <4>4, <4>5
    <3>6. CASE Exhaust(p) \/ ReadReturn(p)
      <4>1. pc[p] \in reached /\ UNCHANGED <<todo, got, from, want>>
        BY <3>6 DEF Exhaust, ReadReturn
      <4>2. Cover(p)' = Cover(p) /\ First(from[p])' = First(from[p])
        BY <2>1, <4>1 DEF Cover, First
      <4> QED
        BY <1>2, <2>1, <3>0, <4>1, <4>2
    <3>7. CASE ScanAbort(p)
      <4>1. pc'[p] \notin reached /\ from' = from
        BY <1>0, <3>7 DEF ScanAbort, TypeOK, ControlTypes
      <4> QED
        BY <1>2, <3>0, <4>1
    <3> QED
      BY <1>8, <2>3, <3>1, <3>2, <3>3, <3>4, <3>5, <3>6, <3>7 DEF ReadStep
  <2> QED
    BY <2>2, <2>3
<1> QED
  BY <1>5, <1>6, <1>7, <1>8 DEF Next, Step

-----------------------------------------------------------------------------
(* The theorems                                                            *)

LEMMA InitInv == Init => LocksInv
<1> SUFFICES ASSUME Init PROVE LocksInv
  OBVIOUS
<1>0. TypeOK /\ MaxFrozen \in Nat /\ 1 \in Tables
  BY InitType, Constants
<1>1. \A p \in Goroutines : pc[p] = IF p \in Workers THEN "wait" ELSE "idle"
  BY DEF Init
<1>2. /\ \A w \in Writers : pc[w] = "idle"
      /\ \A p \in Readers : /\ pc[p] = "idle" /\ todo[p] = <<>> /\ open[p] = {}
                            /\ from[p] = 0
      /\ pc["freezer"] = "wait" /\ pc["flusher"] = "wait"
  BY <1>1, Constants DEF Init, Goroutines, Workers
<1>3. Binding
  BY <1>2 DEF Init, Binding, At
<1>4. QueueOrder
  BY <1>0, <1>2, EmptySequence DEF Init, QueueOrder, At
<1>5. Walking
  BY <1>2, EmptySequence DEF Walking
<1>6. PutSoFar = {} /\ InStore = {}
  BY <1>0, EmptySequence DEF Init, PutSoFar, InStore, HeldIn
<1>7. Stored
  BY <1>2, <1>6 DEF Init, Stored
<1>8. Covered
  BY <1>2, EmptySequence, Constants DEF Init, Covered, Readers
<1> QED
  BY <1>0, <1>3, <1>4, <1>5, <1>7, <1>8 DEF LocksInv

LEMMA NextInv == LocksInv /\ [Next]_vars => LocksInv'
<1> SUFFICES ASSUME LocksInv, [Next]_vars PROVE LocksInv'
  OBVIOUS
<1> USE DEF LocksInv
<1>1. CASE Next
  <2>1. TypeOK'
    BY <1>1, WriteType, ReadType, FreezeType, FlushType DEF Next, Step
  <2> QED
    BY <1>1, <2>1, BindingStep, QueueOrderStep, WalkingStep, StoredStep, CoveredStep
<1>2. CASE UNCHANGED vars
  <2> USE <1>2 DEF vars
  <2>1. TypeOK'
    BY DEF TypeOK, LockTypes, TableTypes, ControlTypes, ReaderTypes
  <2>2. Binding'
    BY DEF Binding, At
  <2>3. QueueOrder'
    BY DEF QueueOrder, At
  <2>4. Walking'
    BY DEF Walking
  <2>5. Stored'
    BY DEF Stored, PutSoFar, InStore, HeldIn
  <2>6. Covered'
    <3>1. \A p : Cover(p)' = Cover(p)
      BY DEF Cover
    <3>2. \A k : First(k)' = First(k)
      BY DEF First
    <3>3. First(Len(order))' = First(Len(order)) /\ \A p : First(from[p])' = First(from[p])
      BY DEF First
    <3> QED
      BY <3>1, <3>2, <3>3 DEF Covered
  <2> QED
    BY <2>1, <2>2, <2>3, <2>4, <2>5, <2>6
<1> QED
  BY <1>1, <1>2

\* The invariant holds for any number of goroutines and MemTables.
THEOREM LocksInvariant == Spec => []LocksInv
  BY InitInv, NextInv, PTL DEF Spec

\* Every variable keeps its type.
THEOREM LocksTypeOK == Spec => []TypeOK
<1>1. LocksInv => TypeOK
  BY DEF LocksInv
<1> QED
  BY <1>1, LocksInvariant, PTL

LEMMA BoundIsActive == LocksInv => PutNeverFrozen
<1> SUFFICES ASSUME LocksInv, NEW w \in Writers, pc[w] \in {"logged", "putting"}
             PROVE  tab[w] \notin isFrozen
  BY DEF PutNeverFrozen
<1>1. tab[w] = active /\ active \in Nat /\ \A t \in isFrozen : t < active
  BY Constants DEF LocksInv, Binding, TypeOK, TableTypes
<1> QED
  BY <1>1

\* No Put meets a frozen MemTable: Write binds its MemTable under the read
\* lock it keeps until after the Put, and doFreeze needs the lock alone.
THEOREM PutIsNeverFrozen == Spec => []PutNeverFrozen
  BY BoundIsActive, LocksInvariant, PTL

\* A scan returns a cut of the order of Puts no older than its call, and a
\* point read finds what was put before it: a snapshot has every source that
\* holds a record, and nothing is taken from a source it has copied.
THEOREM ReadsAreConsistent == Spec => []ReadsConsistent
<1>1. LocksInv => ReadsConsistent
  <2> SUFFICES ASSUME LocksInv PROVE ReadsConsistent
    OBVIOUS
  <2>1. ASSUME NEW p \in Readers, pc[p] = "done"
        PROVE  Cover(p) = got[p]
    <3>1. todo[p] = <<>>
      BY <2>1 DEF LocksInv, Walking
    <3> QED
      BY <3>1, RecordsEmpty DEF Cover, LocksInv, TypeOK, ReaderTypes
  <2>2. ASSUME NEW p \in Scanners, At(p, "done")
        PROVE  \E k \in from[p]..Len(order) : got[p] = {order[i] : i \in 1..k}
    BY <2>1, <2>2 DEF LocksInv, Covered, At, First, Readers
  <2>3. ASSUME NEW p \in Getters, At(p, "done")
        PROVE  want[p] \cap {order[i] : i \in 1..from[p]} \subseteq got[p]
    BY <2>1, <2>3 DEF LocksInv, Covered, At, First, Readers
  <2> QED
    BY <2>2, <2>3 DEF ReadsConsistent
<1> QED
  BY <1>1, LocksInvariant, PTL

\* A skip list never changes under an iterator: Put has its MemTable's lock
\* alone, and whoever iterates shares it.
THEOREM IteratedIsUnchanged == Spec => IteratedUnchanged
<1>1. LocksInv /\ [Next]_vars =>
         [\A t \in Tables : Iterators(t) # {} => held'[t] = held[t]]_vars
  <2> SUFFICES ASSUME LocksInv, Next, NEW t \in Tables, Iterators(t) # {}
               PROVE  held'[t] = held[t]
    OBVIOUS
  <2>1. mt[t].r # {}
    BY DEF Iterators, Shared, LocksInv, Walking, Readers
  <2>2. ASSUME NEW w \in Writers, Put(w)
        PROVE  held'[t] = held[t]
    <3>1. tab[w] # t
      BY <2>1, <2>2 DEF Put, Exclusive
    <3> QED
      BY <2>2, <3>1 DEF Put, LocksInv, TypeOK, TableTypes
  <2>3. CASE \A w \in Writers : ~Put(w)
    <3>1. held' = held
      BY <2>3 DEF Next, Step, tables, WriteBegin,
         WriteStep, WriteAppend, PutBegin, WriteReturn, ReadBegin, ReadStep, Snapshot,
         ReadLock, GetTable, OpenIterator, Exhaust, ScanAbort, ReadReturn, FreezeStep,
         FreezeReceive, FreezeLock, FreezeSkip, FreezeTable, FreezeRotate, FreezeSignal,
         FlushStep, FlushBegin, FlushSnapshot, FlushIterator, FlushWrite, FlushLock,
         FlushSwap, FlushSignal
    <3> QED
      BY <3>1
  <2> QED
    BY <2>2, <2>3
<1> QED
  BY <1>1, LocksInvariant, PTL DEF Spec, IteratedUnchanged
-----------------------------------------------------------------------------
(* Deadlock: who has a lock and who waits for it                           *)

\* A step of one goroutine changes no other one's dealings with a lock, and
\* leaves the lock sound unless who asks for it has it or waits already.
LEMMA MovesAccount ==
    ASSUME NEW l \in Lock, NEW m, NEW p \in Goroutines, Moves(l, m, p)
    PROVE  /\ \A q \in Goroutines \ {p} :
                /\ q \in m.r \cup m.q <=> q \in l.r \cup l.q
                /\ m.w = q <=> l.w = q
           /\ Sound(l) /\ (m = RLock(l, p) => p \notin l.r \cup l.q) => Sound(m)
<1> USE DEF Lock, Sound
<1>0. Nobody \notin Goroutines
  BY Constants
<1>1. CASE m = l
  BY <1>1
<1>2. CASE m = RLock(l, p)
  BY <1>2 DEF RLock
<1>3. CASE m = RUnlock(l, p)
  BY <1>3 DEF RUnlock
<1>4. CASE CanAnnounce(l) /\ m = Announce(l, p)
  BY <1>0, <1>4 DEF CanAnnounce, Announce
<1>5. CASE Exclusive(l, p) /\ m = Unlock(l)
  BY <1>0, <1>5 DEF Exclusive, Unlock
<1> QED
  BY <1>1, <1>2, <1>3, <1>4, <1>5 DEF Moves

MuOf(p) ==
    /\ p \in mu.r \cup mu.q <=> Sharing(p)
    /\ mu.w = p <=> Owning(p)
TableOf(p, t) ==
    /\ p \in mt[t].r \cup mt[t].q <=> SharingTable(p, t)
    /\ mt[t].w = p <=> OwningTable(p, t)

\* The accounts balance after a step if they do for the goroutine that took it.
LEMMA Settle ==
    ASSUME TypeOK, MuAccounts, TableAccounts, NEW p \in Goroutines, Moved(p),
           active' = active \/ p = "freezer",
           Sound(mu'), MuOf(p)',
           \A t \in Tables : Sound(mt'[t]) /\ TableOf(p, t)'
    PROVE  MuAccounts' /\ TableAccounts'
<1>1. ASSUME NEW q \in Goroutines, q # p
      PROVE  MuOf(q)'
  <2>1. MuOf(q) /\ pc'[q] = pc[q]
    BY <1>1 DEF MuAccounts, MuOf, Moved
  <2>2. /\ q \in mu'.r \cup mu'.q <=> q \in mu.r \cup mu.q
        /\ mu'.w = q <=> mu.w = q
    BY <1>1, MovesAccount DEF TypeOK, LockTypes, Moved
  <2> QED
    BY <2>1, <2>2 DEF MuOf, Sharing, Owning
<1>2. ASSUME NEW q \in Goroutines, q # p, NEW t \in Tables
      PROVE  TableOf(q, t)'
  <2>1. TableOf(q, t) /\ pc'[q] = pc[q] /\ tab'[q] = tab[q]
    BY <1>2 DEF TableAccounts, TableOf, Moved
  <2>2. /\ q \in mt'[t].r \cup mt'[t].q <=> q \in mt[t].r \cup mt[t].q
        /\ mt'[t].w = q <=> mt[t].w = q
    BY <1>2, MovesAccount DEF TypeOK, LockTypes, Moved
  <2>3. q \in Readers => todo'[q] = todo[q] /\ open'[q] = open[q]
    BY <1>2 DEF Moved
  <2>4. q = "freezer" => active' = active
    BY <1>2
  <2> QED
    BY <2>1, <2>2, <2>3, <2>4 DEF TableOf, SharingTable, OwningTable
<1>3. MuAccounts'
  BY <1>1 DEF MuAccounts, MuOf
<1>4. TableAccounts'
  BY <1>2 DEF TableAccounts, TableOf
<1> QED
  BY <1>3, <1>4

\* The accounts of one goroutine.
LEMMA Account ==
    ASSUME TypeOK, MuAccounts, TableAccounts, NEW p \in Goroutines
    PROVE  /\ mu \in Lock /\ Sound(mu) /\ MuOf(p)
           /\ \A t \in Tables : mt[t] \in Lock /\ Sound(mt[t]) /\ TableOf(p, t)
  BY DEF TypeOK, LockTypes, MuAccounts, TableAccounts, MuOf, TableOf

LEMMA WriteAccounts ==
    ASSUME LocksInv, Places, MuAccounts, TableAccounts, NEW w \in Writers,
           WriteBegin(w) \/ WriteStep(w)
    PROVE  MuAccounts' /\ TableAccounts'
<1> USE DEF tables, channels, rd, Goto, At
<1>0. /\ w \in Goroutines /\ w \notin Readers /\ w \notin Workers
      /\ "freezer" # w /\ "flusher" # w
      /\ TypeOK /\ Binding /\ active \in Tables /\ pc \in [Goroutines -> Labels]
  BY Constants, GoroutinesAssumption
     DEF Goroutines, LocksInv, TypeOK, TableTypes, ControlTypes, Workers
<1>1. /\ Moved(w) /\ active' = active
      /\ mu \in Lock /\ Sound(mu) /\ MuOf(w)
      /\ \A t \in Tables : mt[t] \in Lock /\ Sound(mt[t]) /\ TableOf(w, t)
  BY <1>0, WriteMoves, Account DEF WriteBegin, WriteStep, WriteAppend, PutBegin, Put,
     WriteReturn
<1>2. /\ Sharing(w) <=> pc[w] \in {"locking", "logged", "putting", "stored"}
      /\ Sharing(w)' <=> pc'[w] \in {"locking", "logged", "putting", "stored"}
      /\ ~Owning(w) /\ ~Owning(w)'
  BY <1>0 DEF Sharing, Owning
<1>3. \A t \in Tables :
        /\ ~SharingTable(w, t) /\ ~SharingTable(w, t)'
        /\ OwningTable(w, t) <=> pc[w] = "putting" /\ tab[w] = t
        /\ OwningTable(w, t)' <=> pc'[w] = "putting" /\ tab'[w] = t
  BY <1>0 DEF SharingTable, OwningTable
<1>4. Nobody # w
  BY <1>0, Constants
<1>5. Sound(mu') /\ MuOf(w)'
  <2>1. CASE WriteBegin(w)
    <3>1. mu' = RLock(mu, w) /\ pc[w] = "idle" /\ pc'[w] = "locking"
      BY <1>0, <2>1 DEF WriteBegin
    <3> QED
      BY <1>1, <1>2, <3>1 DEF MuOf, Sound, RLock, Lock
  <2>2. CASE WriteReturn(w)
    <3>1. /\ mu' = RUnlock(mu, w) /\ pc[w] = "stored" /\ pc'[w] = "done"
          /\ w \in mu.r
      BY <1>0, <2>2 DEF WriteReturn, Binding, Shared
    <3> QED
      BY <1>1, <1>2, <3>1 DEF MuOf, Sound, RUnlock, Lock
  <2>3. CASE ~WriteBegin(w) /\ ~WriteReturn(w)
    <3>1. mu' = mu /\ Sharing(w) /\ Sharing(w)'
      BY <1>0, <1>2, <2>3 DEF WriteBegin, WriteStep, WriteAppend, PutBegin, Put
    <3> QED
      BY <1>1, <1>2, <3>1 DEF MuOf
  <2> QED
    BY <2>1, <2>2, <2>3
<1>6. ASSUME NEW t \in Tables
      PROVE  Sound(mt'[t]) /\ TableOf(w, t)'
  <2>1. CASE PutBegin(w)
    <3>1. /\ mt' = [mt EXCEPT ![tab[w]] = Announce(@, w)] /\ CanAnnounce(mt[tab[w]])
          /\ tab[w] = active /\ tab' = tab /\ pc[w] = "logged" /\ pc'[w] = "putting"
      BY <1>0, <2>1 DEF PutBegin, Binding
    <3>2. mt'[t] = IF t = tab[w] THEN Announce(mt[t], w) ELSE mt[t]
      BY <1>0, <3>1 DEF TypeOK, LockTypes
    <3> QED
      BY <1>1, <1>3, <1>4, <3>1, <3>2 DEF TableOf, Sound, Announce, CanAnnounce, Lock
  <2>2. CASE Put(w)
    <3>1. /\ mt' = [mt EXCEPT ![tab[w]] = Unlock(@)] /\ Exclusive(mt[tab[w]], w)
          /\ tab[w] = active /\ tab' = tab /\ pc[w] = "putting" /\ pc'[w] = "stored"
      BY <1>0, <2>2 DEF Put, Binding
    <3>2. mt'[t] = IF t = tab[w] THEN Unlock(mt[t]) ELSE mt[t]
      BY <1>0, <3>1 DEF TypeOK, LockTypes
    <3> QED
      BY <1>1, <1>3, <1>4, <3>1, <3>2 DEF TableOf, Sound, Unlock, Exclusive, Lock
  <2>3. CASE ~PutBegin(w) /\ ~Put(w)
    <3>1. mt' = mt /\ pc[w] # "putting" /\ pc'[w] # "putting"
      BY <1>0, <2>3 DEF WriteBegin, WriteStep, WriteAppend, WriteReturn
    <3> QED
      BY <1>1, <1>3, <3>1 DEF TableOf
  <2> QED
    BY <2>1, <2>2, <2>3
<1> QED
  BY <1>0, <1>1, <1>5, <1>6, Settle

LEMMA ReadAccounts ==
    ASSUME LocksInv, Places, MuAccounts, TableAccounts, NEW p \in Readers,
           ReadBegin(p) \/ ReadStep(p)
    PROVE  MuAccounts' /\ TableAccounts'
<1> USE DEF tables, channels, rd, Goto, At
<1>0. /\ p \in Goroutines /\ p \notin Writers /\ p \notin Workers
      /\ "freezer" # p /\ "flusher" # p
      /\ TypeOK /\ pc \in [Goroutines -> Labels]
      /\ todo \in [Readers -> Seq(Tables)] /\ open \in [Readers -> SUBSET Tables]
      /\ mt \in [Tables -> Lock] /\ Nobody # p
  BY Constants, GoroutinesAssumption
     DEF Goroutines, LocksInv, TypeOK, ControlTypes, ReaderTypes, LockTypes, Workers
<1>1. /\ Moved(p) /\ active' = active
      /\ mu \in Lock /\ Sound(mu) /\ MuOf(p)
      /\ \A t \in Tables : mt[t] \in Lock /\ Sound(mt[t]) /\ TableOf(p, t)
  BY <1>0, ReadMoves, Account DEF ReadBegin, ReadStep, Snapshot, ReadLock, GetTable,
     OpenIterator, Exhaust, ScanAbort, ReadReturn
<1>2. /\ Sharing(p) <=> pc[p] = "locking"
      /\ Sharing(p)' <=> pc'[p] = "locking"
      /\ ~Owning(p) /\ ~Owning(p)'
  BY <1>0 DEF Sharing, Owning
<1>3. \A t \in Tables :
        /\ ~OwningTable(p, t) /\ ~OwningTable(p, t)'
        /\ SharingTable(p, t) <=> t \in open[p] \/ (pc[p] = "table" /\ Head(todo[p]) = t)
        /\ SharingTable(p, t)' <=> t \in open'[p] \/ (pc'[p] = "table" /\ Head(todo'[p]) = t)
  BY <1>0 DEF SharingTable, OwningTable
<1>4. Sound(mu') /\ MuOf(p)'
  <2>1. CASE ReadBegin(p)
    <3>1. mu' = RLock(mu, p) /\ pc[p] = "idle" /\ pc'[p] = "locking"
      BY <1>0, <2>1 DEF ReadBegin
    <3> QED
      BY <1>1, <1>2, <3>1 DEF MuOf, Sound, RLock, Lock
  <2>2. CASE Snapshot(p)
    <3>1. /\ mu' = RUnlock(mu, p) /\ pc[p] = "locking" /\ pc'[p] = "reading"
          /\ p \in mu.r
      BY <1>0, <2>2 DEF Snapshot, Shared
    <3> QED
      BY <1>1, <1>2, <3>1 DEF MuOf, Sound, RUnlock, Lock
  <2>3. CASE ~ReadBegin(p) /\ ~Snapshot(p)
    <3>1. mu' = mu /\ ~Sharing(p) /\ ~Sharing(p)'
      BY <1>0, <1>2, <2>3 DEF ReadBegin, ReadStep, Snapshot, ReadLock, GetTable,
         OpenIterator, Exhaust, ScanAbort, ReadReturn
    <3> QED
      BY <1>1, <1>2, <3>1 DEF MuOf
  <2> QED
    BY <2>1, <2>2, <2>3
<1>5. /\ \A i \in DOMAIN todo[p] : \A t \in open[p] : todo[p][i] < t
      /\ \A t \in open[p] : Shared(mt[t], p)
      /\ pc[p] \in {"idle", "locking"} => open[p] = {}
      /\ pc[p] = "table" => todo[p] # <<>>
  BY DEF LocksInv, Walking
<1>6. todo[p] # <<>> => /\ Head(todo[p]) \in Tables /\ Head(todo[p]) \notin open[p]
                        /\ Tail(todo[p]) \in Seq(Tables)
  <2> SUFFICES ASSUME todo[p] # <<>>
               PROVE  /\ Head(todo[p]) \in Tables /\ Head(todo[p]) \notin open[p]
                      /\ Tail(todo[p]) \in Seq(Tables)
    OBVIOUS
  <2>1. todo[p] \in Seq(Tables)
    BY <1>0
  <2>2. /\ Head(todo[p]) = todo[p][1] /\ 1 \in DOMAIN todo[p] /\ Head(todo[p]) \in Tables
        /\ Tail(todo[p]) \in Seq(Tables)
    BY <2>1, TailIs
  <2>3. Head(todo[p]) \in Nat
    BY <2>2, Constants
  <2> QED
    BY <1>5, <2>2, <2>3
<1>7. ASSUME NEW t \in Tables
      PROVE  Sound(mt'[t]) /\ TableOf(p, t)'
  <2> DEFINE h == Head(todo[p])
  <2>0. /\ mt[t] \in Lock /\ Sound(mt[t]) /\ TableOf(p, t)
        /\ t \in open[p] => Shared(mt[t], p)
    BY <1>1, <1>5
  <2>1. CASE ReadLock(p)
    <3>1. /\ todo[p] # <<>> /\ pc[p] = "reading" /\ pc'[p] = "table"
          /\ todo' = todo /\ open' = open /\ mt' = [mt EXCEPT ![h] = RLock(@, p)]
      BY <1>0, <2>1 DEF ReadLock
    <3>2. mt'[t] = IF t = h THEN RLock(mt[t], p) ELSE mt[t]
      BY <1>0, <1>6, <3>1
    <3> HIDE DEF h
    <3> QED
      BY <1>0, <1>3, <1>6, <2>0, <3>1, <3>2 DEF TableOf, Sound, RLock, Lock, h
  <2>2. CASE GetTable(p)
    <3>1. /\ todo[p] # <<>> /\ pc[p] = "table" /\ pc'[p] = "reading"
          /\ open' = open /\ mt' = [mt EXCEPT ![h] = RUnlock(@, p)]
          /\ Shared(mt[h], p)
      BY <1>0, <1>5, <2>2 DEF GetTable
    <3>2. mt'[t] = IF t = h THEN RUnlock(mt[t], p) ELSE mt[t]
      BY <1>0, <1>6, <3>1
    <3> QED
      BY <1>0, <1>3, <1>6, <2>0, <3>1, <3>2 DEF TableOf, Sound, RUnlock, Lock, Shared
  <2>3. CASE OpenIterator(p)
    <3>1. /\ todo[p] # <<>> /\ pc[p] = "table" /\ pc'[p] = "reading"
          /\ Shared(mt[h], p)
      BY <1>0, <1>5, <2>3 DEF OpenIterator
    <3>2. \/ /\ mt' = [mt EXCEPT ![h] = RUnlock(@, p)]
             /\ open' = open
          \/ mt' = mt /\ open' = [open EXCEPT ![p] = @ \cup {h}]
      BY <2>3 DEF OpenIterator
    <3>3. \/ /\ mt'[t] = IF t = h THEN RUnlock(mt[t], p) ELSE mt[t]
             /\ open'[p] = open[p]
          \/ mt'[t] = mt[t] /\ open'[p] = open[p] \cup {h}
      BY <1>0, <1>6, <3>1, <3>2
    <3> QED
      BY <1>0, <1>3, <1>6, <2>0, <3>1, <3>3 DEF TableOf, Sound, RUnlock, Lock, Shared
  <2>4. CASE Exhaust(p)
    <3>1. PICK u \in open[p] : /\ open' = [open EXCEPT ![p] = @ \ {u}]
                               /\ mt' = [mt EXCEPT ![u] = RUnlock(@, p)]
      BY <2>4 DEF Exhaust
    <3>2. /\ u \in Tables /\ pc[p] = "reading" /\ pc' = pc
          /\ open'[p] = open[p] \ {u}
          /\ mt'[t] = IF t = u THEN RUnlock(mt[t], p) ELSE mt[t]
      BY <1>0, <2>4, <3>1 DEF Exhaust
    <3> QED
      BY <1>0, <1>3, <2>0, <3>1, <3>2 DEF TableOf, Sound, RUnlock, Lock, Shared
  <2>5. CASE ScanAbort(p)
    <3>1. /\ pc[p] = "reading" /\ pc'[p] = "aborted" /\ open'[p] = {}
          /\ mt'[t] = IF t \in open[p] THEN RUnlock(mt[t], p) ELSE mt[t]
      BY <1>0, <2>5 DEF ScanAbort
    <3> QED
      BY <1>0, <1>3, <2>0, <3>1 DEF TableOf, Sound, RUnlock, Lock, Shared
  <2>6. CASE ReadBegin(p) \/ Snapshot(p) \/ ReadReturn(p)
    <3>1. mt' = mt /\ open' = open /\ pc[p] # "table" /\ pc'[p] # "table"
      BY <1>0, <2>6 DEF ReadBegin, Snapshot, ReadReturn
    <3> QED
      BY <1>0, <1>3, <2>0, <3>1 DEF TableOf
  <2> QED
    BY <2>1, <2>2, <2>3, <2>4, <2>5, <2>6 DEF ReadStep
<1> QED
  BY <1>0, <1>1, <1>4, <1>7, Settle

LEMMA FreezeAccounts ==
    ASSUME LocksInv, Places, MuAccounts, TableAccounts, FreezeStep
    PROVE  MuAccounts' /\ TableAccounts'
<1> USE DEF tables, channels, rd, Goto, At
<1> DEFINE p == "freezer"
<1>0. /\ p \in Goroutines /\ p \notin Writers /\ p \notin Readers
      /\ TypeOK /\ Binding /\ pc \in [Goroutines -> Labels] /\ mt \in [Tables -> Lock]
      /\ active \in Tables /\ Nobody # p
  BY Constants
     DEF Goroutines, LocksInv, TypeOK, TableTypes, ControlTypes, LockTypes, Workers
<1>1. /\ Moved(p)
      /\ mu \in Lock /\ Sound(mu) /\ MuOf(p)
      /\ \A t \in Tables : mt[t] \in Lock /\ Sound(mt[t]) /\ TableOf(p, t)
  BY <1>0, FreezeMoves, Account
<1>2. /\ ~Sharing(p) /\ ~Sharing(p)'
      /\ Owning(p) <=> pc[p] \in {"locking", "freezing"}
      /\ Owning(p)' <=> pc'[p] \in {"locking", "freezing"}
  BY <1>0 DEF Sharing, Owning
<1>3. \A t \in Tables :
        /\ ~SharingTable(p, t) /\ ~SharingTable(p, t)'
        /\ OwningTable(p, t) <=> pc[p] = "freezing" /\ active = t
        /\ OwningTable(p, t)' <=> pc'[p] = "freezing" /\ active' = t
  BY <1>0 DEF SharingTable, OwningTable
<1>4. Sound(mu') /\ MuOf(p)'
  <2>1. CASE FreezeLock
    <3>1. mu' = Announce(mu, p) /\ CanAnnounce(mu) /\ pc'[p] = "locking"
      BY <1>0, <2>1 DEF FreezeLock
    <3> QED
      BY <1>1, <1>2, <3>1 DEF MuOf, Sound, Announce, CanAnnounce, Lock
  <2>2. CASE FreezeSkip \/ FreezeRotate
    <3>1. mu' = Unlock(mu) /\ Exclusive(mu, p) /\ pc'[p] \in {"wait", "rotated"}
      BY <1>0, <2>2 DEF FreezeSkip, FreezeRotate, Binding
    <3> QED
      BY <1>0, <1>1, <1>2, <3>1 DEF MuOf, Sound, Unlock, Exclusive, Lock
  <2>3. CASE FreezeReceive \/ FreezeTable \/ FreezeSignal
    <3>1. mu' = mu /\ (Owning(p) <=> Owning(p)')
      BY <1>0, <1>2, <2>3 DEF FreezeReceive, FreezeTable, FreezeSignal
    <3> QED
      BY <1>1, <1>2, <3>1 DEF MuOf
  <2> QED
    BY <2>1, <2>2, <2>3 DEF FreezeStep
<1>5. ASSUME NEW t \in Tables
      PROVE  Sound(mt'[t]) /\ TableOf(p, t)'
  <2>0. mt[t] \in Lock /\ Sound(mt[t]) /\ TableOf(p, t)
    BY <1>1
  <2>1. CASE FreezeTable
    <3>1. /\ CanAnnounce(mt[active]) /\ pc'[p] = "freezing" /\ active' = active
          /\ mt'[t] = IF t = active THEN Announce(mt[t], p) ELSE mt[t]
          /\ pc[p] = "locking"
      BY <1>0, <2>1 DEF FreezeTable
    <3> QED
      BY <1>3, <2>0, <3>1 DEF TableOf, Sound, Announce, CanAnnounce, Lock
  <2>2. CASE FreezeRotate
    <3>1. /\ Exclusive(mt[active], p) /\ pc[p] = "freezing" /\ pc'[p] = "rotated"
          /\ mt'[t] = IF t = active THEN Unlock(mt[t]) ELSE mt[t]
      BY <1>0, <2>2 DEF FreezeRotate
    <3> QED
      BY <1>0, <1>3, <2>0, <3>1 DEF TableOf, Sound, Unlock, Exclusive, Lock
  <2>3. CASE ~FreezeTable /\ ~FreezeRotate
    <3>1. mt' = mt /\ pc[p] # "freezing" /\ pc'[p] # "freezing"
      BY <1>0, <2>3 DEF FreezeStep, FreezeReceive, FreezeLock, FreezeSkip, FreezeSignal
    <3> QED
      BY <1>3, <2>0, <3>1 DEF TableOf
  <2> QED
    BY <2>1, <2>2, <2>3
<1> QED
  BY <1>0, <1>1, <1>4, <1>5, Settle

LEMMA FlushAccounts ==
    ASSUME LocksInv, Places, MuAccounts, TableAccounts, FlushStep
    PROVE  MuAccounts' /\ TableAccounts'
<1> USE DEF tables, channels, rd, Goto, At
<1> DEFINE p == "flusher"
<1>0. /\ p \in Goroutines /\ p \notin Writers /\ p \notin Readers
      /\ TypeOK /\ pc \in [Goroutines -> Labels] /\ mt \in [Tables -> Lock]
      /\ Nobody # p
  BY Constants
     DEF Goroutines, LocksInv, TypeOK, ControlTypes, LockTypes, Workers
<1>1. /\ Moved(p) /\ active' = active
      /\ mu \in Lock /\ Sound(mu) /\ MuOf(p)
      /\ \A t \in Tables : mt[t] \in Lock /\ Sound(mt[t]) /\ TableOf(p, t)
  BY <1>0, FlushMoves, Account DEF FlushStep, FlushBegin, FlushSnapshot, FlushIterator,
     FlushWrite, FlushLock, FlushSwap, FlushSignal
<1>2. /\ Sharing(p) <=> pc[p] = "snapshot"
      /\ Sharing(p)' <=> pc'[p] = "snapshot"
      /\ Owning(p) <=> pc[p] = "swapping"
      /\ Owning(p)' <=> pc'[p] = "swapping"
  BY <1>0 DEF Sharing, Owning
<1>3. \A t \in Tables :
        /\ ~OwningTable(p, t) /\ ~OwningTable(p, t)'
        /\ SharingTable(p, t) <=> pc[p] = "iterating" /\ tab[p] = t
        /\ SharingTable(p, t)' <=> pc'[p] = "iterating" /\ tab'[p] = t
  BY <1>0 DEF SharingTable, OwningTable
<1>4. Sound(mu') /\ MuOf(p)'
  <2>1. CASE FlushBegin
    <3>1. mu' = RLock(mu, p) /\ pc[p] \in {"wait", "again"} /\ pc'[p] = "snapshot"
      BY <1>0, <2>1 DEF FlushBegin
    <3> QED
      BY <1>1, <1>2, <3>1 DEF MuOf, Sound, RLock, Lock
  <2>2. CASE FlushSnapshot
    <3>1. /\ mu' = RUnlock(mu, p) /\ Shared(mu, p) /\ pc[p] = "snapshot"
          /\ pc'[p] \in {"wait", "picked"}
      BY <1>0, <2>2 DEF FlushSnapshot
    <3> QED
      BY <1>1, <1>2, <3>1 DEF MuOf, Sound, RUnlock, Lock, Shared
  <2>3. CASE FlushLock
    <3>1. mu' = Announce(mu, p) /\ CanAnnounce(mu) /\ pc[p] = "written" /\ pc'[p] = "swapping"
      BY <1>0, <2>3 DEF FlushLock
    <3> QED
      BY <1>1, <1>2, <3>1 DEF MuOf, Sound, Announce, CanAnnounce, Lock
  <2>4. CASE FlushSwap
    <3>1. mu' = Unlock(mu) /\ Exclusive(mu, p) /\ pc[p] = "swapping" /\ pc'[p] = "swapped"
      BY <1>0, <2>4 DEF FlushSwap
    <3> QED
      BY <1>0, <1>1, <1>2, <3>1 DEF MuOf, Sound, Unlock, Exclusive, Lock
  <2>5. CASE FlushIterator \/ FlushWrite \/ FlushSignal
    <3>1. /\ mu' = mu /\ pc[p] \notin {"snapshot", "swapping"}
          /\ pc'[p] \notin {"snapshot", "swapping"}
      BY <1>0, <2>5 DEF FlushIterator, FlushWrite, FlushSignal
    <3> QED
      BY <1>1, <1>2, <3>1 DEF MuOf
  <2> QED
    BY <2>1, <2>2, <2>3, <2>4, <2>5 DEF FlushStep
<1>5. pc[p] \in {"picked", "iterating"} => tab[p] \in Tables
  <2>1. pc[p] \in {"picked", "iterating"} => frozen # <<>> /\ tab[p] = frozen[1]
    BY DEF LocksInv, Stored
  <2>2. frozen \in Seq(Tables)
    BY <1>0 DEF TypeOK, TableTypes
  <2>3. frozen # <<>> => frozen[1] \in Tables
    BY <2>2, TailIs
  <2> QED
    BY <2>1, <2>3
<1>6. ASSUME NEW t \in Tables
      PROVE  Sound(mt'[t]) /\ TableOf(p, t)'
  <2>0. mt[t] \in Lock /\ Sound(mt[t]) /\ TableOf(p, t)
    BY <1>1
  <2>1. CASE FlushIterator
    <3>1. /\ pc[p] = "picked" /\ pc'[p] = "iterating" /\ tab' = tab
          /\ mt'[t] = IF t = tab[p] THEN RLock(mt[t], p) ELSE mt[t]
      BY <1>0, <1>5, <2>1 DEF FlushIterator
    <3> QED
      BY <1>3, <2>0, <3>1 DEF TableOf, Sound, RLock, Lock
  <2>2. CASE FlushWrite
    <3>1. /\ pc[p] = "iterating" /\ pc'[p] = "written" /\ Shared(mt[tab[p]], p)
          /\ mt'[t] = IF t = tab[p] THEN RUnlock(mt[t], p) ELSE mt[t]
      BY <1>0, <1>5, <2>2 DEF FlushWrite
    <3> QED
      BY <1>3, <2>0, <3>1 DEF TableOf, Sound, RUnlock, Lock, Shared
  <2>3. CASE ~FlushIterator /\ ~FlushWrite
    <3>1. mt' = mt /\ pc[p] # "iterating" /\ pc'[p] # "iterating"
      BY <1>0, <2>3 DEF FlushStep, FlushBegin, FlushSnapshot, FlushLock, FlushSwap,
         FlushSignal
    <3> QED
      BY <1>3, <2>0, <3>1 DEF TableOf
  <2> QED
    BY <2>1, <2>2, <2>3
<1> QED
  BY <1>0, <1>1, <1>4, <1>6, Settle

\* Everybody is where its code can be, and has iterators only while it reads.
LEMMA PlacesStep ==
    ASSUME TypeOK, Binding, Walking, Places, Next
    PROVE  Places'
<1> USE DEF tables, channels, rd, Goto, At
<1>0. /\ Readers \subseteq Goroutines /\ Writers \subseteq Goroutines
      /\ "freezer" \in Goroutines /\ "flusher" \in Goroutines
      /\ pc \in [Goroutines -> Labels] /\ open \in [Readers -> SUBSET Tables]
  BY DEF Goroutines, Workers, TypeOK, ControlTypes, ReaderTypes
<1>1. ASSUME NEW w \in Writers, WriteBegin(w) \/ WriteStep(w)
      PROVE  Places'
  <2>1. Moved(w) /\ w \in Goroutines /\ w \notin Readers /\ w # "freezer" /\ w # "flusher"
    BY <1>0, <1>1, WriteMoves, Constants
  <2>2. pc'[w] \in {"locking", "logged", "putting", "stored", "done"}
    BY <1>0, <1>1 DEF WriteBegin, WriteStep, WriteAppend, PutBegin, Put, WriteReturn
  <2>3. open' = open
    BY <1>1 DEF WriteBegin, WriteStep, WriteAppend, PutBegin, Put, WriteReturn
  <2> QED
    BY <1>0, <2>1, <2>2, <2>3 DEF Moved, Places
<1>2. ASSUME NEW p \in Readers, ReadBegin(p) \/ ReadStep(p)
      PROVE  Places'
  <2>1. Moved(p) /\ p \in Goroutines /\ p \notin Writers /\ p # "freezer" /\ p # "flusher"
    BY <1>0, <1>2, ReadMoves, Constants
  <2>2. /\ pc'[p] \in {"locking", "reading", "table", "done", "aborted"}
        /\ open'[p] # {} => pc'[p] \in {"reading", "table"}
    BY <1>0, <1>2 DEF Places, Walking, ReadBegin, ReadStep, Snapshot, ReadLock, GetTable,
       OpenIterator, Exhaust, ScanAbort, ReadReturn
  <2> QED
    BY <1>0, <2>1, <2>2 DEF Moved, Places
<1>3. CASE FreezeStep
  <2>1. Moved("freezer") /\ "freezer" \notin Writers /\ "freezer" \notin Readers
    BY <1>3, FreezeMoves, Constants
  <2>2. /\ pc'["freezer"] \in {"wait", "signalled", "locking", "freezing", "rotated"}
        /\ open' = open
    BY <1>0, <1>3 DEF FreezeStep, FreezeReceive, FreezeLock, FreezeSkip, FreezeTable,
       FreezeRotate, FreezeSignal
  <2> QED
    BY <1>0, <2>1, <2>2 DEF Moved, Places
<1>4. CASE FlushStep
  <2>1. Moved("flusher") /\ "flusher" \notin Writers /\ "flusher" \notin Readers
    BY <1>4, FlushMoves, Constants
  <2>2. /\ pc'["flusher"] \in {"wait", "again", "snapshot", "picked", "iterating",
                             "written", "swapping", "swapped"}
        /\ open' = open
    BY <1>0, <1>4 DEF FlushStep, FlushBegin, FlushSnapshot, FlushIterator, FlushWrite,
       FlushLock, FlushSwap, FlushSignal
  <2> QED
    BY <1>0, <2>1, <2>2 DEF Moved, Places
<1> QED
  BY <1>1, <1>2, <1>3, <1>4 DEF Next, Step

LEMMA InitAccounts == Init => Accounts
<1> SUFFICES ASSUME Init PROVE Accounts
  OBVIOUS
<1>1. \A p \in Goroutines : pc[p] = IF p \in Workers THEN "wait" ELSE "idle"
  BY DEF Init
<1>2. /\ \A w \in Writers : pc[w] = "idle" /\ w \notin Readers
      /\ \A p \in Readers : pc[p] = "idle" /\ open[p] = {}
      /\ pc["freezer"] = "wait" /\ pc["flusher"] = "wait"
      /\ "freezer" \notin Writers \cup Readers /\ "flusher" \notin Writers \cup Readers
  BY <1>1, Constants DEF Init, Goroutines, Workers
<1>3. Places
  BY <1>2 DEF Places
<1>4. ASSUME NEW p \in Goroutines
      PROVE  /\ ~Sharing(p) /\ ~Owning(p)
             /\ \A t \in Tables : ~SharingTable(p, t) /\ ~OwningTable(p, t)
  BY <1>2 DEF Sharing, Owning, SharingTable, OwningTable
<1>5. mu = Free /\ \A t \in Tables : mt[t] = Free
  BY DEF Init
<1>6. Sound(Free) /\ Free.w = Nobody /\ Free.r = {} /\ Free.q = {}
  BY DEF Sound, Free
<1>7. MuAccounts /\ TableAccounts
  BY <1>4, <1>5, <1>6, Constants DEF MuAccounts, TableAccounts
<1> QED
  BY <1>3, <1>7 DEF Accounts

LEMMA NextAccounts == LocksInv /\ Accounts /\ [Next]_vars => Accounts'
<1> SUFFICES ASSUME LocksInv, Accounts, [Next]_vars PROVE Accounts'
  OBVIOUS
<1>0. TypeOK /\ Binding /\ Walking /\ Places /\ MuAccounts /\ TableAccounts
  BY DEF LocksInv, Accounts
<1>1. CASE Next
  <2>1. Places'
    BY <1>0, <1>1, PlacesStep
  <2>2. MuAccounts' /\ TableAccounts'
    BY <1>0, <1>1, WriteAccounts, ReadAccounts, FreezeAccounts, FlushAccounts DEF Next, Step
  <2> QED
    BY <2>1, <2>2 DEF Accounts
<1>2. CASE UNCHANGED vars
  BY <1>0, <1>2 DEF vars, Accounts, Places, MuAccounts, TableAccounts, Sharing, Owning,
     SharingTable, OwningTable
<1> QED
  BY <1>1, <1>2

\* The lock of a MemTable that nobody who can go on keeps from its owner has no
\* owner: of those that have one, the oldest MemTable's is kept by a reader
\* that can only be waiting for an older one still.
LEMMA TablesFree ==
    ASSUME LocksInv, Accounts,
           \A w \in Writers : ~WriterCan(w), \A p \in Readers : ~ReaderCan(p),
           ~FreezerCan, ~FlusherCan
    PROVE  \A t \in Tables : mt[t].w = Nobody
<1> DEFINE Owned == {t \in Tables : mt[t].w # Nobody}
<1> SUFFICES ASSUME Owned # {} PROVE FALSE
  OBVIOUS
<1>0. /\ TypeOK /\ Binding /\ Walking /\ Places /\ MuAccounts /\ TableAccounts
      /\ PutNeverFrozen /\ Tables \subseteq Nat
  BY Constants, BoundIsActive DEF LocksInv, Accounts
<1>1. Owned \subseteq Nat /\ Owned # {}
  BY <1>0
<1>2. PICK t \in Owned : \A u \in Owned : t <= u
  <2> HIDE DEF Owned
  <2> QED
    BY <1>1, OldestExists
<1>3. t \in Tables /\ mt[t] \in Lock /\ mt[t].w \in Goroutines
  BY <1>0, <1>2 DEF TypeOK, LockTypes, Lock
<1>4. OwningTable(mt[t].w, t)
  BY <1>0, <1>3 DEF TableAccounts
<1>5. mt[t].r # {}
  <2>1. ASSUME NEW w \in Writers, pc[w] = "putting", tab[w] = t, mt[t].w = w
        PROVE  mt[t].r # {}
    BY <1>0, <2>1 DEF WriterCan, At, Exclusive, PutNeverFrozen
  <2>2. CASE mt[t].w = "freezer" /\ pc["freezer"] = "freezing" /\ active = t
    BY <2>2 DEF FreezerCan, At, Exclusive
  <2> QED
    BY <1>4, <2>1, <2>2 DEF OwningTable
<1>6. PICK p \in mt[t].r : TRUE
  BY <1>5
<1>7. p \in Goroutines /\ Shared(mt[t], p) /\ SharingTable(p, t)
  BY <1>0, <1>3, <1>6 DEF TableAccounts, Lock, Shared
<1>8. CASE p = "flusher" /\ pc[p] = "iterating" /\ tab[p] = t
  BY <1>7, <1>8 DEF FlusherCan, At
<1>9. CASE p \in Readers
  <2>1. pc[p] = "table"
    BY <1>0, <1>7, <1>9, Constants DEF SharingTable, Places, ReaderCan, At
  <2> DEFINE u == Head(todo[p])
  <2>2. ~Shared(mt[u], p) /\ todo[p] # <<>>
    BY <1>0, <1>9, <2>1 DEF ReaderCan, At, Walking
  <2>3. u \in Tables /\ u = todo[p][1] /\ 1 \in DOMAIN todo[p]
    <3>1. todo[p] \in Seq(Tables)
      BY <1>0, <1>9 DEF TypeOK, ReaderTypes
    <3> QED
      BY <2>2, <3>1, TailIs
  <2>4. t \in open[p]
    BY <1>7, <1>9, <2>2, Constants DEF SharingTable
  <2>5. u < t
    BY <1>0, <1>9, <2>3, <2>4 DEF Walking
  <2>6. SharingTable(p, u)
    BY <1>9, <2>1 DEF SharingTable
  <2>7. mt[u].w # Nobody
    BY <1>0, <1>7, <2>2, <2>3, <2>6 DEF TableAccounts, Sound, Shared
  <2>8. u \in Owned /\ u \in Nat /\ t \in Nat
    BY <1>0, <1>3, <2>3, <2>7
  <2> QED
    BY <1>2, <2>5, <2>8
<1> QED
  BY <1>7, <1>8, <1>9 DEF SharingTable

\* Nor has e.mu, and then nobody waits for anything.
LEMMA SomebodyCan == LocksInv /\ Accounts => NoDeadlock
<1> SUFFICES ASSUME LocksInv, Accounts,
                    \A w \in Writers : ~WriterCan(w), \A p \in Readers : ~ReaderCan(p),
                    ~FreezerCan, ~FlusherCan
             PROVE  Quiet
  BY DEF NoDeadlock
<1> USE DEF At
<1>0. /\ TypeOK /\ Binding /\ Walking /\ Places /\ MuAccounts /\ TableAccounts
      /\ PutNeverFrozen /\ active \in Tables
      /\ Writers \subseteq Goroutines /\ Readers \subseteq Goroutines
      /\ "freezer" \in Goroutines /\ "flusher" \in Goroutines
      /\ Nobody \notin Goroutines
  BY Constants, BoundIsActive DEF LocksInv, Accounts, TypeOK, TableTypes, Goroutines, Workers
<1>1. \A t \in Tables : mt[t].w = Nobody /\ mt[t].q = {}
  BY <1>0, TablesFree DEF TableAccounts, Sound
<1>2. \A w \in Writers : pc[w] \in {"idle", "locking", "done"}
  <2> SUFFICES ASSUME NEW w \in Writers PROVE pc[w] \in {"idle", "locking", "done"}
    OBVIOUS
  <2>1. pc[w] # "stored"
    BY DEF WriterCan
  <2>2. pc[w] \in {"logged", "putting"} => tab[w] = active /\ tab[w] \notin isFrozen
    BY <1>0 DEF Binding, PutNeverFrozen
  <2>3. pc[w] # "logged"
    BY <1>0, <1>1, <2>2 DEF WriterCan, CanAnnounce
  <2>4. pc[w] # "putting"
    <3>1. pc[w] = "putting" => OwningTable(w, active)
      BY <2>2 DEF OwningTable
    <3> QED
      BY <1>0, <1>1, <3>1 DEF TableAccounts
  <2> QED
    BY <1>0, <2>1, <2>3, <2>4 DEF Places
<1>3. \A p \in Readers : pc[p] \in {"idle", "locking", "done", "aborted"}
  <2> SUFFICES ASSUME NEW p \in Readers
               PROVE  pc[p] \in {"idle", "locking", "done", "aborted"}
    OBVIOUS
  <2>1. pc[p] # "reading"
    BY DEF ReaderCan
  <2>2. ASSUME pc[p] = "table" PROVE FALSE
    <3>1. todo[p] # <<>> /\ todo[p] \in Seq(Tables)
      BY <1>0, <2>2 DEF Walking, TypeOK, ReaderTypes
    <3>2. Head(todo[p]) \in Tables
      BY <3>1, TailIs
    <3>3. p \in mt[Head(todo[p])].r
      BY <1>0, <1>1, <2>2, <3>2 DEF TableAccounts, SharingTable
    <3> QED
      BY <2>2, <3>3 DEF ReaderCan, Shared
  <2> QED
    BY <1>0, <2>1, <2>2 DEF Places
<1>4. pc["freezer"] # "freezing"
  <2>1. pc["freezer"] = "freezing" => OwningTable("freezer", active)
    BY DEF OwningTable
  <2> QED
    BY <1>0, <1>1, <2>1 DEF TableAccounts
<1>5. mu.r = {}
  <2> SUFFICES ASSUME NEW p \in mu.r PROVE FALSE
    OBVIOUS
  <2>1. p \in Goroutines /\ Shared(mu, p) /\ Sharing(p)
    BY <1>0 DEF TypeOK, LockTypes, Lock, MuAccounts, Shared
  <2> QED
    BY <1>2, <1>3, <2>1 DEF Sharing, WriterCan, ReaderCan, FlusherCan
<1>6. mu.w = Nobody
  <2>1. pc["freezer"] # "locking"
    <3>1. pc["freezer"] = "locking" => Exclusive(mu, "freezer")
      BY <1>0, <1>5 DEF MuAccounts, Owning, Exclusive
    <3> QED
      BY <1>0, <1>1, <3>1 DEF FreezerCan, CanAnnounce
  <2>2. pc["flusher"] # "swapping"
    <3>1. pc["flusher"] = "swapping" => Exclusive(mu, "flusher")
      BY <1>0, <1>5 DEF MuAccounts, Owning, Exclusive
    <3> QED
      BY <3>1 DEF FlusherCan
  <2>3. \A p \in Goroutines : ~Owning(p)
    BY <1>4, <2>1, <2>2 DEF Owning
  <2>4. mu.w \in Goroutines \cup {Nobody}
    BY <1>0 DEF TypeOK, LockTypes, Lock
  <2> QED
    BY <1>0, <2>3, <2>4 DEF MuAccounts
<1>7. \A p \in Goroutines : ~Sharing(p) /\ ~Owning(p)
  BY <1>0, <1>5, <1>6 DEF MuAccounts, Sound
<1>8. \A p \in Writers \cup Readers : pc[p] \in {"idle", "done", "aborted"}
  BY <1>0, <1>2, <1>3, <1>7 DEF Sharing
<1>9. pc["freezer"] = "wait"
  BY <1>0, <1>4, <1>6, <1>7 DEF Places, FreezerCan, CanAnnounce, Owning
<1>10. pc["flusher"] = "wait"
  <2>1. pc["flusher"] # "iterating"
    <3>1. ASSUME pc["flusher"] = "iterating"
          PROVE  tab["flusher"] \in Tables
      <4>1. frozen # <<>> /\ tab["flusher"] = frozen[1] /\ frozen \in Seq(Tables)
        BY <1>0, <3>1 DEF LocksInv, Stored, TypeOK, TableTypes
      <4> QED
        BY <4>1, TailIs
    <3>2. pc["flusher"] = "iterating" => SharingTable("flusher", tab["flusher"])
      BY DEF SharingTable
    <3>3. pc["flusher"] = "iterating" => "flusher" \in mt[tab["flusher"]].r
      BY <1>0, <1>1, <3>1, <3>2 DEF TableAccounts
    <3> QED
      BY <3>3 DEF FlusherCan, Shared
  <2> QED
    BY <1>0, <1>6, <1>7, <2>1 DEF Places, FlusherCan, CanAnnounce, Owning, Sharing
<1> QED
  BY <1>8, <1>9, <1>10 DEF Quiet, Workers

\* Every lock is held and waited for by those whose place in their call says
\* so, for any number of goroutines and MemTables.
THEOREM LocksAreAccounted == Spec => []Accounts
  BY InitAccounts, NextAccounts, LocksInvariant, PTL DEF Spec

\* Never do all the unfinished calls and workers wait for a lock: who waits for
\* a MemTable waits for readers of it, each of which can only wait for an older
\* MemTable, and who waits for e.mu waits for somebody that does not.
THEOREM LocksAreDeadlockFree == Spec => []NoDeadlock
<1>1. LocksInv /\ Accounts => NoDeadlock
  BY SomebodyCan
<1> QED
  BY <1>1, LocksInvariant, LocksAreAccounted, PTL
=============================================================================
