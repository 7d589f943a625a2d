-------------------------- MODULE DurabilityProofs ---------------------------
(***************************************************************************)
(* Proofs that an engine whose clients write one record at a time, on a    *)
(* disk whose appends fail cleanly, loses nothing it acknowledged and      *)
(* implements DurableStore, for every number of records, every limit and   *)
(* every sequence of flush failures, crashes and restarts.                 *)
(***************************************************************************)
EXTENDS EngineProofs, FiniteSetTheorems

\* What the theorems need.  With two writes at a time DocIDs and appends may
\* be in different orders; a cut-off append or a damaged file hides records
\* behind it.  Each of the three is shown by a run to break durability.
OneClient == MaxInFlight <= 1 /\ MaxDamaged = 0 /\ Faults \subseteq {"flush", "seal"}

-----------------------------------------------------------------------------
(* The invariant.                                                          *)

InSeg(c, s) == s \in DOMAIN wal /\ c \in Range(wal[s])
Kept(c) == InLog(c) \/ InFile(c)
Live(c) == c \in active \/ InQueue(c) \/ pc[c] = "appended"

Numbered == {"allocated", "bound"}
Logging == {"appended", "put", "ok", "past"}

\* No segment has a tear and every file opens.
Untorn == bad = {} /\ ~InLog(Torn)

\* One call is in progress at a time.
Alone == \A c, d \in Calls : pc[c] \in InFlight /\ pc[d] \in InFlight => c = d

\* From its append on a record is kept.
AckedKept == \A c \in Calls : pc[c] \in Logging => Kept(c)

\* The files hold the oldest records: what recovery skips is in one of them.
FilesFirst ==
    \A c, t \in Calls : InLog(c) /\ InFile(t) /\ docID[c] <= docID[t] => InFile(c)

Unique == \A c, d \in Calls : Kept(c) /\ Kept(d) /\ docID[c] = docID[d] => c = d

\* What a segment holds is in a file or in the MemTable it belongs to.
LogSplit ==
    status # "down" =>
        \A c \in Calls :
            /\ InLog(c) => InFile(c) \/ Live(c)
            /\ InSeg(c, seg) => InFile(c) \/ c \in active \/ pc[c] = "appended"
            /\ \A i \in DOMAIN frozen : InSeg(c, frozen[i].seg) => InFile(c) \/ c \in frozen[i].mt
            /\ fl.pc = "delete" /\ InSeg(c, fl.seg) => InFile(c)

\* DocIDs grow along files, queue, active MemTable and the call in progress.
Ages ==
    status # "down" =>
        /\ \A i, j \in DOMAIN frozen : i < j =>
             \A c \in frozen[i].mt, d \in frozen[j].mt : docID[c] < docID[d]
        /\ \A i \in DOMAIN frozen : \A c \in frozen[i].mt, d \in active : docID[c] < docID[d]
        /\ \A c, d \in Calls :
             pc[d] = "appended" /\ (c \in active \/ InQueue(c) \/ InFile(c)) => docID[c] < docID[d]
        /\ \A c, d \in Calls : pc[d] \in Numbered /\ Kept(c) => docID[c] < docID[d]
        /\ \A c \in Calls : Kept(c) \/ pc[c] \in Numbered => docID[c] <= alloc

Kin == AckedKept /\ FilesFirst /\ Unique /\ LogSplit /\ Ages
DurInv == Untorn /\ Alone /\ Kin

\* Everything proved about the engine so far.
BaseInv == SafetyInv /\ EarlyUntraced

LEMMA LiveIsKept ==
    ASSUME SafetyInv, NEW c \in Calls, c \in active \/ InQueue(c)
    PROVE  InLog(c)
  BY DEF SafetyInv, LogCovers, LoggedFor, InLog, InQueue

-----------------------------------------------------------------------------
(* Untorn and Alone.                                                       *)

\* Only an append adds to the log.
LEMMA LogSources ==
    ASSUME OneClient, SafetyInv, [Next]_vars, NEW c, InLog(c)'
    PROVE  InLog(c) \/ (c \in Calls /\ AppendRecord(c))
<1> USE DEF InLog
<1>0. TypeOK /\ OrderInv /\ DiskTypeOK
  BY DEF SafetyInv, TypeOK
<1>1. CASE wal' = wal
  BY <1>1
<1>2. ASSUME NEW d \in Calls, AppendRecord(d) PROVE InLog(c) \/ c = d
  BY <1>0, <1>2, AppendAdds DEF AppendRecord
<1>3. ASSUME NEW d \in Calls, WriteCall(d) \/ GateTimeout(d) \/ WriteStep(d), ~AppendRecord(d)
      PROVE  wal' = wal
  BY <1>3 DEF OneClient, WriteCall, GateTimeout, WriteStep, GatePass, GateStall, GateRefuse, Allocate, Bind,
       AppendFail, Put, WriteReturn, disk
<1>4. CASE FreezeRotate
  <2>1. wal' = With(wal, seg + 1, <<>>)
    BY <1>4 DEF FreezeRotate
  <2>2. c \notin Range(<<>>)
    BY EmptyIsSeq DEF Range
  <2> QED
    BY <2>1, <2>2 DEF With
<1>5. CASE FreezeStep /\ ~FreezeRotate
  BY <1>1, <1>5, FreezeFrame
<1>6. CASE FlushDelete
  BY <1>6 DEF FlushDelete, Without
<1>7. CASE FlushStep /\ ~FlushDelete
  BY <1>1, <1>7 DEF FlushStep, FlushReceive, FlushNothing, FlushSnapshot, FlushWrite, FlushFail,
       FlushRetry, FlushSwap, FlushSignal, FlushFatal, FlushExit, disk
<1>8. CASE Open
  <2>1. \A s \in DOMAIN wal' : wal'[s] = <<>> \/ (s \in DOMAIN wal /\ wal'[s] = wal[s])
    BY <1>8 DEF Open
  <2>2. c \notin Range(<<>>)
    BY EmptyIsSeq DEF Range
  <2> QED
    BY <2>1, <2>2
<1>9. CASE Stop \/ CloseBegin \/ CloseFinish \/ \E i \in DOMAIN sst : Damage(i)
  BY <1>1, <1>9 DEF OneClient, Stop, CloseBegin, CloseFinish, Damage, disk
<1>10. CASE UNCHANGED vars
  BY <1>1, <1>10 DEF vars, disk
<1> QED
  BY <1>1, <1>2, <1>3, <1>4, <1>5, <1>6, <1>7, <1>8, <1>9, <1>10 DEF Next, WriteStep

LEMMA UntornStep ==
    ASSUME OneClient, SafetyInv, Untorn, [Next]_vars PROVE Untorn'
<1>1. ~InLog(Torn)'
  BY LogSources, TornAssumption DEF Untorn
<1>2. bad' = {}
  <2>1. ASSUME NEW c \in Calls, WriteCall(c) \/ GateTimeout(c) \/ WriteStep(c) PROVE bad' = bad
    BY <2>1, WriteFrame
  <2>2. CASE FreezeStep
    BY <2>2, FreezeFrame DEF FreezeRotate, files, Untorn
  <2>3. CASE FlushStep
    BY <2>3 DEF FlushStep, FlushReceive, FlushNothing, FlushSnapshot, FlushWrite, FlushFail,
       FlushRetry, FlushSwap, FlushDelete, FlushSignal, FlushFatal, FlushExit, disk, Untorn
  <2>4. CASE Open \/ Stop \/ CloseBegin \/ CloseFinish
    BY <2>4 DEF Open, Stop, CloseBegin, CloseFinish, disk, Untorn
  <2>5. ~ \E i \in DOMAIN sst : Damage(i)
    BY DEF Damage, OneClient, SafetyInv, TypeOK, CallTypeOK
  <2> QED
    BY <2>1, <2>2, <2>3, <2>4, <2>5 DEF Next, vars, disk, Untorn
<1> QED
  BY <1>1, <1>2 DEF Untorn

\* A call starts only when none is in progress.
LEMMA StartsAlone ==
    ASSUME OneClient, TypeOK, NEW c \in Calls, WriteCall(c)
    PROVE  \A d \in Calls : pc[d] \notin InFlight
<1>1. IsFiniteSet(InFlightCalls)
  BY CallsAssumption, FS_Subset DEF InFlightCalls
<1>2. Cardinality(InFlightCalls) \in Nat /\ Cardinality(InFlightCalls) < 1
  BY <1>1, FS_CardinalityType, BoundsAssumption DEF WriteCall, OneClient
<1>3. InFlightCalls = {}
  BY <1>1, <1>2, FS_EmptySet
<1> QED
  BY <1>3 DEF InFlightCalls

LEMMA AloneStep == ASSUME OneClient, TypeOK, Alone, [Next]_vars PROVE Alone'
<1> USE DEF TypeOK, CallTypeOK
<1>1. CASE \A c \in Calls : pc'[c] \in InFlight => pc[c] \in InFlight
  BY <1>1 DEF Alone
<1>2. ASSUME NEW c \in Calls, WriteCall(c) PROVE Alone'
  <2>1. \A d \in Calls : d # c => pc'[d] \notin InFlight
    BY <1>2, StartsAlone DEF WriteCall, Goto
  <2> QED
    BY <2>1 DEF Alone
<1>3. ASSUME NEW d \in Calls, GateTimeout(d) \/ WriteStep(d)
      PROVE  \A c \in Calls : pc'[c] \in InFlight => pc[c] \in InFlight
  <2> USE DEF InFlight, Goto
  <2>1. CASE GateTimeout(d) \/ GatePass(d) \/ GateStall(d) \/ GateRefuse(d)
    BY <2>1 DEF GateTimeout, GatePass, GateStall, GateRefuse
  <2>2. CASE Allocate(d) \/ Bind(d)
    BY <2>2 DEF Allocate, Bind
  <2>3. CASE AppendRecord(d) \/ AppendFail(d) \/ Put(d) \/ WriteReturn(d)
    BY <2>3 DEF AppendRecord, AppendFail, Put, WriteReturn
  <2> QED
    BY <1>3, <2>1, <2>2, <2>3 DEF WriteStep
<1>4. CASE FreezeStep
  BY <1>1, <1>4, FreezeFrame DEF FreezeRotate
<1>5. CASE FlushStep
  BY <1>1, <1>5 DEF FlushStep, FlushReceive, FlushNothing, FlushSnapshot, FlushWrite, FlushFail,
       FlushRetry, FlushSwap, FlushDelete, FlushSignal, FlushFatal, FlushExit
<1>6. CASE Stop
  BY <1>1, <1>6 DEF Stop, InFlight
<1>7. CASE Open \/ CloseBegin \/ CloseFinish \/ \E i \in DOMAIN sst : Damage(i)
  BY <1>1, <1>7 DEF Open, CloseBegin, CloseFinish, Damage
<1>8. CASE UNCHANGED vars
  BY <1>1, <1>8 DEF vars
<1> QED
  BY <1>1, <1>2, <1>3, <1>4, <1>5, <1>6, <1>7, <1>8 DEF Next

-----------------------------------------------------------------------------
(* The records and their ages, action by action.                           *)

\* Where the records are is where they were.
SameRecords == UNCHANGED <<wal, sst, active, frozen, seg, docID, alloc>>

LEMMA SamePlaces ==
    ASSUME SameRecords
    PROVE  \A c : /\ InLog(c)' <=> InLog(c)
                  /\ InFile(c)' <=> InFile(c)
                  /\ InQueue(c)' <=> InQueue(c)
                  /\ Kept(c)' <=> Kept(c)
                  /\ \A s : InSeg(c, s)' <=> InSeg(c, s)
  BY DEF SameRecords, InLog, InFile, InQueue, Kept, InSeg

LEMMA StillKin ==
    ASSUME TypeOK, Kin, SameRecords, (status = "down") <=> (status' = "down"),
           \A c \in Calls : /\ pc'[c] = "appended" <=> pc[c] = "appended"
                            /\ pc'[c] \in Numbered => pc[c] \in Numbered
                            /\ pc'[c] \in Logging => pc[c] \in Logging,
           fl'.pc = "delete" => fl.pc = "delete" /\ fl'.seg = fl.seg
    PROVE  Kin'
<1>1. AckedKept'
  BY SamePlaces DEF Kin, AckedKept
<1>2. FilesFirst' /\ Unique'
  BY SamePlaces DEF Kin, FilesFirst, Unique, SameRecords
<1>3. LogSplit'
  BY SamePlaces DEF Kin, LogSplit, Live, SameRecords
<1>4. Ages'
  BY SamePlaces DEF Kin, Ages, SameRecords
<1> QED
  BY <1>1, <1>2, <1>3, <1>4 DEF Kin

\* A number is drawn for a record that is nowhere yet.
LEMMA AllocateKin ==
    ASSUME BaseInv, Alone, Kin, NEW c \in Calls, Allocate(c)
    PROVE  Kin' /\ \A d : Kept(d)' <=> Kept(d)
<1>0. TypeOK /\ status # "down" /\ alloc \in Nat /\ docID \in [Calls -> Nat]
  BY DownIsStill DEF BaseInv, SafetyInv, OrderInv, WriteStep, TypeOK, MemoryTypeOK, CallTypeOK
<1>1. /\ UNCHANGED <<wal, sst, active, frozen, seg, status, fl>>
      /\ pc[c] = "gated" /\ alloc' = alloc + 1
      /\ pc' = [pc EXCEPT ![c] = "allocated"] /\ docID' = [docID EXCEPT ![c] = alloc + 1]
  BY DEF Allocate, disk, workers, Goto
<1>2. /\ \A d \in Calls \ {c} : pc'[d] = pc[d] /\ docID'[d] = docID[d]
      /\ pc'[c] = "allocated" /\ docID'[c] = alloc + 1
  BY <1>0, <1>1 DEF TypeOK, CallTypeOK
<1>3. \A d : /\ InLog(d)' <=> InLog(d)
             /\ InFile(d)' <=> InFile(d)
             /\ InQueue(d)' <=> InQueue(d)
             /\ Kept(d)' <=> Kept(d)
             /\ \A s : InSeg(d, s)' <=> InSeg(d, s)
  BY <1>1 DEF InLog, InFile, InQueue, Kept, InSeg
<1>4. c \notin active /\ ~InQueue(c) /\ ~InLog(c) /\ ~InFile(c) /\ ~Kept(c)
  BY <1>1 DEF BaseInv, EarlyUntraced, Early, Stored, Kept
<1>5. \A d \in Calls \ {c} : pc[d] \notin InFlight
  BY <1>1 DEF Alone, InFlight
<1>6. AckedKept'
  BY <1>2, <1>3 DEF Kin, AckedKept, Logging
<1>7. FilesFirst' /\ Unique'
  BY <1>2, <1>3, <1>4 DEF Kin, FilesFirst, Unique
<1>8. LogSplit'
  BY <1>1, <1>2, <1>3, <1>4 DEF Kin, LogSplit, Live
<1>9. Ages'
  <2>1. \A i \in DOMAIN frozen : frozen[i].mt \subseteq Calls /\ c \notin frozen[i].mt
    BY <1>0, <1>4, FrozenType DEF InQueue
  <2>2. active \subseteq Calls
    BY <1>0 DEF TypeOK, MemoryTypeOK
  <2>3. \A d \in Calls : pc'[d] # "appended" /\ (pc'[d] \in Numbered => d = c)
    BY <1>2, <1>5 DEF InFlight, Numbered
  <2>4. \A d \in Calls : Kept(d) => docID[d] <= alloc /\ d # c
    BY <1>0, <1>4 DEF Kin, Ages
  <2>5. /\ \A i, j \in DOMAIN frozen : i < j =>
              \A d \in frozen[i].mt, e \in frozen[j].mt : docID'[d] < docID'[e]
        /\ \A i \in DOMAIN frozen : \A d \in frozen[i].mt, e \in active : docID'[d] < docID'[e]
    BY <1>0, <1>2, <1>4, <2>1, <2>2 DEF Kin, Ages
  <2>6. \A d \in Calls : Kept(d) => docID'[d] < docID'[c] /\ docID'[d] <= alloc'
    BY <1>0, <1>1, <1>2, <2>4
  <2> QED
    BY <1>1, <1>2, <1>3, <2>3, <2>5, <2>6 DEF Ages
<1> QED
  BY <1>3, <1>6, <1>7, <1>8, <1>9 DEF Kin

\* The record enters the log behind everything that is kept.
LEMMA AppendKin ==
    ASSUME BaseInv, Alone, Kin, NEW c \in Calls, AppendRecord(c)
    PROVE  Kin' /\ \A d : Kept(d)' <=> Kept(d) \/ d = c
<1>0. /\ TypeOK /\ OrderInv /\ SafetyInv /\ DiskTypeOK
      /\ status # "down" /\ alloc \in Nat /\ docID \in [Calls -> Nat]
  BY DownIsStill DEF BaseInv, SafetyInv, OrderInv, WriteStep, TypeOK, MemoryTypeOK, CallTypeOK
<1>1. /\ UNCHANGED <<sst, active, frozen, seg, status, fl, docID, alloc>>
      /\ pc[c] = "bound" /\ pc' = [pc EXCEPT ![c] = "appended"] /\ LogAfter(<<c>>)
  BY DEF AppendRecord, memory, workers, Goto
<1>2. /\ \A d \in Calls \ {c} : pc'[d] = pc[d]
      /\ pc'[c] = "appended"
  BY <1>0, <1>1 DEF TypeOK, CallTypeOK
<1>3. seg \in DOMAIN wal
  BY <1>0 DEF OrderInv, ActiveIsNewest
<1>4. \A d : /\ InFile(d)' <=> InFile(d)
             /\ InQueue(d)' <=> InQueue(d)
  BY <1>1 DEF InFile, InQueue
<1>5. \A d, s : InSeg(d, s)' <=> InSeg(d, s) \/ (d = c /\ s = seg)
  <2> SUFFICES ASSUME NEW d, NEW s PROVE InSeg(d, s)' <=> InSeg(d, s) \/ (d = c /\ s = seg)
    OBVIOUS
  <2>1. DOMAIN wal' = DOMAIN wal /\ \A t \in DOMAIN wal : wal'[t] = IF t = seg THEN wal[t] \o <<c>> ELSE wal[t]
    BY <1>1, LogAfterIs
  <2>2. wal[seg] \in Seq(Calls \cup {Torn}) /\ <<c>> \in Seq(Calls \cup {Torn})
    BY <1>0, <1>3, SingletonIsSeq DEF DiskTypeOK
  <2>3. Range(wal[seg] \o <<c>>) = Range(wal[seg]) \cup Range(<<c>>)
    BY <2>2, RangeConcatenation
  <2>4. Range(<<c>>) = {c}
    BY DEF Range
  <2> QED
    BY <1>3, <2>1, <2>3, <2>4 DEF InSeg
<1>6. \A d : (InLog(d)' <=> InLog(d) \/ d = c) /\ (Kept(d)' <=> Kept(d) \/ d = c)
  <2>1. \A d : (InLog(d) <=> \E s : InSeg(d, s)) /\ (InLog(d)' <=> \E s : InSeg(d, s)')
    BY DEF InLog, InSeg
  <2> QED
    BY <1>4, <1>5, <2>1 DEF Kept
<1>7. c \notin active /\ ~InQueue(c) /\ ~InLog(c) /\ ~InFile(c) /\ ~Kept(c)
  BY <1>1 DEF BaseInv, EarlyUntraced, Early, Stored, Kept
<1>8. \A d \in Calls : Kept(d) => docID[d] < docID[c]
  BY <1>0, <1>1 DEF Kin, Ages, Numbered
<1>9. \A d \in Calls \ {c} : pc'[d] \notin InFlight
  BY <1>1, <1>2 DEF Alone, InFlight
<1>10. AckedKept'
  BY <1>2, <1>6 DEF Kin, AckedKept
<1>11. FilesFirst' /\ Unique'
  <2>1. FilesFirst'
    BY <1>0, <1>1, <1>4, <1>6, <1>8 DEF Kin, FilesFirst, Kept
  <2>2. Unique'
    BY <1>0, <1>1, <1>6, <1>8 DEF Kin, Unique
  <2> QED
    BY <2>1, <2>2
<1>12. LogSplit'
  <2>1. \A i \in DOMAIN frozen : frozen[i].seg # seg
    BY <1>0, FrozenType DEF OrderInv, FlushOrder, TypeOK, MemoryTypeOK
  <2>2. fl.pc = "delete" => fl.seg # seg
    BY <1>0 DEF OrderInv, FlushInProgress, TypeOK, MemoryTypeOK, WorkerTypeOK
  <2> QED
    BY <1>0, <1>1, <1>2, <1>4, <1>5, <1>6, <2>1, <2>2 DEF Kin, LogSplit, Live
<1>13. Ages'
  <2>1. \A d \in Calls : (d \in active \/ InQueue(d) \/ InFile(d)) => docID[d] < docID[c]
    BY <1>0, <1>8, LiveIsKept DEF Kept
  <2>2. \A d \in Calls : (pc'[d] = "appended" => d = c) /\ pc'[d] \notin Numbered
    BY <1>2, <1>9 DEF InFlight, Numbered
  <2>3. \A d \in Calls : Kept(d)' => docID[d] <= alloc
    BY <1>0, <1>1, <1>6 DEF Kin, Ages, Numbered
  <2>4. /\ \A i, j \in DOMAIN frozen : i < j =>
              \A d \in frozen[i].mt, e \in frozen[j].mt : docID[d] < docID[e]
        /\ \A i \in DOMAIN frozen : \A d \in frozen[i].mt, e \in active : docID[d] < docID[e]
    BY <1>0 DEF Kin, Ages
  <2> QED
    BY <1>1, <1>4, <2>1, <2>2, <2>3, <2>4 DEF Ages
<1> QED
  BY <1>6, <1>10, <1>11, <1>12, <1>13 DEF Kin

\* The record enters the MemTable as its youngest.
LEMMA PutKin ==
    ASSUME BaseInv, Alone, Kin, NEW c \in Calls, Put(c)
    PROVE  Kin' /\ \A d : Kept(d)' <=> Kept(d)
<1>0. /\ TypeOK /\ OrderInv /\ status # "down" /\ docID \in [Calls -> Nat]
  BY DownIsStill DEF BaseInv, SafetyInv, OrderInv, WriteStep, TypeOK, CallTypeOK
<1>1. /\ UNCHANGED <<wal, sst, frozen, seg, status, fl, docID, alloc>>
      /\ pc[c] = "appended" /\ pc' = [pc EXCEPT ![c] = "put"] /\ active' = active \cup {c}
  BY DEF Put, disk, workers, Goto
<1>2. /\ \A d \in Calls \ {c} : pc'[d] = pc[d]
      /\ pc'[c] = "put"
  BY <1>0, <1>1 DEF TypeOK, CallTypeOK
<1>3. \A d : /\ InLog(d)' <=> InLog(d)
             /\ InFile(d)' <=> InFile(d)
             /\ InQueue(d)' <=> InQueue(d)
             /\ Kept(d)' <=> Kept(d)
             /\ \A s : InSeg(d, s)' <=> InSeg(d, s)
  BY <1>1 DEF InLog, InFile, InQueue, Kept, InSeg
<1>4. \A d \in Calls : pc'[d] # "appended" /\ (pc'[d] \in Numbered => pc[d] \in Numbered)
  BY <1>1, <1>2 DEF Alone, InFlight, Numbered
<1>5. AckedKept' /\ FilesFirst' /\ Unique'
  BY <1>1, <1>2, <1>3 DEF Kin, AckedKept, Logging, FilesFirst, Unique
<1>6. LogSplit'
  BY <1>1, <1>2, <1>3 DEF Kin, LogSplit, Live
<1>7. Ages'
  <2>1. \A i \in DOMAIN frozen : \A d \in frozen[i].mt : docID[d] < docID[c]
    <3>1. \A i \in DOMAIN frozen : \A d \in frozen[i].mt : d \in Calls /\ InQueue(d)
      BY <1>0, FrozenType DEF InQueue
    <3> QED
      BY <1>0, <1>1, <3>1 DEF Kin, Ages
  <2> QED
    BY <1>0, <1>1, <1>3, <1>4, <2>1 DEF Kin, Ages
<1> QED
  BY <1>3, <1>5, <1>6, <1>7 DEF Kin

\* A rotation takes MemTable and segment together; no append is under way.
LEMMA RotateKin ==
    ASSUME BaseInv, Kin, FreezeRotate
    PROVE  Kin' /\ \A d : Kept(d)' <=> Kept(d)
<1>0. /\ TypeOK /\ OrderInv /\ SafetyInv /\ status # "down" /\ docID \in [Calls -> Nat]
  BY DownIsStill DEF BaseInv, SafetyInv, OrderInv, FreezeStep, TypeOK, CallTypeOK
<1>1. /\ UNCHANGED <<sst, status, fl, pc, docID, alloc>> /\ active' = {}
      /\ seg' = seg + 1 /\ wal' = With(wal, seg + 1, <<>>) /\ NoReader
  BY DEF FreezeRotate, files
<1>2. \A d \in Calls : pc[d] # "appended"
  BY <1>1 DEF NoReader, ReadLocked
<1>3. \A d, s : InSeg(d, s)' <=> InSeg(d, s)
  <2> SUFFICES ASSUME NEW d, NEW s PROVE InSeg(d, s)' <=> InSeg(d, s)
    OBVIOUS
  <2>1. seg + 1 \notin DOMAIN wal
    BY <1>0 DEF OrderInv, ActiveIsNewest, TypeOK, MemoryTypeOK, DiskTypeOK
  <2>2. d \notin Range(<<>>)
    BY EmptyIsSeq DEF Range
  <2> QED
    BY <1>1, <2>1, <2>2 DEF InSeg, With
<1>4. \A d : /\ InLog(d)' <=> InLog(d)
             /\ InFile(d)' <=> InFile(d)
             /\ Kept(d)' <=> Kept(d)
  <2>1. \A d : (InLog(d) <=> \E s : InSeg(d, s)) /\ (InLog(d)' <=> \E s : InSeg(d, s)')
    BY DEF InLog, InSeg
  <2> QED
    BY <1>1, <1>3, <2>1 DEF Kept, InFile
<1>5. /\ DOMAIN frozen = 1..Len(frozen) /\ DOMAIN frozen' = 1..(Len(frozen) + 1)
      /\ Len(frozen) \in Nat /\ \A i \in DOMAIN frozen : frozen'[i] = frozen[i]
      /\ frozen'[Len(frozen) + 1].mt = active /\ frozen'[Len(frozen) + 1].seg = seg
  BY <1>0, RotateIs
<1>6. \A d : InQueue(d)' <=> InQueue(d) \/ d \in active
  <2>1. ASSUME NEW d, NEW i \in DOMAIN frozen', d \in frozen'[i].mt PROVE InQueue(d) \/ d \in active
    BY <1>5, <2>1 DEF InQueue
  <2>2. ASSUME NEW d, InQueue(d) \/ d \in active PROVE \E i \in DOMAIN frozen' : d \in frozen'[i].mt
    BY <1>5, <2>2 DEF InQueue
  <2> QED
    BY <2>1, <2>2 DEF InQueue
<1>7. AckedKept' /\ FilesFirst' /\ Unique'
  BY <1>1, <1>4 DEF Kin, AckedKept, FilesFirst, Unique
<1>8. LogSplit'
  <2> SUFFICES ASSUME NEW c \in Calls
               PROVE  /\ InLog(c)' => InFile(c)' \/ Live(c)'
                      /\ InSeg(c, seg)' => InFile(c)' \/ c \in active' \/ pc'[c] = "appended"
                      /\ \A i \in DOMAIN frozen' :
                           InSeg(c, frozen[i].seg)' => InFile(c)' \/ c \in frozen'[i].mt
                      /\ fl'.pc = "delete" /\ InSeg(c, fl.seg)' => InFile(c)'
    BY DEF LogSplit
  <2>1. InLog(c)' => InFile(c)' \/ Live(c)'
    BY <1>0, <1>1, <1>2, <1>4, <1>6 DEF Kin, LogSplit, Live
  <2>2. ~InSeg(c, seg)'
    <3>1. ~InSeg(c, seg + 1)
      BY <1>0 DEF InSeg, OrderInv, ActiveIsNewest, TypeOK, MemoryTypeOK, DiskTypeOK
    <3> QED
      BY <1>1, <1>3, <3>1
  <2>3. ASSUME NEW i \in DOMAIN frozen', InSeg(c, frozen[i].seg)'
        PROVE  InFile(c) \/ c \in frozen'[i].mt
    <3>1. CASE i \in DOMAIN frozen
      BY <1>0, <1>3, <1>5, <2>3, <3>1 DEF Kin, LogSplit
    <3>2. CASE i = Len(frozen) + 1
      BY <1>0, <1>2, <1>3, <1>5, <2>3, <3>2 DEF Kin, LogSplit
    <3> QED
      BY <1>5, <3>1, <3>2
  <2>4. fl'.pc = "delete" /\ InSeg(c, fl.seg)' => InFile(c)
    BY <1>0, <1>1, <1>3 DEF Kin, LogSplit
  <2> QED
    BY <1>4, <2>1, <2>2, <2>3, <2>4
<1>9. Ages'
  <2>1. ASSUME NEW i \in DOMAIN frozen', NEW j \in DOMAIN frozen', i < j,
               NEW c \in frozen'[i].mt, NEW d \in frozen'[j].mt
        PROVE  docID[c] < docID[d]
    <3>1. CASE j \in DOMAIN frozen
      BY <1>0, <1>5, <2>1, <3>1 DEF Kin, Ages
    <3>2. CASE j = Len(frozen) + 1
      BY <1>0, <1>5, <2>1, <3>2 DEF Kin, Ages
    <3> QED
      BY <1>5, <3>1, <3>2
  <2> QED
    BY <1>0, <1>1, <1>2, <1>4, <2>1 DEF Kin, Ages
<1> QED
  BY <1>4, <1>7, <1>8, <1>9 DEF Kin

\* A file is written from the head of the queue, the oldest records not yet
\* in one.
LEMMA FileKin ==
    ASSUME BaseInv, Kin, FlushWrite \/ FlushFail PROVE  Kin' /\ \A d : Kept(d)' <=> Kept(d)
<1>0. /\ TypeOK /\ OrderInv /\ SafetyInv /\ status # "down" /\ docID \in [Calls -> Nat]
  BY DownIsStill DEF BaseInv, SafetyInv, OrderInv, FlushStep, TypeOK, CallTypeOK
<1>1. /\ UNCHANGED <<wal, active, frozen, seg, status, pc, docID, alloc>>
      /\ fl.pc = "write" /\ fl'.pc # "delete" /\ nextSST' = nextSST + 1
      /\ sst' = sst \/ sst' = With(sst, nextSST + 1, fl.mt)
  BY <1>0 DEF FlushWrite, FlushFail, TypeOK, WorkerTypeOK
<1>2. CASE sst' = sst
  <2>1. SameRecords
    BY <1>1, <1>2 DEF SameRecords
  <2> QED
    BY <1>0, <1>1, <2>1, StillKin, SamePlaces
<1>3. CASE sst' = With(sst, nextSST + 1, fl.mt)
  <2>1. 1 \in DOMAIN frozen /\ frozen[1].mt = fl.mt
    <3>1. frozen # <<>> /\ Head(frozen) = [mt |-> fl.mt, seg |-> fl.seg]
      BY <1>0, <1>1 DEF OrderInv, FlushOrder
    <3> QED
      BY <1>0, <3>1, FrozenType
  <2>2. \A d : InFile(d)' <=> InFile(d) \/ d \in fl.mt
    <3>1. /\ DOMAIN sst' = DOMAIN sst \cup {nextSST'} /\ sst'[nextSST'] = fl.mt
          /\ \A i \in DOMAIN sst : sst'[i] = sst[i]
      BY <1>0, <1>1, <1>3, NewTableIsNew
    <3> QED
      BY <3>1 DEF InFile
  <2>3. \A d : /\ InLog(d)' <=> InLog(d)
               /\ InQueue(d)' <=> InQueue(d)
               /\ \A s : InSeg(d, s)' <=> InSeg(d, s)
    BY <1>1 DEF InLog, InQueue, InSeg
  <2>4. \A d \in fl.mt : d \in Calls /\ InQueue(d) /\ InLog(d)
    <3>1. \A d \in fl.mt : d \in Calls /\ InQueue(d)
      BY <1>0, <2>1, FrozenType DEF InQueue
    <3> QED
      BY <1>0, <3>1, LiveIsKept
  <2>5. \A d : Kept(d)' <=> Kept(d)
    BY <2>2, <2>3, <2>4 DEF Kept
  <2>6. AckedKept' /\ Unique'
    BY <1>1, <2>5 DEF Kin, AckedKept, Unique
  <2>7. FilesFirst'
    <3> SUFFICES ASSUME NEW c \in Calls, NEW t \in Calls, InLog(c), InFile(t)',
                        docID[c] <= docID[t]
                 PROVE  InFile(c)'
      BY <1>1, <2>3 DEF FilesFirst
    <3>1. CASE InFile(t)
      BY <2>2, <3>1 DEF Kin, FilesFirst
    <3>2. CASE t \in fl.mt
      <4>1. InFile(c) \/ c \in active \/ InQueue(c) \/ pc[c] = "appended"
        BY <1>0 DEF Kin, LogSplit, Live
      <4>2. CASE c \in active
        BY <1>0, <2>1, <3>2, <4>2 DEF Kin, Ages
      <4>3. CASE InQueue(c)
        <5>1. PICK j \in DOMAIN frozen : c \in frozen[j].mt
          BY <4>3 DEF InQueue
        <5>2. j = 1 \/ 1 < j
          BY <1>0, FrozenType
        <5>3. 1 < j => docID[t] < docID[c]
          BY <1>0, <2>1, <3>2, <5>1 DEF Kin, Ages
        <5> QED
          BY <1>0, <2>1, <2>2, <5>1, <5>2, <5>3
      <4>4. CASE pc[c] = "appended"
        BY <1>0, <2>4, <3>2, <4>4 DEF Kin, Ages
      <4> QED
        BY <2>2, <4>1, <4>2, <4>3, <4>4
    <3> QED
      BY <2>2, <3>1, <3>2
  <2>8. LogSplit'
    BY <1>1, <2>2, <2>3 DEF Kin, LogSplit, Live
  <2>9. Ages'
    BY <1>0, <1>1, <2>2, <2>3, <2>4, <2>5 DEF Kin, Ages
  <2> QED
    BY <2>5, <2>6, <2>7, <2>8, <2>9 DEF Kin
<1> QED
  BY <1>1, <1>2, <1>3

\* The head leaves the queue when its records are in a file.
LEMMA SwapKin ==
    ASSUME BaseInv, Kin, FlushSwap
    PROVE  Kin' /\ \A d : Kept(d)' <=> Kept(d)
<1>0. /\ TypeOK /\ OrderInv /\ status # "down" /\ docID \in [Calls -> Nat]
  BY DownIsStill DEF BaseInv, SafetyInv, OrderInv, FlushStep, TypeOK, CallTypeOK
<1>1. /\ UNCHANGED <<wal, sst, active, seg, status, pc, docID, alloc>>
      /\ fl.pc = "swap" /\ fl'.pc = "delete" /\ fl'.seg = fl.seg
  BY <1>0 DEF FlushSwap, disk, TypeOK, WorkerTypeOK
<1>2. frozen # <<>> /\ Head(frozen) = [mt |-> fl.mt, seg |-> fl.seg]
  BY <1>0, <1>1 DEF OrderInv, FlushOrder
<1>3. /\ DOMAIN frozen = 1..Len(frozen) /\ DOMAIN frozen' = 1..(Len(frozen) - 1)
      /\ \A i \in DOMAIN frozen' : frozen'[i] = frozen[i + 1] /\ i + 1 \in DOMAIN frozen
      /\ \A i \in DOMAIN frozen : i = 1 \/ (i - 1 \in DOMAIN frozen' /\ frozen'[i - 1] = frozen[i])
      /\ 1 \in DOMAIN frozen /\ frozen[1].mt = fl.mt /\ frozen[1].seg = fl.seg
  BY <1>0, <1>2, SwapIs
<1>4. \A d \in fl.mt : InFile(d)
  BY <1>0, <1>1 DEF OrderInv, FlushInProgress, InFile
<1>5. \A d : /\ InLog(d)' <=> InLog(d)
             /\ InFile(d)' <=> InFile(d)
             /\ Kept(d)' <=> Kept(d)
             /\ \A s : InSeg(d, s)' <=> InSeg(d, s)
  BY <1>1 DEF InLog, InFile, Kept, InSeg
<1>6. \A d : /\ InQueue(d)' => InQueue(d)
             /\ InQueue(d) => InQueue(d)' \/ InFile(d)
  <2>1. ASSUME NEW d, InQueue(d)' PROVE InQueue(d)
    BY <1>3, <2>1 DEF InQueue
  <2>2. ASSUME NEW d, InQueue(d) PROVE InQueue(d)' \/ InFile(d)
    <3>1. PICK i \in DOMAIN frozen : d \in frozen[i].mt
      BY <2>2 DEF InQueue
    <3>2. CASE i = 1
      BY <1>3, <1>4, <3>1, <3>2
    <3>3. CASE i - 1 \in DOMAIN frozen' /\ frozen'[i - 1] = frozen[i]
      BY <3>1, <3>3 DEF InQueue
    <3> QED
      BY <1>3, <3>2, <3>3
  <2> QED
    BY <2>1, <2>2
<1>7. AckedKept' /\ FilesFirst' /\ Unique'
  BY <1>1, <1>5 DEF Kin, AckedKept, FilesFirst, Unique
<1>8. LogSplit'
  <2> SUFFICES ASSUME NEW c \in Calls
               PROVE  /\ InLog(c) => InFile(c) \/ Live(c)'
                      /\ InSeg(c, seg) => InFile(c) \/ c \in active \/ pc[c] = "appended"
                      /\ \A i \in DOMAIN frozen' :
                           InSeg(c, frozen'[i].seg) => InFile(c) \/ c \in frozen'[i].mt
                      /\ InSeg(c, fl.seg) => InFile(c)
    BY <1>1, <1>5 DEF LogSplit
  <2>1. InLog(c) => InFile(c) \/ Live(c)'
    BY <1>0, <1>1, <1>6 DEF Kin, LogSplit, Live
  <2>2. InSeg(c, seg) => InFile(c) \/ c \in active \/ pc[c] = "appended"
    BY <1>0 DEF Kin, LogSplit
  <2>3. \A i \in DOMAIN frozen : InSeg(c, frozen[i].seg) => InFile(c) \/ c \in frozen[i].mt
    BY <1>0 DEF Kin, LogSplit
  <2> QED
    BY <1>3, <1>4, <2>1, <2>2, <2>3
<1>9. Ages'
  <2>1. ASSUME NEW i \in DOMAIN frozen', NEW j \in DOMAIN frozen', i < j,
               NEW c \in frozen'[i].mt, NEW d \in frozen'[j].mt
        PROVE  docID[c] < docID[d]
    <3>1. /\ i + 1 \in DOMAIN frozen /\ j + 1 \in DOMAIN frozen /\ i + 1 < j + 1
          /\ c \in frozen[i + 1].mt /\ d \in frozen[j + 1].mt
      BY <1>3, <2>1
    <3> QED
      BY <1>0, <3>1 DEF Kin, Ages
  <2>2. ASSUME NEW i \in DOMAIN frozen', NEW c \in frozen'[i].mt, NEW d \in active
        PROVE  docID[c] < docID[d]
    BY <1>0, <1>3, <2>2 DEF Kin, Ages
  <2>3. /\ \A c, d \in Calls :
             pc[d] = "appended" /\ (c \in active \/ InQueue(c)' \/ InFile(c)) => docID[c] < docID[d]
        /\ \A c, d \in Calls : pc[d] \in Numbered /\ Kept(c) => docID[c] < docID[d]
        /\ \A c \in Calls : Kept(c) \/ pc[c] \in Numbered => docID[c] <= alloc
    BY <1>0, <1>6 DEF Kin, Ages
  <2> QED
    BY <1>1, <1>5, <2>1, <2>2, <2>3 DEF Ages
<1> QED
  BY <1>5, <1>7, <1>8, <1>9 DEF Kin

\* What is deleted with a segment is in a file.
LEMMA DeleteKin ==
    ASSUME BaseInv, Kin, FlushDelete PROVE Kin' /\ \A d \in Calls : Kept(d)' <=> Kept(d)
<1>0. /\ TypeOK /\ OrderInv /\ SafetyInv /\ status # "down"
  BY DownIsStill DEF BaseInv, SafetyInv, OrderInv, FlushStep
<1>1. /\ UNCHANGED <<sst, active, frozen, seg, status, pc, docID, alloc>>
      /\ fl.pc = "delete" /\ fl'.pc = "signal"
      /\ wal' = wal \/ wal' = Without(wal, {fl.seg})
  BY <1>0 DEF FlushDelete, memory, TypeOK, WorkerTypeOK
<1>2. \A d, s : /\ InSeg(d, s)' => InSeg(d, s)
                /\ InSeg(d, s) => InSeg(d, s)' \/ s = fl.seg
  BY <1>1 DEF InSeg, Without
<1>3. \A d : /\ InFile(d)' <=> InFile(d)
             /\ InQueue(d)' <=> InQueue(d)
  BY <1>1 DEF InFile, InQueue
<1>4. \A d : /\ InLog(d) <=> \E s : InSeg(d, s)
             /\ InLog(d)' <=> \E s : InSeg(d, s)'
  BY DEF InLog, InSeg
<1>5. \A d : InLog(d)' => InLog(d)
  BY <1>2, <1>4
<1>6. \A d \in Calls : InLog(d) => InLog(d)' \/ InFile(d)
  BY <1>0, <1>1, <1>2, <1>4 DEF Kin, LogSplit
<1>7. \A d \in Calls : Kept(d)' <=> Kept(d)
  BY <1>3, <1>5, <1>6 DEF Kept
<1>8. AckedKept' /\ FilesFirst' /\ Unique'
  BY <1>1, <1>3, <1>5, <1>7 DEF Kin, AckedKept, FilesFirst, Unique
<1>9. LogSplit'
  BY <1>1, <1>2, <1>3, <1>5 DEF Kin, LogSplit, Live
<1>10. Ages'
  BY <1>0, <1>1, <1>3, <1>7 DEF Kin, Ages
<1> QED
  BY <1>7, <1>8, <1>9, <1>10 DEF Kin

-----------------------------------------------------------------------------
(* What a restart finds.                                                   *)

\* Without tears and damage, replay reads every logged record and skips only
\* records the files hold: recovery would serve exactly what is kept.
LEMMA RecoverableIs ==
    ASSUME SafetyInv, Untorn, FilesFirst
    PROVE  /\ \A c : (c \in Logged <=> InLog(c)) /\ (c \in Persisted <=> InFile(c))
           /\ \A c \in Calls : InLog(c) /\ Covered(c) => InFile(c)
           /\ \A c : c \in Recoverable => c \in Calls
           /\ \A c \in Calls : c \in Recoverable <=> Kept(c)
<1>0. TypeOK /\ DiskTypeOK
  BY DEF SafetyInv, TypeOK
<1>1. ASSUME NEW s \in DOMAIN wal, NEW k \in DOMAIN wal[s] PROVE Readable(wal[s], k)
  <2>1. wal[s] \in Seq(Calls \cup {Torn}) /\ DOMAIN wal[s] = 1..Len(wal[s]) /\ Len(wal[s]) \in Nat
    BY <1>0 DEF DiskTypeOK
  <2>2. \A j \in DOMAIN wal[s] : wal[s][j] # Torn
    BY DEF Untorn, InLog, Range
  <2> QED
    BY <2>1, <2>2 DEF Readable
<1>2. \A c : c \in Logged <=> InLog(c)
  BY <1>1 DEF Logged, Replay, InLog, Range
<1>3. \A c : c \in Persisted <=> InFile(c)
  BY DEF Persisted, InFile, Untorn
<1>4. \A c : InFile(c) => c \in Calls
  BY <1>0 DEF DiskTypeOK, InFile
<1>5. \A c : c \in Logged => c \in Calls
  BY <1>0, LoggedType
<1>6. \A c \in Calls : InLog(c) /\ Covered(c) => InFile(c)
  BY <1>3, <1>4 DEF Covered, FilesFirst
<1>7. \A c : c \in Recoverable => c \in Calls
  BY <1>3, <1>4, <1>5 DEF Recoverable, Replayed
<1>8. \A c \in Calls : c \in Recoverable <=> Kept(c)
  BY <1>2, <1>3, <1>6 DEF Recoverable, Replayed, Kept
<1> QED
  BY <1>2, <1>3, <1>6, <1>7, <1>8

\* Recovery drops only segments whose records are all in files, and numbers
\* new records above all that is kept.
LEMMA OpenKin ==
    ASSUME BaseInv, Untorn, Kin, Open
    PROVE  Kin' /\ \A c \in Calls : Kept(c)' <=> Kept(c)
<1>0. /\ SafetyInv /\ TypeOK /\ OrderInv /\ FilesFirst /\ docID \in [Calls -> Nat]
  BY DEF BaseInv, SafetyInv, TypeOK, CallTypeOK, Kin
<1>1. /\ UNCHANGED <<pc, docID>> /\ active' = Replayed /\ frozen' = <<>> /\ fl'.pc = "wait"
      /\ bad = {} /\ sst' = Without(sst, bad) /\ DOMAIN frozen' = {}
      /\ \A c \in Calls : pc[c] \notin InFlight
  BY <1>0, EmptyIsSeq DEF Open, IdleFlusher, OrderInv, QuietWhenDown, Untorn
<1>2. \A c \in Calls : pc[c] # "appended" /\ pc[c] \notin Numbered
  BY <1>1 DEF InFlight, Numbered
<1>3. \A c : InFile(c)' <=> InFile(c)
  BY <1>1 DEF InFile, Without
<1>4. PICK last \in Segments,
           D \in SUBSET {s \in DOMAIN wal : \A c \in Replay(wal[s]) : Covered(c)} :
             /\ seg' = last
             /\ wal' = [s \in Segments \ D |-> IF s \in DOMAIN wal THEN wal[s] ELSE <<>>]
  BY DEF Open
<1>5. \A c : c \notin Range(<<>>)
  BY EmptyIsSeq DEF Range
<1>6. \A c : InLog(c)' => InLog(c)
  BY <1>4, <1>5 DEF InLog
<1>7. ASSUME NEW c \in Calls, InLog(c) PROVE InLog(c)' \/ InFile(c)
  <2>1. PICK s \in DOMAIN wal : c \in Range(wal[s])
    BY <1>7 DEF InLog
  <2>2. CASE s \in D
    <3>1. c \in Replay(wal[s])
      <4>1. PICK k \in DOMAIN wal[s] : wal[s][k] = c
        BY <2>1 DEF Range
      <4>2. wal[s] \in Seq(Calls \cup {Torn})
        BY <1>0 DEF TypeOK, DiskTypeOK
      <4>3. Readable(wal[s], k)
        <5>1. \A j \in DOMAIN wal[s] : wal[s][j] # Torn
          BY <2>1 DEF Untorn, InLog, Range
        <5> QED
          BY <4>2, <5>1 DEF Readable
      <4> QED
        BY <4>1, <4>3 DEF Replay
    <3>2. Covered(c)
      BY <1>4, <2>2, <3>1
    <3> QED
      BY <1>0, <1>7, <3>2, RecoverableIs
  <2>3. CASE s \notin D
    <3>1. s \in DOMAIN wal' /\ wal'[s] = wal[s]
      BY <1>4, <2>1, <2>3 DEF Segments
    <3> QED
      BY <2>1, <3>1 DEF InLog
  <2> QED
    BY <2>2, <2>3
<1>8. \A c \in Calls : Kept(c)' <=> Kept(c)
  BY <1>3, <1>6, <1>7 DEF Kept
<1>9. AckedKept' /\ FilesFirst' /\ Unique'
  BY <1>1, <1>3, <1>6, <1>8 DEF Kin, AckedKept, FilesFirst, Unique
<1>10. \A c \in Calls : InLog(c)' => InFile(c) \/ c \in Replayed
  BY <1>0, <1>6, RecoverableIs DEF Replayed
<1>11. LogSplit'
  <2>1. \A c, s : InSeg(c, s)' => InLog(c)'
    BY DEF InSeg, InLog
  <2> QED
    BY <1>1, <1>3, <1>10, <2>1 DEF LogSplit, Live
<1>12. Ages'
  <2>1. \A c \in Calls : Kept(c)' => docID[c] <= alloc'
    BY <1>0, <1>8, RecoverableIs DEF Open, IsMaxOf, Observed, Untorn
  <2> QED
    BY <1>1, <1>2, <2>1 DEF Ages
<1> QED
  BY <1>8, <1>9, <1>11, <1>12 DEF Kin

\* When the process stops, the disk stays as it is.
LEMMA StopKin ==
    ASSUME OneClient, BaseInv, Kin, Stop
    PROVE  Kin' /\ \A c : Kept(c)' <=> Kept(c)
<1>0. TypeOK
  BY DEF BaseInv, SafetyInv
<1>1. /\ UNCHANGED <<wal, sst, docID>> /\ status' = "down"
  BY DEF Stop, OneClient
<1>2. \A c \in Calls : pc'[c] \in Logging => pc[c] \in Logging
  BY <1>0 DEF Stop, Logging, InFlight, TypeOK, CallTypeOK
<1>3. \A c : /\ InLog(c)' <=> InLog(c)
             /\ InFile(c)' <=> InFile(c)
             /\ Kept(c)' <=> Kept(c)
  BY <1>1 DEF InLog, InFile, Kept
<1>4. AckedKept' /\ FilesFirst' /\ Unique'
  BY <1>1, <1>2, <1>3 DEF Kin, AckedKept, FilesFirst, Unique
<1>5. LogSplit' /\ Ages'
  BY <1>1 DEF LogSplit, Ages
<1> QED
  BY <1>3, <1>4, <1>5 DEF Kin

\* The steps that move no record.
LEMMA CallKin ==
    ASSUME OneClient, BaseInv, Kin, NEW c \in Calls,
           WriteCall(c) \/ GateTimeout(c) \/ WriteStep(c),
           ~Allocate(c), ~AppendRecord(c), ~Put(c)
    PROVE  Kin' /\ SameRecords
<1>0. TypeOK
  BY DEF BaseInv, SafetyInv
<1> USE DEF TypeOK, CallTypeOK, Numbered, Logging, Goto, SameRecords, disk, memory, workers
<1>1. CASE WriteCall(c) \/ GateTimeout(c) \/ GatePass(c) \/ GateStall(c) \/ GateRefuse(c)
  BY <1>0, <1>1, StillKin DEF WriteCall, GateTimeout, GatePass, GateStall, GateRefuse
<1>2. CASE Bind(c)
  BY <1>0, <1>2, StillKin DEF Bind
<1>3. CASE AppendFail(c)
  <2>1. wal' = wal
    BY <1>3 DEF AppendFail, OneClient
  <2> QED
    BY <1>0, <1>3, <2>1, StillKin DEF AppendFail
<1>4. CASE WriteReturn(c)
  BY <1>0, <1>4, StillKin DEF WriteReturn
<1> QED
  BY <1>1, <1>2, <1>3, <1>4 DEF WriteStep

LEMMA WorkerKin ==
    ASSUME BaseInv, Kin, FreezeStep \/ FlushStep,
           ~FreezeRotate, ~FlushWrite, ~FlushFail, ~FlushSwap, ~FlushDelete
    PROVE  Kin' /\ SameRecords
<1>0. TypeOK
  BY DEF BaseInv, SafetyInv
<1>1. CASE FreezeStep
  <2>1. SameRecords /\ UNCHANGED <<fl, status, pc>>
    BY <1>1, FreezeFrame DEF FreezeStep, FreezeReceive, FreezeSkip, SealFail, FreezeFatal,
         FreezeSignal, FreezeExit, SameRecords, memory, disk
  <2> QED
    BY <1>0, <2>1, StillKin
<1>2. CASE FlushStep
  <2>0. fl \in [pc : FlusherLabels, mt : SUBSET Calls, seg : Nat, id : Nat, fails : Nat]
    BY <1>0 DEF TypeOK, WorkerTypeOK
  <2>1. SameRecords /\ UNCHANGED <<status, pc>>
    BY <1>2 DEF FlushStep, FlushReceive, FlushNothing, FlushSnapshot, FlushRetry,
         FlushSignal, FlushFatal, FlushExit, SameRecords, memory, disk
  <2>2. fl'.pc # "delete"
    <3>1. CASE FlushReceive \/ FlushSnapshot \/ FlushRetry
      BY <2>0, <3>1 DEF FlushReceive, FlushSnapshot, FlushRetry
    <3>2. CASE FlushNothing \/ FlushSignal \/ FlushFatal \/ FlushExit
      BY <3>2 DEF FlushNothing, FlushSignal, FlushFatal, FlushExit, IdleFlusher
    <3> QED
      BY <1>2, <3>1, <3>2 DEF FlushStep
  <2> QED
    BY <1>0, <2>1, <2>2, StillKin
<1> QED
  BY <1>1, <1>2

LEMMA CloseKin ==
    ASSUME BaseInv, Kin, CloseBegin \/ CloseFinish PROVE Kin' /\ SameRecords
<1>0. TypeOK
  BY DEF BaseInv, SafetyInv
<1>1. SameRecords /\ UNCHANGED <<fl, pc>> /\ status # "down" /\ status' # "down"
  BY DEF CloseBegin, CloseFinish, SameRecords, disk, workers
<1> QED
  BY <1>0, <1>1, StillKin

LEMMA KinStep ==
    ASSUME OneClient, BaseInv, DurInv, [Next]_vars PROVE Kin'
<1>0. TypeOK /\ Untorn /\ Alone /\ Kin
  BY DEF BaseInv, SafetyInv, DurInv
<1>1. ASSUME NEW c \in Calls, WriteCall(c) \/ GateTimeout(c) \/ WriteStep(c) PROVE Kin'
  BY <1>0, <1>1, AllocateKin, AppendKin, PutKin, CallKin
<1>2. CASE FreezeStep \/ FlushStep
  BY <1>0, <1>2, RotateKin, FileKin, SwapKin, DeleteKin, WorkerKin
<1>3. CASE Open \/ Stop \/ CloseBegin \/ CloseFinish
  BY <1>0, <1>3, OpenKin, StopKin, CloseKin
<1>4. ~ \E i \in DOMAIN sst : Damage(i)
  BY <1>0 DEF Damage, OneClient, TypeOK, CallTypeOK
<1>5. CASE UNCHANGED vars
  <2>1. SameRecords /\ UNCHANGED <<fl, pc, status>>
    BY <1>5 DEF vars, disk, memory, workers, SameRecords
  <2> QED
    BY <1>0, <2>1, StillKin
<1> QED
  BY <1>1, <1>2, <1>3, <1>4, <1>5 DEF Next

LEMMA DurStep ==
    ASSUME OneClient PROVE BaseInv /\ DurInv /\ [Next]_vars => DurInv'
<1> SUFFICES ASSUME BaseInv, DurInv, [Next]_vars PROVE DurInv'
  OBVIOUS
<1>1. SafetyInv /\ TypeOK /\ Untorn /\ Alone
  BY DEF BaseInv, SafetyInv, DurInv
<1> QED
  BY <1>1, UntornStep, AloneStep, KinStep DEF DurInv

LEMMA InitDur == Init => DurInv
<1> SUFFICES ASSUME Init PROVE DurInv
  OBVIOUS
<1>1. /\ DOMAIN wal = {} /\ DOMAIN sst = {} /\ bad = {} /\ status = "down"
      /\ \A c \in Calls : pc[c] = "idle"
  BY EmptyIsSeq DEF Init
<1>2. \A c : ~InLog(c) /\ ~InFile(c) /\ ~Kept(c)
  BY <1>1 DEF InLog, InFile, Kept
<1>3. Untorn /\ Alone
  BY <1>1, <1>2 DEF Untorn, Alone, InFlight
<1>4. Kin
  BY <1>1, <1>2 DEF Kin, AckedKept, FilesFirst, Unique, LogSplit, Ages, Logging
<1> QED
  BY <1>3, <1>4 DEF DurInv

LEMMA DurAlways == ASSUME OneClient PROVE Spec => [](BaseInv /\ DurInv)
<1>1. Init => EarlyUntraced
  BY InitUntraced DEF EarlyUntraced
<1>2. SafetyInv => TypeOK /\ OrderInv
  BY DEF SafetyInv
<1>3. Spec => []EarlyUntraced
  BY <1>1, <1>2, EarlyUntracedStep, Safety, PTL DEF Spec
<1>4. Spec => []BaseInv
  <2>1. BaseInv <=> SafetyInv /\ EarlyUntraced
    BY DEF BaseInv
  <2> QED
    BY <1>3, <2>1, Safety, PTL
<1> QED
  BY <1>4, InitDur, DurStep, PTL DEF Spec

-----------------------------------------------------------------------------
\* A record whose Write succeeded survives every crash from then on.
THEOREM AckedSurvive == ASSUME OneClient PROVE Spec => []AckedRecoverable
<1>1. BaseInv /\ DurInv => AckedRecoverable
  <2> SUFFICES ASSUME BaseInv, DurInv, NEW c \in Acked PROVE c \in Recoverable
    BY DEF AckedRecoverable
  <2>1. c \in Calls /\ Kept(c)
    BY DEF Acked, DurInv, Kin, AckedKept, Logging
  <2> QED
    BY <2>1, RecoverableIs DEF BaseInv, DurInv, Kin
<1> QED
  BY <1>1, DurAlways, PTL

\* No two of them share a DocID, whatever restarts lie between.
THEOREM AckedIdsDiffer == ASSUME OneClient PROVE Spec => []AckedIdsUnique
<1>1. BaseInv /\ DurInv => AckedIdsUnique
  BY DEF AckedIdsUnique, Acked, DurInv, Kin, AckedKept, Logging, Unique
<1> QED
  BY <1>1, DurAlways, PTL

-----------------------------------------------------------------------------
(* The engine implements DurableStore.                                     *)

View == IF Serving THEN Visible ELSE {}

\* The workers show a read nothing new.
LEMMA WorkersShowNothing ==
    ASSUME TypeOK, OrderInv, FreezeStep \/ FlushStep
    PROVE  Visible' = Visible
<1>0. status # "down" /\ tables \subseteq DOMAIN sst
  BY DownIsStill DEF OrderInv, TypeOK, DiskTypeOK
<1>1. Visible \subseteq Visible'
  <2>1. CASE FreezeRotate
    BY <2>1, RotateKeepsVisible
  <2>2. CASE FreezeStep /\ ~FreezeRotate
    BY <2>2, FreezeFrame DEF Visible, FrozenRecords
  <2>3. CASE FlushStep
    BY <2>3, FlushKeepsVisible
  <2> QED
    BY <2>1, <2>2, <2>3
<1>2. ASSUME NEW c \in Visible' PROVE c \in Visible
  <2>0. \/ c \in active'
        \/ \E i \in DOMAIN frozen' : c \in frozen'[i].mt
        \/ \E i \in tables' : c \in sst'[i]
    BY <1>2 DEF Visible, FrozenRecords
  <2>1. CASE FreezeRotate
    <3>1. UNCHANGED <<sst, tables>> /\ active' = {}
      BY <2>1 DEF FreezeRotate, files
    <3>2. \A i \in DOMAIN frozen' : i \in DOMAIN frozen \/ i = Len(frozen) + 1
      BY <2>1, RotateIs
    <3> QED
      BY <2>0, <2>1, <3>1, <3>2, RotateIs, VisibleIs
  <2>2. CASE FreezeStep /\ ~FreezeRotate
    BY <1>2, <2>2, FreezeFrame DEF Visible, FrozenRecords
  <2>3. CASE FlushWrite \/ FlushFail
    <3>1. /\ UNCHANGED <<active, frozen, tables>> /\ nextSST' = nextSST + 1
          /\ sst' = sst \/ sst' = With(sst, nextSST + 1, fl.mt)
      BY <2>3 DEF FlushWrite, FlushFail
    <3>2. \A i \in DOMAIN sst : sst'[i] = sst[i]
      BY <1>0, <3>1, NewTableIsNew
    <3> QED
      BY <1>0, <2>0, <3>1, <3>2, VisibleIs
  <2>4. CASE FlushSwap
    <3>1. UNCHANGED <<active, sst>> /\ tables' = tables \cup {fl.id} /\ fl.pc = "swap"
      BY <2>4 DEF FlushSwap, disk
    <3>2. /\ frozen # <<>> /\ Head(frozen) = [mt |-> fl.mt, seg |-> fl.seg]
          /\ sst[fl.id] = fl.mt
      BY <3>1 DEF OrderInv, FlushOrder, FlushInProgress
    <3>3. 1 \in DOMAIN frozen /\ frozen[1].mt = fl.mt
      BY <3>2, FrozenType
    <3>4. \A i \in DOMAIN frozen' : frozen'[i] = frozen[i + 1] /\ i + 1 \in DOMAIN frozen
      BY <2>4, <3>2, SwapIs
    <3> QED
      BY <2>0, <3>1, <3>2, <3>3, <3>4, VisibleIs
  <2>5. CASE FlushStep /\ ~(FlushWrite \/ FlushFail \/ FlushSwap)
    <3>1. UNCHANGED <<active, frozen, sst, tables>>
      BY <2>5 DEF FlushStep, FlushReceive, FlushNothing, FlushSnapshot, FlushRetry, FlushDelete,
           FlushSignal, FlushFatal, FlushExit, disk, memory
    <3> QED
      BY <1>2, <3>1 DEF Visible, FrozenRecords
  <2> QED
    BY <2>1, <2>2, <2>3, <2>4, <2>5 DEF FlushStep
<1> QED
  BY <1>1, <1>2

\* What is durable, before and after a step.
LEMMA ContentsAre == BaseInv /\ DurInv => Recoverable = {c \in Calls : Kept(c)}
  BY RecoverableIs DEF BaseInv, DurInv, Kin

LEMMA ContentsNext == (BaseInv /\ DurInv)' => Recoverable' = {c \in Calls : Kept(c)'}
<1>1. BaseInv /\ DurInv => Recoverable = {c \in Calls : Kept(c)}
  BY ContentsAre
<1>2. (BaseInv /\ DurInv => Recoverable = {c \in Calls : Kept(c)})'
  BY <1>1, PTL
<1> QED
  BY <1>2

\* A step of a Write call persists, exposes or acknowledges its record.
LEMMA CallShows ==
    ASSUME OneClient, BaseInv, DurInv, (BaseInv /\ DurInv)',
           NEW c \in Calls, WriteCall(c) \/ GateTimeout(c) \/ WriteStep(c)
    PROVE  Store!Next \/ UNCHANGED Store!vars
<1>0. TypeOK /\ Alone /\ Kin /\ UNCHANGED <<status, tables, sst, frozen>>
  BY WriteFrame DEF BaseInv, SafetyInv, DurInv
<1>1. /\ Recoverable = {d \in Calls : Kept(d)} /\ Recoverable' = {d \in Calls : Kept(d)'}
  BY ContentsAre, ContentsNext
<1> USE DEF TypeOK, CallTypeOK, Goto
<1>2. CASE AppendRecord(c)
  <2>1. Recoverable' = Recoverable \cup {c}
    BY <1>0, <1>1, <1>2, AppendKin
  <2>2. View' = View
    BY <1>0, <1>2 DEF View, Serving, Visible, FrozenRecords, AppendRecord, memory
  <2>3. Acked' = Acked
    BY <1>0, <1>2 DEF Acked, AppendRecord
  <2> QED
    BY <2>1, <2>2, <2>3 DEF Store!Next, Store!Persist, View
<1>3. CASE Put(c)
  <2>1. Recoverable' = Recoverable /\ c \in Recoverable
    <3>1. Kept(c)
      BY <1>0, <1>3 DEF Put, Kin, AckedKept, Logging
    <3> QED
      BY <1>0, <1>1, <1>3, <3>1, PutKin
  <2>2. View' = View \cup {c} \/ View' = View
    BY <1>0, <1>3 DEF View, Serving, Visible, FrozenRecords, Put
  <2>3. Acked' = Acked
    BY <1>0, <1>3 DEF Acked, Put
  <2> QED
    BY <2>1, <2>2, <2>3 DEF Store!Next, Store!Expose, Store!vars, View
<1>4. CASE ~AppendRecord(c) /\ ~Put(c)
  <2>1. Recoverable' = Recoverable
    <3>1. CASE Allocate(c)
      BY <1>0, <1>1, <3>1, AllocateKin
    <3>2. CASE ~Allocate(c)
      BY <1>0, <1>1, <1>4, <3>2, CallKin, SamePlaces
    <3> QED
      BY <3>1, <3>2
  <2>2. View' = View
    <3>1. active' = active
      BY <1>4 DEF WriteCall, GateTimeout, WriteStep, GatePass, GateStall, GateRefuse, Allocate, Bind,
           AppendFail, WriteReturn, memory
    <3> QED
      BY <1>0, <3>1 DEF View, Serving, Visible, FrozenRecords
  <2>3. CASE WriteReturn(c)
    <3>1. Acked' = Acked \cup {c}
      BY <1>0, <2>3 DEF Acked, WriteReturn
    <3>2. c \in Recoverable
      BY <1>0, <1>1, <2>3 DEF WriteReturn, Kin, AckedKept, Logging
    <3> QED
      BY <2>1, <2>2, <3>1, <3>2 DEF Store!Next, Store!Acknowledge, View
  <2>4. CASE ~WriteReturn(c)
    <3>1. Acked' = Acked
      <4>1. CASE WriteCall(c) \/ GateTimeout(c) \/ GatePass(c) \/ GateStall(c) \/ GateRefuse(c)
        BY <1>0, <4>1 DEF Acked, WriteCall, GateTimeout, GatePass, GateStall, GateRefuse
      <4>2. CASE Allocate(c) \/ Bind(c) \/ AppendFail(c)
        BY <1>0, <4>2 DEF Acked, Allocate, Bind, AppendFail
      <4> QED
        BY <1>4, <2>4, <4>1, <4>2 DEF WriteStep
    <3> QED
      BY <2>1, <2>2, <3>1 DEF Store!vars, View
  <2> QED
    BY <2>3, <2>4
<1> QED
  BY <1>2, <1>3, <1>4

\* Rotation, flush and the deletion of segments are not observable.
LEMMA WorkersStutter ==
    ASSUME OneClient, BaseInv, DurInv, (BaseInv /\ DurInv)', FreezeStep \/ FlushStep
    PROVE  UNCHANGED Store!vars
<1>0. TypeOK /\ OrderInv /\ Alone /\ Kin
  BY DEF BaseInv, SafetyInv, DurInv
<1>1. UNCHANGED <<status, pc>>
  <2>1. CASE FreezeStep
    BY <2>1, FreezeFrame DEF FreezeRotate
  <2>2. CASE FlushStep
    BY <2>2 DEF FlushStep, FlushReceive, FlushNothing, FlushSnapshot, FlushWrite, FlushFail,
         FlushRetry, FlushSwap, FlushDelete, FlushSignal, FlushFatal, FlushExit, memory
  <2> QED
    BY <2>1, <2>2
<1>2. \A c \in Calls : Kept(c)' <=> Kept(c)
  BY <1>0, RotateKin, FileKin, SwapKin, DeleteKin, WorkerKin, SamePlaces
<1>3. Recoverable' = Recoverable
  BY <1>2, ContentsAre, ContentsNext
<1>4. Visible' = Visible
  BY <1>0, WorkersShowNothing
<1> QED
  BY <1>1, <1>3, <1>4 DEF Store!vars, Serving, Acked

\* Recovery serves what is durable; a stop and the end of Close hide it.
LEMMA RestartShows ==
    ASSUME OneClient, BaseInv, DurInv, (BaseInv /\ DurInv)',
           Open \/ Stop \/ CloseBegin \/ CloseFinish
    PROVE  Store!Next \/ UNCHANGED Store!vars
<1>0. TypeOK /\ OrderInv /\ Untorn /\ Kin
  BY DEF BaseInv, SafetyInv, DurInv
<1>1. Recoverable' = Recoverable
  <2>1. \A c \in Calls : Kept(c)' <=> Kept(c)
    BY <1>0, OpenKin, StopKin, CloseKin, SamePlaces
  <2> QED
    BY <2>1, ContentsAre, ContentsNext
<1>2. Acked' = Acked
  <2>1. CASE Stop
    BY <1>0, <2>1 DEF Stop, Acked, TypeOK, CallTypeOK, InFlight
  <2>2. CASE Open \/ CloseBegin \/ CloseFinish
    BY <2>2 DEF Open, CloseBegin, CloseFinish, Acked
  <2> QED
    BY <2>1, <2>2
<1>3. CASE Open
  <2>1. /\ active' = Replayed /\ frozen' = <<>> /\ DOMAIN frozen' = {} /\ Serving'
        /\ sst' = Without(sst, bad) /\ tables' = DOMAIN sst \ bad /\ bad = {}
    BY <1>0, <1>3, EmptyIsSeq DEF Open, OrderInv, QuietWhenDown, Serving, Untorn
  <2>2. \A c : c \in Visible' <=> c \in Replayed \/ \E i \in DOMAIN sst \ bad : c \in sst[i]
    BY <2>1 DEF Visible, FrozenRecords, Without
  <2>3. Visible' = Recoverable
    BY <2>2 DEF Recoverable, Persisted
  <2> QED
    BY <1>1, <1>2, <2>1, <2>3 DEF Store!Next, Store!Recover
<1>4. CASE Stop \/ CloseFinish
  <2>1. ~Serving'
    BY <1>4 DEF Stop, CloseFinish, Serving
  <2> QED
    BY <1>1, <1>2, <2>1 DEF Store!Next, Store!Hide
<1>5. CASE CloseBegin
  <2>1. Visible' = Visible /\ Serving' /\ Serving
    BY <1>5 DEF CloseBegin, Serving, Visible, FrozenRecords, disk
  <2> QED
    BY <1>1, <1>2, <2>1 DEF Store!vars
<1> QED
  BY <1>3, <1>4, <1>5

\* With one client at a time the engine is a durable, append-only store:
\* flushing, log deletion, crashes and recovery are invisible in it.
THEOREM EngineIsDurableStore == ASSUME OneClient PROVE Spec => StoreSpec
<1>1. Init => Store!Init
  <2> SUFFICES ASSUME Init PROVE Store!Init
    OBVIOUS
  <2>1. DOMAIN wal = {} /\ DOMAIN sst = {} /\ ~Serving /\ Acked = {}
    BY EmptyIsSeq DEF Init, Serving, Acked
  <2>2. Recoverable = {}
    BY <2>1 DEF Recoverable, Persisted, Replayed, Logged
  <2> QED
    BY <2>1, <2>2 DEF Store!Init
<1>2. BaseInv /\ DurInv /\ (BaseInv /\ DurInv)' /\ [Next]_vars => [Store!Next]_Store!vars
  <2> SUFFICES ASSUME BaseInv, DurInv, (BaseInv /\ DurInv)', [Next]_vars
               PROVE  Store!Next \/ UNCHANGED Store!vars
    OBVIOUS
  <2>1. CASE UNCHANGED vars
    <3>1. SameRecords /\ UNCHANGED <<status, tables, pc>>
      BY <2>1 DEF vars, disk, memory, workers, SameRecords
    <3>2. Recoverable' = Recoverable
      BY <3>1, SamePlaces, ContentsAre, ContentsNext
    <3> QED
      BY <3>1, <3>2 DEF Store!vars, Serving, Visible, FrozenRecords, Acked, SameRecords
  <2>2. ~ \E i \in DOMAIN sst : Damage(i)
    BY DEF Damage, OneClient, BaseInv, SafetyInv, TypeOK, CallTypeOK
  <2> QED
    BY <2>1, <2>2, CallShows, WorkersStutter, RestartShows DEF Next
<1> QED
  BY <1>1, <1>2, DurAlways, PTL DEF Spec, StoreSpec, Store!Spec
=============================================================================
