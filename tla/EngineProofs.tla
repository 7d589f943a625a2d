---------------------------- MODULE EngineProofs ----------------------------
(***************************************************************************)
(* Proofs about module Engine, for every value of its constants.           *)
(***************************************************************************)
EXTENDS EngineProps, SequenceTheorems, FiniteSetTheorems, TLAPS

\* Sequence facts the provers need spelled out.
LEMMA EmptyIsSeq == ASSUME NEW S PROVE <<>> \in Seq(S) /\ DOMAIN <<>> = {}
  OBVIOUS

\* A singleton is a sequence over any set that holds its element.
LEMMA SingletonIsSeq == ASSUME NEW S, NEW e \in S PROVE <<e>> \in Seq(S)
  OBVIOUS

\* The head of a nonempty sequence is in its set, the tail is a sequence over it.
LEMMA HeadTailType ==
    ASSUME NEW S, NEW f \in Seq(S), f # <<>>
    PROVE  Head(f) \in S /\ Tail(f) \in Seq(S)
  OBVIOUS

\* Appending keeps a sequence over its set.
LEMMA AppendType ==
    ASSUME NEW S, NEW f \in Seq(S), NEW e \in S
    PROVE  Append(f, e) \in Seq(S)
  OBVIOUS

\* So does concatenation.
LEMMA ConcatType ==
    ASSUME NEW S, NEW f \in Seq(S), NEW g \in Seq(S)
    PROVE  f \o g \in Seq(S)
  OBVIOUS

\* Init establishes the type invariant.
LEMMA InitTypeOK == Init => TypeOK
<1> SUFFICES ASSUME Init PROVE TypeOK
  OBVIOUS
<1>1. DiskTypeOK
  <2>1. wal = <<>> /\ sst = <<>> /\ bad = {} /\ tables = {}
    BY DEF Init
  <2>2. DOMAIN <<>> = {}
    OBVIOUS
  <2> QED
    BY <2>1, <2>2 DEF DiskTypeOK
<1>2. MemoryTypeOK
  <2>1. frozen \in Seq([mt : SUBSET Calls, seg : Nat])
    BY EmptyIsSeq DEF Init
  <2> QED
    BY <2>1 DEF Init, MemoryTypeOK
<1>3. WorkerTypeOK
  BY DEF Init, WorkerTypeOK, FlusherLabels
<1>4. CallTypeOK
  BY DEF Init, CallTypeOK
<1> QED
  BY <1>1, <1>2, <1>3, <1>4 DEF TypeOK

\* Appending to the active segment changes no other segment.
LEMMA LogAfterIs ==
    ASSUME NEW log, LogAfter(log)
    PROVE  /\ DOMAIN wal' = DOMAIN wal
           /\ \A s \in DOMAIN wal :
                wal'[s] = IF s = seg THEN wal[s] \o log ELSE wal[s]
  BY DEF LogAfter

\* An ordinary step of a Write call preserves the type invariant.
LEMMA WriteTypeOK ==
    ASSUME TypeOK, NEW c \in Calls, WriteCall(c) \/ GateTimeout(c) \/ WriteStep(c)
    PROVE  TypeOK'
<1> USE DEF TypeOK, DiskTypeOK, MemoryTypeOK, WorkerTypeOK, FlusherLabels, CallTypeOK, InFlight, Returned, disk, files, memory, workers, bounds, Goto
<1>1. CASE WriteCall(c)
  BY <1>1 DEF WriteCall
<1>2. CASE GateTimeout(c)
  BY <1>2 DEF GateTimeout
<1>3. CASE GatePass(c)
  BY <1>3 DEF GatePass
<1>4. CASE GateStall(c)
  BY <1>4 DEF GateStall
<1>5. CASE GateRefuse(c)
  BY <1>5 DEF GateRefuse
<1>6. CASE Allocate(c)
  BY <1>6 DEF Allocate
<1>7. CASE Bind(c)
  BY <1>7 DEF Bind
<1>8. CASE AppendRecord(c)
  <2>1. \A s \in DOMAIN wal : wal[s] \o <<c>> \in Seq(Calls \cup {Torn})
    OBVIOUS
  <2>2. /\ DOMAIN wal' = DOMAIN wal
        /\ \A s \in DOMAIN wal : wal'[s] = IF s = seg THEN wal[s] \o <<c>> ELSE wal[s]
    BY <1>8, LogAfterIs DEF AppendRecord
  <2>3. DiskTypeOK'
    BY <1>8, <2>1, <2>2 DEF AppendRecord
  <2> QED
    BY <1>8, <2>3 DEF AppendRecord
<1>9. CASE AppendFail(c)
  <2>1. CASE UNCHANGED wal
    BY <1>9, <2>1 DEF AppendFail
  <2>2. CASE \E left \in {<<Torn>>, <<c>>} : LogAfter(left)
    <3>1. PICK left \in {<<Torn>>, <<c>>} : LogAfter(left)
      BY <2>2
    <3>2. \A s \in DOMAIN wal : wal[s] \o left \in Seq(Calls \cup {Torn})
      <4>1. left \in Seq(Calls \cup {Torn})
        <5>1. Torn \in Calls \cup {Torn} /\ c \in Calls \cup {Torn}
          OBVIOUS
        <5>2. <<Torn>> \in Seq(Calls \cup {Torn}) /\ <<c>> \in Seq(Calls \cup {Torn})
          BY <5>1, SingletonIsSeq
        <5>3. left = <<Torn>> \/ left = <<c>>
          BY <3>1
        <5> QED
          BY <5>2, <5>3
      <4> QED
        BY <4>1, ConcatType
    <3>3. /\ DOMAIN wal' = DOMAIN wal
          /\ \A s \in DOMAIN wal : wal'[s] = IF s = seg THEN wal[s] \o left ELSE wal[s]
      BY <3>1, LogAfterIs
    <3>4. DiskTypeOK'
      BY <1>9, <3>2, <3>3 DEF AppendFail
    <3> QED
      BY <1>9, <3>4 DEF AppendFail
  <2> QED
    BY <1>9, <2>1, <2>2 DEF AppendFail
<1>10. CASE Put(c)
  BY <1>10 DEF Put
<1>11. CASE WriteReturn(c)
  BY <1>11 DEF WriteReturn
<1> QED
  BY <1>1, <1>2, <1>3, <1>4, <1>5, <1>6, <1>7, <1>8, <1>9, <1>10, <1>11 DEF WriteStep

\* A step of the freeze coordinator preserves the type invariant.
LEMMA FreezeTypeOK == TypeOK /\ FreezeStep => TypeOK'
<1> SUFFICES ASSUME TypeOK, FreezeStep PROVE TypeOK'
  OBVIOUS
<1> USE DEF TypeOK, DiskTypeOK, MemoryTypeOK, WorkerTypeOK, FlusherLabels, CallTypeOK, disk, files, memory, workers, bounds
<1>1. CASE FreezeReceive
  BY <1>1 DEF FreezeReceive
<1>2. CASE FreezeSkip
  BY <1>2 DEF FreezeSkip
<1>3. CASE FreezeRotate
  <2>1. /\ DOMAIN wal' = DOMAIN wal \cup {seg + 1}
        /\ \A s \in DOMAIN wal' : wal'[s] = IF s = seg + 1 THEN <<>> ELSE wal[s]
    BY <1>3 DEF FreezeRotate, With
  <2>2. DiskTypeOK'
    <3>1. <<>> \in Seq(Calls \cup {Torn})
      BY EmptyIsSeq
    <3>2. seg + 1 \in Nat
      OBVIOUS
    <3>3. \A s \in DOMAIN wal' : s \in Nat /\ wal'[s] \in Seq(Calls \cup {Torn})
      BY <2>1, <3>1, <3>2
    <3>4. sst' = sst /\ bad' = bad /\ tables' = tables
      BY <1>3 DEF FreezeRotate
    <3> QED
      BY <3>3, <3>4
  <2>3. frozen' \in Seq([mt : SUBSET Calls, seg : Nat])
    <3>1. [mt |-> active, seg |-> seg] \in [mt : SUBSET Calls, seg : Nat]
      OBVIOUS
    <3> QED
      BY <1>3, <3>1, AppendType DEF FreezeRotate
  <2>4. MemoryTypeOK'
    BY <1>3, <2>3 DEF FreezeRotate
  <2>5. WorkerTypeOK' /\ CallTypeOK'
    BY <1>3 DEF FreezeRotate
  <2> HIDE DEF DiskTypeOK, MemoryTypeOK, WorkerTypeOK, CallTypeOK
  <2> QED
    BY <2>2, <2>4, <2>5
<1>4. CASE SealFail
  BY <1>4 DEF SealFail
<1>5. CASE FreezeFatal
  BY <1>5 DEF FreezeFatal
<1>6. CASE FreezeSignal
  BY <1>6 DEF FreezeSignal
<1>7. CASE FreezeExit
  BY <1>7 DEF FreezeExit
<1> QED
  BY <1>1, <1>2, <1>3, <1>4, <1>5, <1>6, <1>7 DEF FreezeStep

\* A new SSTable file under a new id keeps the disk well-typed.
LEMMA NewTableType ==
    ASSUME DiskTypeOK, NEW n \in Nat, NEW S \in SUBSET Calls,
           sst' = With(sst, n, S), UNCHANGED <<wal, bad, tables>>
    PROVE  DiskTypeOK'
<1>1. /\ DOMAIN sst' = DOMAIN sst \cup {n}
      /\ \A i \in DOMAIN sst' : sst'[i] = IF i = n THEN S ELSE sst[i]
  BY DEF With
<1>2. DOMAIN sst' \subseteq Nat
  BY <1>1 DEF DiskTypeOK
<1>3. \A i \in DOMAIN sst' : sst'[i] \subseteq Calls
  BY <1>1 DEF DiskTypeOK
<1>4. bad' \subseteq DOMAIN sst' /\ tables' \subseteq DOMAIN sst'
  BY <1>1 DEF DiskTypeOK
<1> QED
  BY <1>2, <1>3, <1>4 DEF DiskTypeOK

\* A step of the flush worker preserves it, given that a flush in progress
\* has its file and its frozen MemTable.
LEMMA FlushTypeOK ==
    ASSUME TypeOK, FlushStep,
           fl.pc = "swap" => frozen # <<>> /\ fl.id \in DOMAIN sst
    PROVE  TypeOK'
<1> USE DEF TypeOK, DiskTypeOK, MemoryTypeOK, WorkerTypeOK, FlusherLabels, CallTypeOK, disk, files, memory, workers, bounds
<1>1. CASE FlushReceive
  BY <1>1 DEF FlushReceive
<1>2. CASE FlushNothing
  BY <1>2 DEF FlushNothing, IdleFlusher
<1>3. CASE FlushSnapshot
  <2>1. Head(frozen) \in [mt : SUBSET Calls, seg : Nat]
    BY <1>3, HeadTailType DEF FlushSnapshot
  <2>2. Head(frozen).mt \in SUBSET Calls /\ Head(frozen).seg \in Nat
    BY <2>1
  <2>3. WorkerTypeOK'
    BY <1>3, <2>2 DEF FlushSnapshot
  <2>4. DiskTypeOK' /\ MemoryTypeOK' /\ CallTypeOK'
    BY <1>3 DEF FlushSnapshot
  <2> HIDE DEF DiskTypeOK, MemoryTypeOK, WorkerTypeOK, CallTypeOK
  <2> QED
    BY <2>3, <2>4
<1>4. CASE FlushWrite
  <2>1. nextSST + 1 \in Nat /\ fl.mt \in SUBSET Calls
    OBVIOUS
  <2>2. sst' = With(sst, nextSST + 1, fl.mt) /\ UNCHANGED <<wal, bad, tables>>
    BY <1>4 DEF FlushWrite
  <2>3. WorkerTypeOK'
    BY <1>4, <2>1 DEF FlushWrite
  <2>4. MemoryTypeOK' /\ CallTypeOK'
    BY <1>4 DEF FlushWrite
  <2> HIDE DEF DiskTypeOK, MemoryTypeOK, WorkerTypeOK, CallTypeOK
  <2>5. DiskTypeOK'
    BY <2>1, <2>2, NewTableType
  <2> QED
    BY <2>3, <2>4, <2>5
<1>5. CASE FlushFail
  <2>1. nextSST + 1 \in Nat /\ fl.mt \in SUBSET Calls
    OBVIOUS
  <2>2. UNCHANGED <<wal, bad, tables>>
    BY <1>5 DEF FlushFail
  <2>3. sst' = sst \/ sst' = With(sst, nextSST + 1, fl.mt)
    BY <1>5 DEF FlushFail
  <2>4. fl' \in [pc : FlusherLabels, mt : SUBSET Calls, seg : Nat, id : Nat,
                 fails : Nat]
    <3>1. PICK l \in FlusherLabels : fl' = [fl EXCEPT !.fails = fl.fails + 1, !.pc = l]
      BY <1>5 DEF FlushFail
    <3>2. fl.fails + 1 \in Nat
      OBVIOUS
    <3> QED
      BY <3>1, <3>2
  <2>5. WorkerTypeOK' /\ MemoryTypeOK' /\ CallTypeOK'
    BY <1>5, <2>4 DEF FlushFail
  <2>6. sst' = sst => DiskTypeOK'
    BY <2>2
  <2> HIDE DEF DiskTypeOK, MemoryTypeOK, WorkerTypeOK, CallTypeOK
  <2>7. DiskTypeOK'
    BY <2>1, <2>2, <2>3, <2>6, NewTableType
  <2> QED
    BY <2>5, <2>7
<1>6. CASE FlushRetry
  BY <1>6 DEF FlushRetry
<1>7. CASE FlushSwap
  <2>1. Tail(frozen) \in Seq([mt : SUBSET Calls, seg : Nat])
    BY <1>7, HeadTailType DEF FlushSwap
  <2> QED
    BY <1>7, <2>1 DEF FlushSwap
<1>8. CASE FlushDelete
  <2>1. /\ DOMAIN wal' \subseteq DOMAIN wal
        /\ \A s \in DOMAIN wal' : wal'[s] = wal[s]
    BY <1>8 DEF FlushDelete, Without
  <2>2. UNCHANGED <<sst, bad, tables>>
    BY <1>8 DEF FlushDelete
  <2>3. DiskTypeOK'
    BY <2>1, <2>2
  <2>4. MemoryTypeOK' /\ WorkerTypeOK' /\ CallTypeOK'
    BY <1>8 DEF FlushDelete
  <2> HIDE DEF DiskTypeOK, MemoryTypeOK, WorkerTypeOK, CallTypeOK
  <2> QED
    BY <2>3, <2>4
<1>9. CASE FlushSignal
  BY <1>9 DEF FlushSignal, IdleFlusher
<1>10. CASE FlushFatal
  BY <1>10 DEF FlushFatal, IdleFlusher
<1>11. CASE FlushExit
  BY <1>11 DEF FlushExit, IdleFlusher
<1> QED
  BY <1>1, <1>2, <1>3, <1>4, <1>5, <1>6, <1>7, <1>8, <1>9, <1>10, <1>11 DEF FlushStep

\* What replay finds are records of calls.
LEMMA LoggedType == DiskTypeOK => Logged \subseteq Calls
<1> SUFFICES ASSUME DiskTypeOK, NEW s \in DOMAIN wal PROVE Replay(wal[s]) \subseteq Calls
  BY DEF Logged
<1>1. wal[s] \in Seq(Calls \cup {Torn})
  BY DEF DiskTypeOK
<1>2. ASSUME NEW i \in DOMAIN wal[s], \A j \in 1..i : wal[s][j] # Torn
      PROVE  wal[s][i] \in Calls
  <2>1. i \in 1..i /\ wal[s][i] \in Calls \cup {Torn}
    BY <1>1
  <2> QED
    BY <1>2, <2>1
<1> QED
  BY <1>2 DEF Replay, Readable

\* Recovery, exit, damage and Close preserve it; recovery starts from a
\* quiet process.
LEMMA OpenTypeOK == TypeOK /\ QuietWhenDown /\ Open => TypeOK'
<1> SUFFICES ASSUME TypeOK, QuietWhenDown, Open PROVE TypeOK'
  OBVIOUS
<1> USE DEF TypeOK
<1>1. DiskTypeOK'
  <2>1. PICK last \in Segments, D \in SUBSET (DOMAIN wal) :
            wal' = [s \in Segments \ D |->
                         IF s \in DOMAIN wal THEN wal[s] ELSE <<>>]
    BY DEF Open
  <2>2. DOMAIN wal' \subseteq Nat
    BY <2>1 DEF DiskTypeOK, Segments
  <2>3. <<>> \in Seq(Calls \cup {Torn})
    BY EmptyIsSeq
  <2>4. \A s \in DOMAIN wal' : wal'[s] \in Seq(Calls \cup {Torn})
    BY <2>1, <2>3 DEF DiskTypeOK, Segments
  <2>5. /\ DOMAIN sst' = DOMAIN sst \ bad
        /\ \A i \in DOMAIN sst' : sst'[i] = sst[i]
    BY DEF Open, Without
  <2>6. bad' = {} /\ tables' = DOMAIN sst \ bad
    BY DEF Open
  <2> QED
    BY <2>2, <2>4, <2>5, <2>6 DEF DiskTypeOK
<1>2. MemoryTypeOK'
  <2>1. seg' \in Nat
    BY DEF Open, DiskTypeOK, Segments
  <2>2. nextSST' \in Nat
    BY DEF Open, DiskTypeOK, SSTableIds
  <2>3. Recoverable \subseteq Calls
    <3>1. Persisted \subseteq Calls
      BY DEF Persisted, DiskTypeOK
    <3>2. Replayed \subseteq Calls
      BY LoggedType DEF Replayed
    <3> QED
      BY <3>1, <3>2 DEF Recoverable
  <2>4. alloc' \in Nat
    BY <2>3 DEF Open, Observed, CallTypeOK
  <2>5. active' \subseteq Calls
    BY LoggedType DEF Open, Replayed
  <2>6. status' = "running" /\ writer' = "open" /\ fatal' = fatal /\ frozen' = frozen
    BY DEF Open
  <2> QED
    BY <2>1, <2>2, <2>4, <2>5, <2>6 DEF MemoryTypeOK
<1>3. WorkerTypeOK'
  BY DEF Open, IdleFlusher, WorkerTypeOK, FlusherLabels
<1>4. CallTypeOK'
  BY DEF Open, CallTypeOK, bounds
<1> QED
  BY <1>1, <1>2, <1>3, <1>4

\* A crash, which resets memory and may tear the log, keeps the types.
LEMMA StopTypeOK == TypeOK /\ Stop => TypeOK'
<1> SUFFICES ASSUME TypeOK, Stop PROVE TypeOK'
  OBVIOUS
<1> USE DEF TypeOK
<1>1. DiskTypeOK'
  <2>1. CASE UNCHANGED wal
    BY <2>1 DEF Stop, DiskTypeOK
  <2>2. CASE LogAfter(<<Torn>>)
    <3>1. <<Torn>> \in Seq(Calls \cup {Torn})
      BY SingletonIsSeq
    <3>2. \A s \in DOMAIN wal : wal[s] \o <<Torn>> \in Seq(Calls \cup {Torn})
      BY <3>1, ConcatType DEF DiskTypeOK
    <3>3. /\ DOMAIN wal' = DOMAIN wal
          /\ \A s \in DOMAIN wal : wal'[s] = IF s = seg THEN wal[s] \o <<Torn>> ELSE wal[s]
      BY <2>2, LogAfterIs
    <3>4. \A s \in DOMAIN wal' : wal'[s] \in Seq(Calls \cup {Torn})
      BY <3>2, <3>3 DEF DiskTypeOK
    <3>5. UNCHANGED <<sst, bad>> /\ tables' = {}
      BY DEF Stop
    <3> QED
      BY <3>3, <3>4, <3>5 DEF DiskTypeOK
  <2> QED
    BY <2>1, <2>2 DEF Stop
<1>2. MemoryTypeOK'
  <2>1. frozen' \in Seq([mt : SUBSET Calls, seg : Nat])
    BY EmptyIsSeq DEF Stop
  <2> QED
    BY <2>1 DEF Stop, MemoryTypeOK
<1>3. WorkerTypeOK'
  BY DEF Stop, IdleFlusher, WorkerTypeOK, FlusherLabels
<1>4. CallTypeOK'
  <2>1. \A c \in Calls : pc'[c] \in InFlight \cup Returned \cup {"idle", "ok", "panic"}
    BY DEF Stop, CallTypeOK, InFlight, Returned
  <2>2. pc' = [c \in Calls |-> pc'[c]]
    BY DEF Stop
  <2>3. docID' = docID /\ damaged' = damaged /\ restarts' \in Nat
    BY DEF Stop, CallTypeOK
  <2> QED
    BY <2>1, <2>2, <2>3 DEF CallTypeOK
<1> QED
  BY <1>1, <1>2, <1>3, <1>4

\* So does damage to a file.
LEMMA DamageTypeOK == ASSUME TypeOK, NEW i, Damage(i) PROVE TypeOK'
  BY DEF Damage, TypeOK, DiskTypeOK, MemoryTypeOK, WorkerTypeOK, CallTypeOK, memory, workers

\* So does Close.
LEMMA CloseTypeOK == TypeOK /\ (CloseBegin \/ CloseFinish) => TypeOK'
  BY DEF CloseBegin, CloseFinish, TypeOK, DiskTypeOK, MemoryTypeOK, WorkerTypeOK, CallTypeOK,
         disk, workers, bounds

-----------------------------------------------------------------------------
(* The order of flushing.                                                  *)

\* What a step of a Write call leaves alone.
LEMMA WriteFrame ==
    ASSUME NEW c \in Calls, WriteCall(c) \/ GateTimeout(c) \/ WriteStep(c)
    PROVE  /\ UNCHANGED <<frozen, seg, fl, fz, sst, bad, nextSST, status, tables>>
           /\ DOMAIN wal' = DOMAIN wal
<1> USE DEF disk, memory, workers
<1>1. CASE WriteCall(c)
  BY <1>1 DEF WriteCall
<1>2. CASE GateTimeout(c)
  BY <1>2 DEF GateTimeout
<1>3. CASE GatePass(c) \/ GateStall(c) \/ GateRefuse(c)
  BY <1>3 DEF GatePass, GateStall, GateRefuse
<1>4. CASE Allocate(c) \/ Bind(c)
  BY <1>4 DEF Allocate, Bind
<1>5. CASE AppendRecord(c)
  BY <1>5, LogAfterIs DEF AppendRecord
<1>6. CASE AppendFail(c)
  BY <1>6, LogAfterIs DEF AppendFail
<1>7. CASE Put(c) \/ WriteReturn(c)
  BY <1>7 DEF Put, WriteReturn
<1> QED
  BY <1>1, <1>2, <1>3, <1>4, <1>5, <1>6, <1>7 DEF WriteStep

\* A process that is down runs no call and no worker.
LEMMA DownIsStill ==
    ASSUME TypeOK, QuietWhenDown, status = "down"
    PROVE  /\ \A c \in Calls : ~(WriteCall(c) \/ GateTimeout(c) \/ WriteStep(c))
           /\ ~FreezeStep /\ ~FlushStep
<1>1. ASSUME NEW c \in Calls PROVE ~(WriteCall(c) \/ GateTimeout(c) \/ WriteStep(c))
  BY DEF QuietWhenDown, InFlight, WriteCall, GateTimeout, WriteStep, GatePass, GateStall, GateRefuse,
         Allocate, Bind, AppendRecord, AppendFail, Put, WriteReturn
<1>2. ~FreezeStep
  BY DEF QuietWhenDown, FreezeStep, FreezeReceive, FreezeSkip, FreezeRotate, SealFail,
         FreezeFatal, FreezeSignal, FreezeExit
<1>3. ~FlushStep
  BY DEF QuietWhenDown, FlushStep, FlushReceive, FlushNothing, FlushSnapshot, FlushWrite,
         FlushFail, FlushRetry, FlushSwap, FlushDelete, FlushSignal, FlushFatal, FlushExit
<1> QED
  BY <1>1, <1>2, <1>3

\* What the coordinator's steps other than a rotation leave alone.
LEMMA FreezeFrame ==
    ASSUME FreezeStep, ~FreezeRotate
    PROVE  UNCHANGED <<wal, frozen, active, seg, fl, sst, bad, nextSST, status, tables, pc>>
  BY DEF FreezeStep, FreezeReceive, FreezeSkip, SealFail, FreezeFatal, FreezeSignal, FreezeExit,
         disk, memory

\* A rotation, index by index.
LEMMA RotateIs ==
    ASSUME TypeOK, FreezeRotate
    PROVE  /\ Len(frozen') = Len(frozen) + 1
           /\ \A i \in DOMAIN frozen : frozen'[i] = frozen[i]
           /\ frozen'[Len(frozen) + 1] = [mt |-> active, seg |-> seg]
           /\ DOMAIN frozen = 1..Len(frozen) /\ DOMAIN frozen' = 1..(Len(frozen) + 1)
           /\ Len(frozen) \in Nat
           /\ frozen # <<>> => Head(frozen') = Head(frozen)
           /\ frozen' # <<>>
<1>1. frozen \in Seq([mt : SUBSET Calls, seg : Nat])
  BY DEF TypeOK, MemoryTypeOK
<1>2. frozen' = Append(frozen, [mt |-> active, seg |-> seg])
  BY DEF FreezeRotate
<1> QED
  BY <1>1, <1>2

\* A swap, index by index.
LEMMA SwapIs ==
    ASSUME TypeOK, frozen # <<>>, FlushSwap
    PROVE  /\ Len(frozen') = Len(frozen) - 1 /\ Len(frozen) \in Nat
           /\ DOMAIN frozen = 1..Len(frozen) /\ DOMAIN frozen' = 1..(Len(frozen) - 1)
           /\ \A i \in DOMAIN frozen' : frozen'[i] = frozen[i + 1] /\ i + 1 \in DOMAIN frozen
           /\ 1 \in DOMAIN frozen /\ Head(frozen) = frozen[1]
           /\ \A i \in DOMAIN frozen : i = 1 \/ (i - 1 \in DOMAIN frozen' /\ frozen'[i - 1] = frozen[i])
<1>1. frozen \in Seq([mt : SUBSET Calls, seg : Nat])
  BY DEF TypeOK, MemoryTypeOK
<1>2. frozen' = Tail(frozen)
  BY DEF FlushSwap
<1>3. /\ Len(frozen') = Len(frozen) - 1 /\ Len(frozen) \in Nat \ {0}
      /\ \A i \in 1..(Len(frozen) - 1) : frozen'[i] = frozen[i + 1]
  BY <1>1, <1>2
<1>4. DOMAIN frozen = 1..Len(frozen) /\ DOMAIN frozen' = 1..(Len(frozen) - 1)
  BY <1>1, <1>2, <1>3
<1>5. \A i \in 2..Len(frozen) : frozen'[i - 1] = frozen[i]
  <2> SUFFICES ASSUME NEW i \in 2..Len(frozen) PROVE frozen'[i - 1] = frozen[i]
    OBVIOUS
  <2>1. i - 1 \in 1..(Len(frozen) - 1) /\ (i - 1) + 1 = i
    BY <1>3
  <2> QED
    BY <2>1, <1>3
<1> QED
  BY <1>1, <1>3, <1>4, <1>5

\* The records of the queue are pairs of a MemTable and a segment.
LEMMA FrozenType ==
    ASSUME TypeOK
    PROVE  /\ DOMAIN frozen = 1..Len(frozen) /\ Len(frozen) \in Nat
           /\ \A i \in DOMAIN frozen : frozen[i] \in [mt : SUBSET Calls, seg : Nat]
           /\ frozen # <<>> => 1 \in DOMAIN frozen /\ Head(frozen) = frozen[1]
           /\ frozen = <<>> => DOMAIN frozen = {}
<1> DEFINE R == [mt : SUBSET Calls, seg : Nat]
<1>1. frozen \in Seq(R)
  BY DEF TypeOK, MemoryTypeOK
<1> HIDE DEF R
<1>2. DOMAIN frozen = 1..Len(frozen) /\ Len(frozen) \in Nat
  BY <1>1, LenProperties
<1>3. \A i \in DOMAIN frozen : frozen[i] \in R
  BY <1>1, <1>2, ElementOfSeq
<1>4. frozen # <<>> => 1 \in DOMAIN frozen /\ Head(frozen) = frozen[1]
  BY <1>1, <1>2, EmptySeq
<1>5. frozen = <<>> => DOMAIN frozen = {}
  BY EmptyIsSeq
<1> QED
  BY <1>2, <1>3, <1>4, <1>5 DEF R

\* A Write call does not disturb the order of flushing.
LEMMA WriteOrder ==
    ASSUME TypeOK, OrderInv, NEW c \in Calls, WriteCall(c) \/ GateTimeout(c) \/ WriteStep(c)
    PROVE  OrderInv'
<1>1. /\ UNCHANGED <<frozen, seg, fl, fz, sst, bad, nextSST, status, tables>>
      /\ DOMAIN wal' = DOMAIN wal
  BY WriteFrame
<1>2. status # "down"
  BY DownIsStill DEF OrderInv
<1> QED
  BY <1>1, <1>2 DEF OrderInv, FlushOrder, QuietWhenDown, ActiveIsNewest, FlushInProgress

\* A rotation appends the youngest segment and starts a younger one.
LEMMA RotateOrder == ASSUME TypeOK, OrderInv, FreezeRotate PROVE OrderInv'
<1>1. status # "down"
  BY DownIsStill DEF OrderInv, FreezeStep
<1>2. seg \in Nat /\ seg' = seg + 1 /\ status' = status /\ fl' = fl
      /\ sst' = sst /\ nextSST' = nextSST
  BY DEF FreezeRotate, TypeOK, MemoryTypeOK, files
<1>3. \A i \in DOMAIN frozen : frozen[i].seg \in Nat /\ frozen[i].seg < seg
  BY FrozenType DEF OrderInv, FlushOrder
<1>4. \A i \in DOMAIN frozen' : frozen'[i].seg \in Nat /\ frozen'[i].seg < seg'
  <2> SUFFICES ASSUME NEW i \in DOMAIN frozen'
               PROVE  frozen'[i].seg \in Nat /\ frozen'[i].seg < seg'
    OBVIOUS
  <2>1. CASE i \in DOMAIN frozen
    BY <2>1, <1>2, <1>3, RotateIs
  <2>2. CASE i = Len(frozen) + 1
    BY <2>2, <1>2, RotateIs
  <2> QED
    BY <2>1, <2>2, RotateIs
<1>5. \A i, j \in DOMAIN frozen' : i < j => frozen'[i].seg < frozen'[j].seg
  <2> SUFFICES ASSUME NEW i \in DOMAIN frozen', NEW j \in DOMAIN frozen', i < j
               PROVE  frozen'[i].seg < frozen'[j].seg
    OBVIOUS
  <2>1. i \in DOMAIN frozen
    BY RotateIs
  <2>2. CASE j \in DOMAIN frozen
    BY <2>1, <2>2, RotateIs DEF OrderInv, FlushOrder
  <2>3. CASE j = Len(frozen) + 1
    BY <2>1, <2>3, <1>3, RotateIs
  <2> QED
    BY <2>2, <2>3, RotateIs
<1>6. fl.pc \in {"write", "swap"} =>
        frozen' # <<>> /\ Head(frozen') = [mt |-> fl.mt, seg |-> fl.seg]
  BY RotateIs DEF OrderInv, FlushOrder
<1>7. fl.pc = "delete" => fl.seg < seg' /\ \A i \in DOMAIN frozen' : fl.seg < frozen'[i].seg
  <2> SUFFICES ASSUME fl.pc = "delete"
               PROVE  fl.seg < seg' /\ \A i \in DOMAIN frozen' : fl.seg < frozen'[i].seg
    OBVIOUS
  <2>1. fl.seg < seg /\ fl.seg \in Nat
    BY DEF OrderInv, FlushInProgress, TypeOK, WorkerTypeOK
  <2>2. \A i \in DOMAIN frozen : fl.seg < frozen[i].seg
    BY DEF OrderInv, FlushOrder
  <2>3. \A i \in DOMAIN frozen' : i \in DOMAIN frozen \/ i = Len(frozen) + 1
    BY RotateIs
  <2>4. frozen'[Len(frozen) + 1].seg = seg
    BY RotateIs
  <2>5. \A i \in DOMAIN frozen : frozen'[i] = frozen[i]
    BY RotateIs
  <2> QED
    BY <1>2, <2>1, <2>2, <2>3, <2>4, <2>5
<1>8. FlushOrder'
  BY <1>2, <1>4, <1>5, <1>6, <1>7 DEF FlushOrder
<1>9. ActiveIsNewest'
  <2>1. DOMAIN wal' = DOMAIN wal \cup {seg + 1}
    BY DEF FreezeRotate, With
  <2>2. \A s \in DOMAIN wal : s \in Nat /\ s <= seg
    BY <1>1 DEF OrderInv, ActiveIsNewest, TypeOK, DiskTypeOK
  <2> QED
    BY <1>2, <2>1, <2>2 DEF ActiveIsNewest
<1>10. QuietWhenDown' /\ FlushInProgress'
  BY <1>1, <1>2, <1>7 DEF QuietWhenDown, FlushInProgress, OrderInv
<1> QED
  BY <1>8, <1>9, <1>10 DEF OrderInv

\* The rest of the coordinator leaves the queue and the segments alone.
LEMMA FreezeOrder == ASSUME TypeOK, OrderInv, FreezeStep PROVE OrderInv'
<1>1. CASE FreezeRotate
  BY <1>1, RotateOrder
<1>2. CASE ~FreezeRotate
  <2>1. UNCHANGED <<wal, frozen, active, seg, fl, sst, bad, nextSST, status, tables, pc>>
    BY <1>2, FreezeFrame
  <2>2. status # "down"
    BY DownIsStill DEF OrderInv
  <2> QED
    BY <2>1, <2>2 DEF OrderInv, FlushOrder, QuietWhenDown, ActiveIsNewest, FlushInProgress
<1> QED
  BY <1>1, <1>2

\* A new file takes an id above every file there is.
LEMMA NewTableIsNew ==
    ASSUME TypeOK, OrderInv, status # "down", sst' = With(sst, nextSST + 1, fl.mt),
           nextSST' = nextSST + 1
    PROVE  /\ DOMAIN sst' = DOMAIN sst \cup {nextSST'} /\ sst'[nextSST'] = fl.mt
           /\ \A i \in DOMAIN sst : sst'[i] = sst[i]
           /\ \A i \in DOMAIN sst' : i <= nextSST'
<1>1. nextSST \in Nat /\ \A i \in DOMAIN sst : i \in Nat /\ i <= nextSST
  BY DEF OrderInv, FlushInProgress, TypeOK, MemoryTypeOK, DiskTypeOK
<1>2. /\ DOMAIN sst' = DOMAIN sst \cup {nextSST + 1}
      /\ \A i \in DOMAIN sst' : sst'[i] = IF i = nextSST + 1 THEN fl.mt ELSE sst[i]
  BY DEF With
<1> QED
  BY <1>1, <1>2

\* The flush worker takes the oldest entry, and only the oldest.
LEMMA FlushKeepsOrder == ASSUME TypeOK, OrderInv, FlushStep PROVE OrderInv'
<1>0. status # "down"
  BY DownIsStill DEF OrderInv
<1> USE DEF disk, memory
<1>1. CASE FlushReceive \/ FlushNothing \/ FlushRetry \/ FlushSignal \/ FlushFatal \/ FlushExit
  <2>1. /\ UNCHANGED <<frozen, seg, sst, nextSST, status, wal>>
        /\ fl'.pc \in {"wait", "try", "exit"}
    BY <1>1 DEF FlushReceive, FlushNothing, FlushRetry, FlushSignal, FlushFatal, FlushExit,
                IdleFlusher, TypeOK, WorkerTypeOK
  <2> QED
    BY <1>0, <2>1 DEF OrderInv, FlushOrder, QuietWhenDown, ActiveIsNewest, FlushInProgress
<1>2. CASE FlushSnapshot
  <2>1. /\ UNCHANGED <<frozen, seg, sst, nextSST, status, wal>> /\ frozen # <<>>
        /\ fl'.pc = "write" /\ fl'.mt = Head(frozen).mt /\ fl'.seg = Head(frozen).seg
    BY <1>2 DEF FlushSnapshot, TypeOK, WorkerTypeOK
  <2>2. Head(frozen) \in [mt : SUBSET Calls, seg : Nat]
    BY <2>1, FrozenType
  <2>3. Head(frozen) = [mt |-> fl'.mt, seg |-> fl'.seg]
    BY <2>1, <2>2
  <2> QED
    BY <1>0, <2>1, <2>3 DEF OrderInv, FlushOrder, QuietWhenDown, ActiveIsNewest, FlushInProgress
<1>3. CASE FlushWrite
  <2>1. /\ UNCHANGED <<frozen, seg, status, wal>> /\ fl.pc = "write"
        /\ fl'.pc = "swap" /\ fl'.mt = fl.mt /\ fl'.seg = fl.seg /\ fl'.id = nextSST'
    BY <1>3 DEF FlushWrite, TypeOK, WorkerTypeOK
  <2>2. /\ DOMAIN sst' = DOMAIN sst \cup {nextSST'} /\ sst'[nextSST'] = fl.mt
        /\ \A i \in DOMAIN sst' : i <= nextSST'
    BY <1>0, <1>3, NewTableIsNew DEF FlushWrite
  <2> QED
    BY <1>0, <2>1, <2>2 DEF OrderInv, FlushOrder, QuietWhenDown, ActiveIsNewest, FlushInProgress
<1>4. CASE FlushFail
  <2>1. /\ UNCHANGED <<frozen, seg, status, wal>>
        /\ fl'.pc \in {"fatal", "backoff"}
    BY <1>4 DEF FlushFail, TypeOK, WorkerTypeOK
  <2>2. \A i \in DOMAIN sst' : i <= nextSST'
    <3>1. CASE sst' = sst
      <4>1. nextSST \in Nat /\ \A i \in DOMAIN sst : i \in Nat /\ i <= nextSST
        BY <1>0 DEF OrderInv, FlushInProgress, TypeOK, MemoryTypeOK, DiskTypeOK
      <4> QED
        BY <1>4, <3>1, <4>1 DEF FlushFail
    <3>2. CASE sst' = With(sst, nextSST + 1, fl.mt)
      BY <1>0, <1>4, <3>2, NewTableIsNew DEF FlushFail
    <3> QED
      BY <1>4, <3>1, <3>2 DEF FlushFail
  <2> QED
    BY <1>0, <2>1, <2>2 DEF OrderInv, FlushOrder, QuietWhenDown, ActiveIsNewest, FlushInProgress
<1>5. CASE FlushSwap
  <2>1. /\ UNCHANGED <<seg, sst, nextSST, status, wal>> /\ fl.pc = "swap"
        /\ fl'.pc = "delete" /\ fl'.seg = fl.seg
    BY <1>5 DEF FlushSwap, TypeOK, WorkerTypeOK
  <2>2. frozen # <<>> /\ Head(frozen) = [mt |-> fl.mt, seg |-> fl.seg]
    BY <2>1 DEF OrderInv, FlushOrder
  <2>3. 1 \in DOMAIN frozen /\ frozen[1].seg = fl.seg
    BY <1>5, <2>2, SwapIs
  <2>4. /\ \A i \in DOMAIN frozen' : frozen'[i] = frozen[i + 1] /\ i + 1 \in DOMAIN frozen
        /\ DOMAIN frozen' \subseteq Nat \ {0}
    BY <1>5, <2>2, SwapIs
  <2>5. \A i, j \in DOMAIN frozen' : i < j => frozen'[i].seg < frozen'[j].seg
    BY <2>4 DEF OrderInv, FlushOrder
  <2>6. \A i \in DOMAIN frozen' : frozen'[i].seg < seg /\ fl.seg < frozen'[i].seg
    <3> SUFFICES ASSUME NEW i \in DOMAIN frozen'
                 PROVE  frozen'[i].seg < seg /\ fl.seg < frozen'[i].seg
      OBVIOUS
    <3>1. 1 < i + 1 /\ i + 1 \in DOMAIN frozen
      BY <2>4
    <3> QED
      BY <2>3, <2>4, <3>1 DEF OrderInv, FlushOrder
  <2>7. fl.seg < seg
    BY <2>3 DEF OrderInv, FlushOrder
  <2> QED
    BY <1>0, <2>1, <2>5, <2>6, <2>7
       DEF OrderInv, FlushOrder, QuietWhenDown, ActiveIsNewest, FlushInProgress
<1>6. CASE FlushDelete
  <2>1. /\ UNCHANGED <<frozen, seg, sst, nextSST, status>> /\ fl.pc = "delete"
        /\ fl'.pc = "signal"
    BY <1>6 DEF FlushDelete, TypeOK, WorkerTypeOK
  <2>2. fl.seg # seg
    BY <2>1 DEF OrderInv, FlushInProgress, TypeOK, WorkerTypeOK
  <2>3. DOMAIN wal' \subseteq DOMAIN wal /\ (seg \in DOMAIN wal => seg \in DOMAIN wal')
    BY <1>6, <2>2 DEF FlushDelete, Without
  <2> QED
    BY <1>0, <2>1, <2>3 DEF OrderInv, FlushOrder, QuietWhenDown, ActiveIsNewest, FlushInProgress
<1> QED
  BY <1>1, <1>2, <1>3, <1>4, <1>5, <1>6 DEF FlushStep

\* Recovery starts, and the end of the process leaves, an empty queue.
LEMMA RestartOrder ==
    ASSUME TypeOK, OrderInv,
           Open \/ Stop \/ CloseBegin \/ CloseFinish \/ \E i \in DOMAIN sst : Damage(i)
    PROVE  OrderInv'
<1>1. CASE Open
  <2>1. frozen' = <<>> /\ DOMAIN frozen' = {} /\ fl'.pc = "wait" /\ status' = "running"
    BY <1>1, EmptyIsSeq DEF Open, IdleFlusher, OrderInv, QuietWhenDown
  <2>2. FlushOrder'
    BY <2>1 DEF FlushOrder
  <2>3. ActiveIsNewest'
    BY <1>1 DEF Open, Segments, IsMaxOf, ActiveIsNewest
  <2>4. \A i \in DOMAIN sst' : i <= nextSST'
    BY <1>1 DEF Open, SSTableIds, IsMaxOf, Without
  <2> QED
    BY <2>1, <2>2, <2>3, <2>4 DEF OrderInv, QuietWhenDown, FlushInProgress
<1>2. CASE Stop
  <2>1. /\ frozen' = <<>> /\ DOMAIN frozen' = {} /\ fl'.pc = "exit" /\ status' = "down"
        /\ active' = {} /\ tables' = {} /\ fz' = "exit"
    BY <1>2, EmptyIsSeq DEF Stop, IdleFlusher
  <2>2. \A c \in Calls : pc'[c] \notin InFlight \cup {"ok", "panic"}
    BY <1>2 DEF Stop, InFlight
  <2> QED
    BY <2>1, <2>2 DEF OrderInv, FlushOrder, QuietWhenDown, ActiveIsNewest, FlushInProgress
<1>3. CASE CloseBegin \/ CloseFinish
  <2>1. /\ UNCHANGED <<frozen, seg, fl, sst, nextSST, wal>>
        /\ status # "down" /\ status' # "down"
    BY <1>3 DEF CloseBegin, CloseFinish, disk, workers
  <2> QED
    BY <2>1 DEF OrderInv, FlushOrder, QuietWhenDown, ActiveIsNewest, FlushInProgress
<1>4. CASE \E i \in DOMAIN sst : Damage(i)
  <2>1. /\ UNCHANGED <<frozen, seg, fl, fz, sst, nextSST, wal, pc, active, tables, status>>
        /\ status = "down"
    BY <1>4 DEF Damage, memory, workers
  <2> QED
    BY <2>1 DEF OrderInv, FlushOrder, QuietWhenDown, ActiveIsNewest, FlushInProgress
<1> QED
  BY <1>1, <1>2, <1>3, <1>4

\* Init establishes the order.
LEMMA InitOrder == Init => OrderInv
<1> SUFFICES ASSUME Init PROVE OrderInv
  OBVIOUS
<1>1. /\ frozen = <<>> /\ DOMAIN frozen = {} /\ fl.pc = "exit" /\ status = "down"
      /\ active = {} /\ tables = {} /\ fz = "exit"
  BY EmptyIsSeq DEF Init
<1>2. \A c \in Calls : pc[c] \notin InFlight \cup {"ok", "panic"}
  BY DEF Init, InFlight
<1> QED
  BY <1>1, <1>2 DEF OrderInv, FlushOrder, QuietWhenDown, ActiveIsNewest, FlushInProgress

\* Type and order together are inductive.
LEMMA OrderStep == TypeOK /\ OrderInv /\ [Next]_vars => TypeOK' /\ OrderInv'
<1> SUFFICES ASSUME TypeOK, OrderInv, [Next]_vars PROVE TypeOK' /\ OrderInv'
  OBVIOUS
<1>1. ASSUME NEW c \in Calls, WriteCall(c) \/ GateTimeout(c) \/ WriteStep(c)
      PROVE  TypeOK' /\ OrderInv'
  BY <1>1, WriteTypeOK, WriteOrder
<1>2. CASE FreezeStep
  BY <1>2, FreezeTypeOK, FreezeOrder
<1>3. CASE FlushStep
  <2>1. fl.pc = "swap" => frozen # <<>> /\ fl.id \in DOMAIN sst
    BY DEF OrderInv, FlushOrder, FlushInProgress
  <2> QED
    BY <1>3, <2>1, FlushTypeOK, FlushKeepsOrder
<1>4. CASE Open \/ Stop \/ CloseBegin \/ CloseFinish \/ \E i \in DOMAIN sst : Damage(i)
  BY <1>4, OpenTypeOK, StopTypeOK, CloseTypeOK, DamageTypeOK, RestartOrder DEF OrderInv
<1>5. CASE UNCHANGED vars
  <2>1. TypeOK'
    BY <1>5 DEF vars, disk, memory, workers, bounds, TypeOK, DiskTypeOK, MemoryTypeOK,
                WorkerTypeOK, CallTypeOK
  <2>2. OrderInv'
    BY <1>5 DEF vars, disk, memory, workers, bounds, OrderInv, FlushOrder, QuietWhenDown,
                ActiveIsNewest, FlushInProgress
  <2> QED
    BY <2>1, <2>2
<1> QED
  BY <1>1, <1>2, <1>3, <1>4, <1>5 DEF Next

\* Every reachable state is well-typed and flushes in order, whatever the
\* number of calls, the limits and the faults.
THEOREM OrderInvariant == Spec => [](TypeOK /\ OrderInv)
<1>1. Init => TypeOK /\ OrderInv
  BY InitTypeOK, InitOrder
<1> QED
  BY <1>1, OrderStep, PTL DEF Spec

\* No variable leaves its set of values, and every open SSTable reader has
\* its file on disk.
THEOREM TypeCorrect == Spec => []TypeOK
  BY OrderInvariant, PTL

\* The flush in progress always works on the oldest frozen MemTable, whose
\* segment is older than every other MemTable's: phase 4 never meets a
\* frozen list "mutated during flush".
THEOREM FlushInOrder == Spec => []FlushOrder
<1>1. TypeOK /\ OrderInv => FlushOrder
  BY DEF OrderInv
<1> QED
  BY <1>1, OrderInvariant, PTL

-----------------------------------------------------------------------------
(* The signals between the workers.                                        *)

Signals == NoLostFreeze /\ NoLostFlush

\* Steps of a Write call that come before its Put concern no signal.
LEMMA WriteBeforePut ==
    ASSUME TypeOK, NEW c \in Calls, WriteCall(c) \/ GateTimeout(c) \/ WriteStep(c),
           ~Put(c), ~WriteReturn(c)
    PROVE  /\ UNCHANGED <<active, fatal, freezeCh, flushCh>>
           /\ \A d \in Calls : /\ pc'[d] = "ok" => pc[d] = "ok"
                               /\ pc[d] = "put" => pc'[d] = "put"
<1>1. pc \in [Calls -> InFlight \cup Returned \cup {"idle", "ok", "panic"}]
  BY DEF TypeOK, CallTypeOK
<1>2. UNCHANGED <<active, fatal, freezeCh, flushCh>>
  BY DEF WriteCall, GateTimeout, WriteStep, GatePass, GateStall, GateRefuse, Allocate, Bind, AppendRecord,
         AppendFail, memory, workers
<1>3. pc[c] # "put" /\ \E l : pc' = [pc EXCEPT ![c] = l] /\ l # "ok"
  BY DEF WriteCall, GateTimeout, WriteStep, GatePass, GateStall, GateRefuse, Allocate, Bind, AppendRecord,
         AppendFail, Goto
<1> QED
  BY <1>1, <1>2, <1>3

\* A call that puts its record is going to look at the size; one that
\* returns has looked.
LEMMA WriteSignals ==
    ASSUME TypeOK, Signals, NEW c \in Calls,
           WriteCall(c) \/ GateTimeout(c) \/ WriteStep(c)
    PROVE  Signals'
<1>1. UNCHANGED <<frozen, fl, fz, status>>
  BY WriteFrame
<1>2. pc \in [Calls -> InFlight \cup Returned \cup {"idle", "ok", "panic"}]
  BY DEF TypeOK, CallTypeOK
<1>3. CASE Put(c)
  <2>1. pc'[c] = "put"
    BY <1>2, <1>3 DEF Put, Goto
  <2>2. UNCHANGED <<fatal, flushCh>>
    BY <1>3 DEF Put, workers
  <2> QED
    BY <1>1, <2>1, <2>2 DEF Signals, NoLostFreeze, NoLostFlush
<1>4. CASE WriteReturn(c)
  <2>1. UNCHANGED <<fatal, active, flushCh>>
    BY <1>4 DEF WriteReturn, memory
  <2>2. Cardinality(active) >= SoftLimit => freezeCh'
    BY <1>4 DEF WriteReturn
  <2> QED
    BY <1>1, <2>1, <2>2 DEF Signals, NoLostFreeze, NoLostFlush
<1>5. CASE ~Put(c) /\ ~WriteReturn(c)
  <2>1. active \subseteq Calls
    BY DEF TypeOK, MemoryTypeOK
  <2>2. /\ UNCHANGED <<active, fatal, freezeCh, flushCh>>
        /\ \A d \in Calls : /\ pc'[d] = "ok" => pc[d] = "ok"
                            /\ pc[d] = "put" => pc'[d] = "put"
    BY <1>5, WriteBeforePut
  <2>3. NoLostFreeze'
    BY <1>1, <2>1, <2>2 DEF Signals, NoLostFreeze
  <2> QED
    BY <1>1, <2>2, <2>3 DEF Signals, NoLostFlush
<1> QED
  BY <1>3, <1>4, <1>5

\* The coordinator gives a signal up only when it rotates, when there is
\* nothing to rotate, or in fatal state; it passes one on for each rotation.
LEMMA FreezeSignals == ASSUME TypeOK, Signals, FreezeStep PROVE Signals'
<1>1. CASE FreezeReceive
  BY <1>1 DEF FreezeReceive, memory, Signals, NoLostFreeze, NoLostFlush
<1>2. CASE FreezeSkip
  <2>1. UNCHANGED <<memory, fl, freezeCh, flushCh, pc>> /\ fz # "rotated"
    BY <1>2 DEF FreezeSkip
  <2>2. fatal \/ ~(Cardinality(active) >= SoftLimit) \/ ~(Len(frozen) < MaxFrozen)
    <3>1. ASSUME Cardinality(active) < SoftLimit, Cardinality(active) >= SoftLimit
          PROVE  FALSE
      <4>1. SoftLimit \in Nat /\ Cardinality(active) \in Nat
        BY CallsAssumption, LimitsAssumption, FS_Subset, FS_CardinalityType
           DEF TypeOK, MemoryTypeOK
      <4> QED
        BY <3>1, <4>1
    <3>2. ASSUME Len(frozen) >= MaxFrozen, Len(frozen) < MaxFrozen
          PROVE  FALSE
      <4>1. MaxFrozen \in Nat /\ Len(frozen) \in Nat
        BY LimitsAssumption DEF TypeOK, MemoryTypeOK
      <4> QED
        BY <3>2, <4>1
    <3> QED
      BY <1>2, <3>1, <3>2 DEF FreezeSkip, CannotRotate
  <2> QED
    BY <2>1, <2>2 DEF memory, Signals, NoLostFreeze, NoLostFlush
<1>3. CASE FreezeRotate
  <2>1. fz' = "rotated" /\ active' = {}
    BY <1>3 DEF FreezeRotate
  <2> QED
    BY <2>1 DEF Signals, NoLostFreeze, NoLostFlush
<1>4. CASE SealFail
  BY <1>4 DEF SealFail, Signals, NoLostFreeze, NoLostFlush
<1>5. CASE FreezeFatal
  BY <1>5 DEF FreezeFatal, Signals, NoLostFreeze, NoLostFlush
<1>6. CASE FreezeSignal
  BY <1>6 DEF FreezeSignal, memory, Signals, NoLostFreeze, NoLostFlush
<1>7. CASE FreezeExit
  BY <1>7 DEF FreezeExit, memory, Signals, NoLostFreeze, NoLostFlush
<1> QED
  BY <1>1, <1>2, <1>3, <1>4, <1>5, <1>6, <1>7 DEF FreezeStep

\* The flush worker waits again only with nothing to flush, or for ever; a
\* slot it frees is reported to the coordinator.
LEMMA FlushSignals ==
    ASSUME TypeOK, OrderInv, Signals, FlushStep
    PROVE  Signals'
<1> USE DEF memory, IdleFlusher
<1>0. fl \in [pc : FlusherLabels, mt : SUBSET Calls, seg : Nat, id : Nat, fails : Nat]
  BY DEF TypeOK, WorkerTypeOK
<1>1. CASE FlushReceive \/ FlushSnapshot \/ FlushWrite \/ FlushFail \/ FlushRetry
  <2>1. fl.pc \notin {"delete", "signal"}
    BY <1>1 DEF FlushReceive, FlushSnapshot, FlushWrite, FlushFail, FlushRetry
  <2>2. fl'.pc \notin {"wait", "exit"}
    BY <1>0, <1>1 DEF FlushReceive, FlushSnapshot, FlushWrite, FlushFail, FlushRetry
  <2>3. UNCHANGED <<active, frozen, status, fatal, freezeCh, fz, pc>>
    BY <1>1 DEF FlushReceive, FlushSnapshot, FlushWrite, FlushFail, FlushRetry
  <2> QED
    BY <2>1, <2>2, <2>3 DEF Signals, NoLostFreeze, NoLostFlush
<1>2. CASE FlushNothing
  BY <1>2 DEF FlushNothing, Signals, NoLostFreeze, NoLostFlush
<1>3. CASE FlushSwap
  <2>1. fl'.pc = "delete"
    BY <1>0, <1>3 DEF FlushSwap
  <2> QED
    BY <2>1 DEF Signals, NoLostFreeze, NoLostFlush
<1>4. CASE FlushDelete
  <2>1. fl'.pc = "signal"
    BY <1>0, <1>4 DEF FlushDelete
  <2> QED
    BY <2>1 DEF Signals, NoLostFreeze, NoLostFlush
<1>5. CASE FlushSignal
  BY <1>5 DEF FlushSignal, Signals, NoLostFreeze, NoLostFlush
<1>6. CASE FlushFatal
  BY <1>6 DEF FlushFatal, Signals, NoLostFreeze, NoLostFlush
<1>7. CASE FlushExit
  BY <1>7 DEF FlushExit, Shutdown, Signals, NoLostFreeze, NoLostFlush
<1> QED
  BY <1>1, <1>2, <1>3, <1>4, <1>5, <1>6, <1>7 DEF FlushStep

\* No call of this run has returned when Open does, and a stopping engine
\* owes no signal.
LEMMA RestartSignals ==
    ASSUME TypeOK, OrderInv, Signals,
           Open \/ Stop \/ CloseBegin \/ CloseFinish \/ \E i \in DOMAIN sst : Damage(i)
    PROVE  Signals'
<1>1. CASE Open
  <2>1. frozen' = <<>> /\ \A c \in Calls : pc'[c] # "ok"
    BY <1>1 DEF Open, OrderInv, QuietWhenDown
  <2>2. active' \subseteq Calls
    BY <1>1, OpenTypeOK DEF OrderInv, TypeOK, MemoryTypeOK
  <2> QED
    BY <2>1, <2>2 DEF Signals, NoLostFreeze, NoLostFlush
<1>2. CASE Stop \/ CloseBegin \/ CloseFinish \/ \E i \in DOMAIN sst : Damage(i)
  <2>1. status' # "running"
    BY <1>2 DEF Stop, CloseBegin, CloseFinish, Damage, memory
  <2> QED
    BY <2>1 DEF Signals, NoLostFreeze, NoLostFlush
<1> QED
  BY <1>1, <1>2

LEMMA SignalsStep == TypeOK /\ OrderInv /\ Signals /\ [Next]_vars => Signals'
<1> SUFFICES ASSUME TypeOK, OrderInv, Signals, [Next]_vars PROVE Signals'
  OBVIOUS
<1>1. ASSUME NEW c \in Calls, WriteCall(c) \/ GateTimeout(c) \/ WriteStep(c)
      PROVE  Signals'
  BY <1>1, WriteSignals
<1>2. CASE UNCHANGED vars
  BY <1>2 DEF vars, memory, workers, Signals, NoLostFreeze, NoLostFlush
<1> QED
  BY <1>1, <1>2, FreezeSignals, FlushSignals, RestartSignals DEF Next

LEMMA SignalsAlways == Spec => []Signals
<1>1. Init => Signals
  BY DEF Init, Signals, NoLostFreeze, NoLostFlush
<1> QED
  BY <1>1, SignalsStep, OrderInvariant, PTL DEF Spec

\* "A missed signal is reconstructed": while there is room in the queue, a
\* MemTable over the limit has a freeze signal on its way.
THEOREM FreezeSignalsArrive == Spec => []NoLostFreeze
<1>1. Signals => NoLostFreeze
  BY DEF Signals
<1> QED
  BY <1>1, SignalsAlways, PTL

\* A frozen MemTable has a flush signal on its way, or a flush worker that
\* has not gone back to waiting.
THEOREM FlushSignalsArrive == Spec => []NoLostFlush
<1>1. Signals => NoLostFlush
  BY DEF Signals
<1> QED
  BY <1>1, SignalsAlways, PTL

-----------------------------------------------------------------------------
(* Every record is where the engine will look for it: in a WAL segment     *)
(* while it is in a MemTable, and in the read snapshot once it is put.     *)

\* Appending keeps what a segment holds and adds the appended records.
LEMMA LogGrows ==
    ASSUME DiskTypeOK, NEW log \in Seq(Calls \cup {Torn}), LogAfter(log)
    PROVE  /\ \A s \in DOMAIN wal : Range(wal[s]) \subseteq Range(wal'[s])
           /\ seg \in DOMAIN wal => Range(log) \subseteq Range(wal'[seg])
<1>1. \A s \in DOMAIN wal : Range(wal[s] \o log) = Range(wal[s]) \cup Range(log)
  BY RangeConcatenation DEF DiskTypeOK
<1>2. \A s \in DOMAIN wal : wal'[s] = IF s = seg THEN wal[s] \o log ELSE wal[s]
  BY LogAfterIs
<1> QED
  BY <1>1, <1>2

\* A single appended record is in the range of what was appended.
LEMMA SingletonRange == ASSUME NEW e PROVE e \in Range(<<e>>)
<1>1. 1 \in DOMAIN <<e>> /\ <<e>>[1] = e
  OBVIOUS
<1> QED
  BY <1>1 DEF Range

\* One step of a Write call, seen by the records: nobody else moves, no
\* segment loses a record, a record enters the MemTable only after it is in
\* the active segment, and is acknowledged only after Put.
LEMMA WriteEffect ==
    ASSUME TypeOK, OrderInv, NEW c \in Calls, WriteCall(c) \/ GateTimeout(c) \/ WriteStep(c)
    PROVE  /\ \A d \in Calls \ {c} : pc'[d] = pc[d]
           /\ \A s \in DOMAIN wal : Range(wal[s]) \subseteq Range(wal'[s])
           /\ active \subseteq active'
           /\ active' \subseteq active \cup (IF pc[c] = "appended" THEN {c} ELSE {})
           /\ pc'[c] = "appended" => c \in Range(wal'[seg])
           /\ pc'[c] = "put" => c \in active'
           /\ pc'[c] = "ok" => pc[c] = "put"
<1> USE DEF disk, memory, workers, Goto, TypeOK, CallTypeOK
<1>0. seg \in DOMAIN wal
  BY DownIsStill DEF OrderInv, ActiveIsNewest
<1>1. CASE WriteCall(c)
  BY <1>1 DEF WriteCall
<1>2. CASE GateTimeout(c)
  BY <1>2 DEF GateTimeout
<1>3. CASE GatePass(c) \/ GateStall(c) \/ GateRefuse(c)
  BY <1>3 DEF GatePass, GateStall, GateRefuse
<1>4. CASE Allocate(c) \/ Bind(c)
  BY <1>4 DEF Allocate, Bind
<1>5. CASE AppendRecord(c)
  <2>1. <<c>> \in Seq(Calls \cup {Torn}) /\ LogAfter(<<c>>)
    BY <1>5, SingletonIsSeq DEF AppendRecord
  <2>2. /\ \A s \in DOMAIN wal : Range(wal[s]) \subseteq Range(wal'[s])
        /\ c \in Range(wal'[seg])
    BY <1>0, <2>1, LogGrows, SingletonRange
  <2> QED
    BY <1>5, <2>2 DEF AppendRecord
<1>6. CASE AppendFail(c)
  <2>1. \A s \in DOMAIN wal : Range(wal[s]) \subseteq Range(wal'[s])
    <3>1. CASE UNCHANGED wal
      BY <3>1
    <3>2. CASE \E left \in {<<Torn>>, <<c>>} : LogAfter(left)
      <4>1. <<Torn>> \in Seq(Calls \cup {Torn}) /\ <<c>> \in Seq(Calls \cup {Torn})
        BY SingletonIsSeq
      <4> QED
        BY <3>2, <4>1, LogGrows
    <3> QED
      BY <1>6, <3>1, <3>2 DEF AppendFail
  <2> QED
    BY <1>6, <2>1 DEF AppendFail
<1>7. CASE Put(c)
  BY <1>7 DEF Put
<1>8. CASE WriteReturn(c)
  BY <1>8 DEF WriteReturn
<1> QED
  BY <1>1, <1>2, <1>3, <1>4, <1>5, <1>6, <1>7, <1>8 DEF WriteStep

-----------------------------------------------------------------------------
(* The log covers the MemTables.                                           *)

\* A Write call covers its own record and uncovers nobody's.
LEMMA WriteCovers ==
    ASSUME TypeOK, OrderInv, LogCovers,
           NEW c \in Calls, WriteCall(c) \/ GateTimeout(c) \/ WriteStep(c)
    PROVE  LogCovers'
<1>1. /\ UNCHANGED <<frozen, seg, fl>> /\ DOMAIN wal' = DOMAIN wal
      /\ seg \in DOMAIN wal
  BY WriteFrame, DownIsStill DEF OrderInv, ActiveIsNewest
<1>2. Reserved' = Reserved
  BY <1>1 DEF Reserved
<1>3. \A s \in DOMAIN wal : Range(wal[s]) \subseteq Range(wal'[s])
  BY WriteEffect
<1>4. \A d, own : LoggedFor(d, own) => LoggedFor(d, own)'
  BY <1>1, <1>2, <1>3 DEF LoggedFor
<1>5. \A d \in active' : LoggedFor(d, seg)'
  <2> SUFFICES ASSUME NEW d \in active' PROVE LoggedFor(d, seg)'
    OBVIOUS
  <2>1. CASE d \in active
    BY <2>1, <1>1, <1>4 DEF LogCovers
  <2>2. CASE d = c /\ pc[c] = "appended"
    <3>1. LoggedFor(c, seg)
      BY <2>2, <1>1 DEF LogCovers, LoggedFor
    <3> QED
      BY <2>2, <3>1, <1>1, <1>4
  <2> QED
    BY <2>1, <2>2, WriteEffect
<1>6. \A i \in DOMAIN frozen' : \A d \in frozen'[i].mt : LoggedFor(d, frozen[i].seg)'
  BY <1>1, <1>4 DEF LogCovers
<1>7. \A d \in Calls : pc'[d] = "appended" => d \in Range(wal'[seg'])
  BY <1>1, <1>3, WriteEffect DEF LogCovers
<1> QED
  BY <1>1, <1>5, <1>6, <1>7 DEF LogCovers

\* A rotation moves the active MemTable and its segment into the queue.
LEMMA RotateCovers == ASSUME TypeOK, OrderInv, LogCovers, FreezeRotate PROVE LogCovers'
<1>1. /\ seg' = seg + 1 /\ fl' = fl /\ pc' = pc /\ active' = {} /\ seg \in Nat
      /\ DOMAIN wal' = DOMAIN wal \cup {seg + 1}
      /\ \A s \in DOMAIN wal \ {seg + 1} : wal'[s] = wal[s]
  BY DEF FreezeRotate, With, TypeOK, MemoryTypeOK
<1>2. \A s \in DOMAIN wal : s \in Nat /\ s <= seg
  BY DownIsStill DEF OrderInv, ActiveIsNewest, FreezeStep, TypeOK, DiskTypeOK
<1>3. \A s \in DOMAIN wal : s \in Reserved' => s \in Reserved
  <2> SUFFICES ASSUME NEW s \in DOMAIN wal, s \in Reserved' PROVE s \in Reserved
    OBVIOUS
  <2>1. CASE s = seg'
    BY <1>1, <1>2, <2>1
  <2>2. CASE \E i \in DOMAIN frozen' : s = frozen'[i].seg
    <3>1. PICK i \in DOMAIN frozen' : s = frozen'[i].seg
      BY <2>2
    <3>2. i \in DOMAIN frozen \/ i = Len(frozen) + 1
      BY RotateIs
    <3>3. i \in DOMAIN frozen => s = frozen[i].seg
      BY <3>1, RotateIs
    <3>4. i = Len(frozen) + 1 => s = seg
      BY <3>1, RotateIs
    <3> QED
      BY <3>2, <3>3, <3>4 DEF Reserved
  <2>3. CASE fl'.pc = "delete" /\ s = fl'.seg
    BY <1>1, <2>3 DEF Reserved
  <2> QED
    BY <2>1, <2>2, <2>3 DEF Reserved
<1>4. ASSUME NEW c, NEW own, LoggedFor(c, own) PROVE LoggedFor(c, own)'
  <2>1. PICK s \in DOMAIN wal : c \in Range(wal[s]) /\ (s \in Reserved => s = own)
    BY <1>4 DEF LoggedFor
  <2>2. s \in DOMAIN wal' /\ wal'[s] = wal[s]
    BY <1>1, <1>2
  <2>3. s \in Reserved' => s = own
    BY <1>3, <2>1
  <2> QED
    BY <2>1, <2>2, <2>3 DEF LoggedFor
<1>5. \A i \in DOMAIN frozen' : \A c \in frozen'[i].mt : LoggedFor(c, frozen[i].seg)'
  <2> SUFFICES ASSUME NEW i \in DOMAIN frozen', NEW c \in frozen'[i].mt
               PROVE  LoggedFor(c, frozen[i].seg)'
    OBVIOUS
  <2>1. CASE i \in DOMAIN frozen
    <3>1. frozen'[i] = frozen[i]
      BY <2>1, RotateIs
    <3>2. LoggedFor(c, frozen[i].seg)
      BY <2>1, <3>1 DEF LogCovers
    <3> QED
      BY <1>4, <3>1, <3>2
  <2>2. CASE i = Len(frozen) + 1
    <3>1. frozen'[i].mt = active /\ frozen'[i].seg = seg
      BY <2>2, RotateIs
    <3>2. LoggedFor(c, seg)
      BY <3>1 DEF LogCovers
    <3> QED
      BY <1>4, <3>1, <3>2
  <2> QED
    BY <2>1, <2>2, RotateIs
<1>6. \A c \in Calls : pc'[c] # "appended"
  BY <1>1 DEF FreezeRotate, NoReader, ReadLocked
<1>7. \A c \in active' : LoggedFor(c, seg)'
  BY <1>1
<1> QED
  BY <1>1, <1>5, <1>6, <1>7 DEF LogCovers

\* The coordinator's other steps touch neither MemTables nor segments.
LEMMA FreezeCovers == ASSUME TypeOK, OrderInv, LogCovers, FreezeStep PROVE LogCovers'
<1>1. CASE FreezeRotate
  BY <1>1, RotateCovers
<1>2. CASE ~FreezeRotate
  <2>1. UNCHANGED <<wal, frozen, active, seg, fl, pc>>
    BY <1>2, FreezeFrame
  <2> QED
    BY <2>1 DEF LogCovers, LoggedFor, Reserved
<1> QED
  BY <1>1, <1>2

\* The flush worker drops a MemTable from the queue before it deletes that
\* MemTable's segment, and no other MemTable relies on that segment.
LEMMA FlushCovers == ASSUME TypeOK, OrderInv, LogCovers, FlushStep PROVE LogCovers'
<1> USE DEF disk, memory
<1>1. CASE FlushSwap
  <2>1. /\ UNCHANGED <<wal, seg, active, pc>> /\ fl.pc = "swap"
        /\ fl'.pc = "delete" /\ fl'.seg = fl.seg
    BY <1>1 DEF FlushSwap, TypeOK, WorkerTypeOK
  <2>2. frozen # <<>> /\ Head(frozen) = [mt |-> fl.mt, seg |-> fl.seg]
    BY <2>1 DEF OrderInv, FlushOrder
  <2>3. 1 \in DOMAIN frozen /\ frozen[1].seg = fl.seg
    BY <1>1, <2>2, SwapIs
  <2>4. \A i \in DOMAIN frozen' : frozen'[i] = frozen[i + 1] /\ i + 1 \in DOMAIN frozen
    BY <1>1, <2>2, SwapIs
  <2>5. Reserved' \subseteq Reserved
    BY <2>1, <2>3, <2>4 DEF Reserved
  <2>6. \A c, own : LoggedFor(c, own) => LoggedFor(c, own)'
    BY <2>1, <2>5 DEF LoggedFor
  <2>7. \A i \in DOMAIN frozen' : \A c \in frozen'[i].mt : LoggedFor(c, frozen[i].seg)'
    <3> SUFFICES ASSUME NEW i \in DOMAIN frozen', NEW c \in frozen'[i].mt
                 PROVE  LoggedFor(c, frozen[i].seg)'
      OBVIOUS
    <3>1. LoggedFor(c, frozen[i + 1].seg)
      BY <2>4 DEF LogCovers
    <3> QED
      BY <2>4, <2>6, <3>1
  <2>8. \A c \in active' : LoggedFor(c, seg)'
    BY <2>1, <2>6 DEF LogCovers
  <2> QED
    BY <2>1, <2>7, <2>8 DEF LogCovers
<1>2. CASE FlushDelete
  <2>1. /\ UNCHANGED <<frozen, seg, active, pc>> /\ fl.pc = "delete" /\ fl'.pc = "signal"
    BY <1>2 DEF FlushDelete, TypeOK, WorkerTypeOK
  <2>2. fl.seg # seg /\ \A i \in DOMAIN frozen : fl.seg # frozen[i].seg
    <3>1. fl.seg \in Nat
      BY DEF TypeOK, WorkerTypeOK
    <3> QED
      BY <2>1, <3>1 DEF OrderInv, FlushInProgress, FlushOrder
  <2>3. Reserved' = Reserved \ {fl.seg} /\ fl.seg \in Reserved
    BY <2>1, <2>2 DEF Reserved
  <2>4. \A s \in DOMAIN wal \ {fl.seg} : s \in DOMAIN wal' /\ wal'[s] = wal[s]
    BY <1>2 DEF FlushDelete, Without
  <2>5. \A c, own : own # fl.seg /\ LoggedFor(c, own) => LoggedFor(c, own)'
    BY <2>3, <2>4 DEF LoggedFor
  <2>6. \A c \in active' : LoggedFor(c, seg)'
    BY <2>1, <2>2, <2>5 DEF LogCovers
  <2>7. \A i \in DOMAIN frozen' : \A c \in frozen'[i].mt : LoggedFor(c, frozen[i].seg)'
    BY <2>1, <2>2, <2>5 DEF LogCovers
  <2>8. \A c \in Calls : pc'[c] = "appended" => c \in Range(wal'[seg'])
    <3>1. seg \in DOMAIN wal
      BY DownIsStill DEF OrderInv, ActiveIsNewest
    <3>2. wal'[seg] = wal[seg]
      BY <2>2, <2>4, <3>1
    <3> QED
      BY <2>1, <3>2 DEF LogCovers
  <2> QED
    BY <2>6, <2>7, <2>8 DEF LogCovers
<1>3. CASE FlushReceive \/ FlushNothing \/ FlushSnapshot \/ FlushWrite \/ FlushFail
           \/ FlushRetry \/ FlushSignal \/ FlushFatal \/ FlushExit
  <2>1. UNCHANGED <<wal, frozen, seg, active, pc>> /\ fl.pc # "delete" /\ fl'.pc # "delete"
    <3> USE DEF TypeOK, WorkerTypeOK
    <3>1. CASE FlushReceive \/ FlushNothing
      BY <3>1 DEF FlushReceive, FlushNothing, IdleFlusher
    <3>5. CASE FlushSnapshot
      <4>1. fl'.pc = "write" /\ fl.pc = "try"
        BY <3>5 DEF FlushSnapshot
      <4> QED
        BY <3>5, <4>1 DEF FlushSnapshot
    <3>2. CASE FlushWrite
      <4>1. fl'.pc = "swap" /\ fl.pc = "write"
        BY <3>2 DEF FlushWrite
      <4> QED
        BY <3>2, <4>1 DEF FlushWrite
    <3>3. CASE FlushFail
      <4>1. fl'.pc \in {"fatal", "backoff"}
        BY <3>3 DEF FlushFail
      <4> QED
        BY <3>3, <4>1 DEF FlushFail
    <3>4. CASE FlushRetry \/ FlushSignal \/ FlushFatal \/ FlushExit
      BY <3>4 DEF FlushRetry, FlushSignal, FlushFatal, FlushExit, IdleFlusher
    <3> QED
      BY <1>3, <3>1, <3>2, <3>3, <3>4, <3>5
  <2>2. Reserved' = Reserved
    BY <2>1 DEF Reserved
  <2> QED
    BY <2>1, <2>2 DEF LogCovers, LoggedFor
<1> QED
  BY <1>1, <1>2, <1>3 DEF FlushStep

\* What recovery replays is in a segment recovery keeps.
LEMMA RestartCovers ==
    ASSUME TypeOK, OrderInv, LogCovers,
           Open \/ Stop \/ CloseBegin \/ CloseFinish \/ \E i \in DOMAIN sst : Damage(i)
    PROVE  LogCovers'
<1>1. CASE Open
  <2>1. /\ frozen' = <<>> /\ DOMAIN frozen' = {} /\ fl'.pc = "wait" /\ pc' = pc
        /\ active' = Replayed
        /\ \A c \in Calls : pc[c] # "appended"
    BY <1>1, EmptyIsSeq DEF Open, IdleFlusher, OrderInv, QuietWhenDown, InFlight
  <2>2. Reserved' = {seg'}
    BY <2>1 DEF Reserved
  <2>3. ASSUME NEW c \in Replayed PROVE \E s \in DOMAIN wal' : c \in Range(wal'[s]) /\ (s \in Reserved' => s = seg')
    <3>1. PICK s \in DOMAIN wal : c \in Replay(wal[s])
      BY <2>3 DEF Replayed, Logged
    <3>2. c \in Range(wal[s])
      BY <3>1 DEF Replay, Range
    <3>3. ~Covered(c)
      BY <2>3 DEF Replayed
    <3>4. s \in DOMAIN wal' /\ wal'[s] = wal[s]
      BY <1>1, <3>1, <3>3 DEF Open, Segments
    <3> QED
      BY <2>2, <3>2, <3>4
  <2>4. \A c \in active' : LoggedFor(c, seg)'
    BY <2>1, <2>3 DEF LoggedFor
  <2> QED
    BY <2>1, <2>4 DEF LogCovers
<1>2. CASE Stop
  <2>1. /\ frozen' = <<>> /\ DOMAIN frozen' = {} /\ active' = {}
        /\ \A c \in Calls : pc'[c] # "appended"
    BY <1>2, EmptyIsSeq DEF Stop, InFlight
  <2> QED
    BY <2>1 DEF LogCovers
<1>3. CASE CloseBegin \/ CloseFinish \/ \E i \in DOMAIN sst : Damage(i)
  <2>1. UNCHANGED <<wal, frozen, seg, active, pc, fl>>
    BY <1>3 DEF CloseBegin, CloseFinish, Damage, disk, workers, memory
  <2> QED
    BY <2>1 DEF LogCovers, LoggedFor, Reserved
<1> QED
  BY <1>1, <1>2, <1>3

\* Every step keeps the log covering the MemTables.
LEMMA CoverStep ==
    TypeOK /\ OrderInv /\ LogCovers /\ [Next]_vars => LogCovers'
<1> SUFFICES ASSUME TypeOK, OrderInv, LogCovers, [Next]_vars PROVE LogCovers'
  OBVIOUS
<1>1. CASE UNCHANGED vars
  BY <1>1 DEF vars, disk, memory, workers, LogCovers, LoggedFor, Reserved
<1> QED
  BY <1>1, WriteCovers, FreezeCovers, FlushCovers, RestartCovers DEF Next

\* Every record of a MemTable, active or frozen, is in a WAL segment that is
\* not deleted before that MemTable is flushed.
THEOREM LogCoverage == Spec => []LogCovers
<1>1. Init => LogCovers
  <2> SUFFICES ASSUME Init PROVE LogCovers
    OBVIOUS
  <2>1. active = {} /\ frozen = <<>> /\ DOMAIN frozen = {}
    BY EmptyIsSeq DEF Init
  <2>2. \A c \in Calls : pc[c] # "appended"
    BY DEF Init
  <2> QED
    BY <2>1, <2>2 DEF LogCovers
<1> QED
  BY <1>1, CoverStep, OrderInvariant, PTL DEF Spec

\* Concurrency invariant 1 of the package comment holds in every reachable
\* state, for any number of writers, any limits and any faults.
THEOREM MemTablesAreLogged == Spec => []MemTableSubsetOfWAL
<1>1. LogCovers => MemTableSubsetOfWAL
  BY DEF LogCovers, LoggedFor, MemTableSubsetOfWAL, FrozenRecords
<1> QED
  BY <1>1, LogCoverage, PTL

-----------------------------------------------------------------------------
(* Reads.                                                                  *)

\* What reads find, spelled out: the MemTables and the open SSTables.
LEMMA VisibleIs ==
    \A c : c \in Visible <=> \/ c \in active
                             \/ \E i \in DOMAIN frozen : c \in frozen[i].mt
                             \/ \E i \in tables : c \in sst[i]
  BY DEF Visible, FrozenRecords

\* A rotation moves records inside the read snapshot.
LEMMA RotateKeepsVisible ==
    ASSUME TypeOK, FreezeRotate PROVE Visible \subseteq Visible'
<1> SUFFICES ASSUME NEW c \in Visible PROVE c \in Visible'
  OBVIOUS
<1>1. UNCHANGED <<sst, tables>>
  BY DEF FreezeRotate, files
<1>2. CASE c \in active
  <2>1. /\ Len(frozen) + 1 \in DOMAIN frozen'
        /\ frozen'[Len(frozen) + 1].mt = active
    BY RotateIs
  <2> QED
    BY <1>2, <2>1 DEF Visible, FrozenRecords
<1>3. CASE \E i \in DOMAIN frozen : c \in frozen[i].mt
  <2>1. PICK i \in DOMAIN frozen : c \in frozen[i].mt
    BY <1>3
  <2>2. i \in DOMAIN frozen' /\ frozen'[i] = frozen[i]
    BY RotateIs
  <2> QED
    BY <2>1, <2>2 DEF Visible, FrozenRecords
<1>4. CASE \E i \in tables : c \in sst[i]
  BY <1>1, <1>4 DEF Visible
<1> QED
  BY <1>2, <1>3, <1>4, VisibleIs

\* A flush hands its records from the queue to the new reader in one step.
LEMMA FlushKeepsVisible ==
    ASSUME TypeOK, OrderInv, FlushStep PROVE Visible \subseteq Visible'
<1> USE DEF disk, memory
<1>0. status # "down"
  BY DownIsStill DEF OrderInv
<1>1. CASE FlushSwap
  <2> SUFFICES ASSUME NEW c \in Visible PROVE c \in Visible'
    OBVIOUS
  <2>1. /\ UNCHANGED <<sst, active>> /\ tables' = tables \cup {fl.id} /\ fl.pc = "swap"
    BY <1>1 DEF FlushSwap
  <2>2. /\ frozen # <<>> /\ Head(frozen) = [mt |-> fl.mt, seg |-> fl.seg]
        /\ sst[fl.id] = fl.mt
    BY <2>1 DEF OrderInv, FlushOrder, FlushInProgress
  <2>3. CASE c \in active \/ \E i \in tables : c \in sst[i]
    BY <2>1, <2>3 DEF Visible
  <2>4. CASE \E i \in DOMAIN frozen : c \in frozen[i].mt
    <3>1. PICK i \in DOMAIN frozen : c \in frozen[i].mt
      BY <2>4
    <3>2. CASE i = 1
      <4>1. frozen[1].mt = fl.mt
        BY <1>1, <2>2, SwapIs
      <4> QED
        BY <2>1, <2>2, <3>1, <3>2, <4>1 DEF Visible
    <3>3. CASE i - 1 \in DOMAIN frozen' /\ frozen'[i - 1] = frozen[i]
      BY <3>1, <3>3 DEF Visible, FrozenRecords
    <3> QED
      BY <1>1, <2>2, <3>2, <3>3, SwapIs
  <2> QED
    BY <2>3, <2>4, VisibleIs
<1>2. CASE FlushWrite \/ FlushFail
  <2>1. UNCHANGED <<active, frozen, tables>> /\ nextSST' = nextSST + 1
    BY <1>2 DEF FlushWrite, FlushFail
  <2>2. sst' = sst \/ sst' = With(sst, nextSST + 1, fl.mt)
    BY <1>2 DEF FlushWrite, FlushFail
  <2>3. \A i \in tables : i \in DOMAIN sst /\ sst'[i] = sst[i]
    BY <1>0, <2>1, <2>2, NewTableIsNew DEF TypeOK, DiskTypeOK
  <2> QED
    BY <2>1, <2>3 DEF Visible, FrozenRecords
<1>3. CASE ~(FlushSwap \/ FlushWrite \/ FlushFail)
  <2>1. UNCHANGED <<active, frozen, tables, sst>>
    BY <1>3 DEF FlushStep, FlushReceive, FlushNothing, FlushSnapshot, FlushRetry, FlushDelete,
                FlushSignal, FlushFatal, FlushExit
  <2> QED
    BY <2>1 DEF Visible, FrozenRecords
<1> QED
  BY <1>1, <1>2, <1>3

\* No step between two serving states hides a record.
LEMMA VisibleGrows ==
    ASSUME TypeOK, OrderInv, [Next]_vars, Serving, Serving'
    PROVE  Visible \subseteq Visible'
<1> USE DEF Serving
<1>1. ASSUME NEW c \in Calls, WriteCall(c) \/ GateTimeout(c) \/ WriteStep(c)
      PROVE  Visible \subseteq Visible'
  <2>1. UNCHANGED <<frozen, tables, sst>> /\ active \subseteq active'
    BY <1>1, WriteFrame, WriteEffect
  <2> QED
    BY <2>1 DEF Visible, FrozenRecords
<1>2. CASE FreezeStep
  <2>1. CASE FreezeRotate
    BY <2>1, RotateKeepsVisible
  <2>2. CASE ~FreezeRotate
    BY <1>2, <2>2, FreezeFrame DEF Visible, FrozenRecords
  <2> QED
    BY <2>1, <2>2
<1>3. CASE FlushStep
  BY <1>3, FlushKeepsVisible
<1>4. CASE CloseBegin
  BY <1>4 DEF CloseBegin, disk, Visible, FrozenRecords
<1>5. ~Open /\ ~Stop /\ ~CloseFinish /\ ~ \E i \in DOMAIN sst : Damage(i)
  BY DEF Open, Stop, CloseFinish, Damage
<1>6. CASE UNCHANGED vars
  BY <1>6 DEF vars, disk, memory, Visible, FrozenRecords
<1> QED
  BY <1>1, <1>2, <1>3, <1>4, <1>5, <1>6 DEF Next

\* Whoever is acknowledged by this run is readable in this run.
LEMMA PutReadableStep ==
    TypeOK /\ OrderInv /\ PutReadable /\ [Next]_vars => PutReadable'
<1> SUFFICES ASSUME TypeOK, OrderInv, PutReadable, [Next]_vars, Serving',
                    NEW c \in Calls, pc'[c] \in {"put", "ok"}
             PROVE  c \in Visible'
  BY DEF PutReadable
<1>1. ASSUME NEW d \in Calls, WriteCall(d) \/ GateTimeout(d) \/ WriteStep(d)
      PROVE  c \in Visible'
  <2>1. Serving
    BY <1>1, WriteFrame DEF Serving
  <2>2. CASE pc'[c] = "put" /\ c = d
    BY <1>1, <2>2, WriteEffect DEF Visible
  <2>3. CASE pc[c] \in {"put", "ok"}
    BY <2>1, <2>3, VisibleGrows DEF PutReadable
  <2>4. c # d => pc'[c] = pc[c]
    BY <1>1, WriteEffect
  <2>5. c = d /\ pc'[c] = "ok" => pc[c] = "put"
    BY <1>1, WriteEffect
  <2> QED
    BY <2>2, <2>3, <2>4, <2>5
<1>2. CASE FreezeStep \/ FlushStep \/ CloseBegin \/ CloseFinish \/ UNCHANGED vars
  <2>1. CASE FreezeStep
    <3>1. pc' = pc /\ status' = status
      BY <2>1, FreezeFrame DEF FreezeRotate
    <3> QED
      BY <3>1, VisibleGrows DEF PutReadable, Serving
  <2>2. CASE FlushStep
    <3>1. pc' = pc /\ status' = status
      BY <2>2 DEF FlushStep, FlushReceive, FlushNothing, FlushSnapshot, FlushWrite, FlushFail,
                  FlushRetry, FlushSwap, FlushDelete, FlushSignal, FlushFatal, FlushExit, memory
    <3> QED
      BY <3>1, VisibleGrows DEF PutReadable, Serving
  <2>3. CASE CloseBegin \/ CloseFinish \/ UNCHANGED vars
    <3>1. pc' = pc /\ Serving
      BY <2>3 DEF CloseBegin, CloseFinish, vars, memory, Serving
    <3> QED
      BY <3>1, VisibleGrows DEF PutReadable
  <2> QED
    BY <1>2, <2>1, <2>2, <2>3
<1>3. CASE Open \/ Stop \/ \E i \in DOMAIN sst : Damage(i)
  <2>1. ~Stop /\ ~ \E i \in DOMAIN sst : Damage(i)
    BY DEF Stop, Damage, memory, Serving
  <2>2. status = "down" /\ pc' = pc
    BY <1>3, <2>1 DEF Open
  <2> QED
    BY <2>2 DEF OrderInv, QuietWhenDown, InFlight
<1> QED
  BY <1>1, <1>2, <1>3 DEF Next

\* The inductive invariant the EngineConcurrent run checks.
THEOREM Safety == Spec => []SafetyInv
<1>1. Init => PutReadable
  BY DEF Init, PutReadable, Serving
<1>2. Spec => []PutReadable
  BY <1>1, PutReadableStep, OrderInvariant, PTL DEF Spec
<1>3. TypeOK /\ OrderInv /\ LogCovers /\ PutReadable => SafetyInv
  BY DEF SafetyInv
<1> QED
  BY <1>2, <1>3, OrderInvariant, LogCoverage, PTL

\* While the process serves, a Get or Scan finds every record whose Write
\* returned in this run, with any interleaving of rotation and flush, any
\* I/O failure and a fatal engine.
THEOREM AckedAreReadable == Spec => []RunReadable
<1>1. SafetyInv => RunReadable
  BY DEF SafetyInv, PutReadable, RunReadable
<1> QED
  BY <1>1, Safety, PTL

\* No step of a serving engine hides a record from readers.
THEOREM NothingHidden == Spec => VisibleStays
<1>1. TypeOK /\ OrderInv /\ [Next]_vars =>
        [Serving /\ Serving' => Visible \subseteq Visible']_vars
  BY VisibleGrows
<1> QED
  BY <1>1, OrderInvariant, PTL DEF Spec, VisibleStays

-----------------------------------------------------------------------------
(* What a record leaves behind.                                            *)

InLog(c) == \E s \in DOMAIN wal : c \in Range(wal[s])
InFile(c) == \E i \in DOMAIN sst : c \in sst[i]
InQueue(c) == \E i \in DOMAIN frozen : c \in frozen[i].mt

\* c has left a trace in memory or on disk.
Stored(c) == c \in active \/ InQueue(c) \/ c \in fl.mt \/ InLog(c) \/ InFile(c)

\* An append adds what is appended.
LEMMA AppendAdds ==
    ASSUME DiskTypeOK, NEW e \in Calls \cup {Torn}, LogAfter(<<e>>), NEW c, InLog(c)'
    PROVE  InLog(c) \/ c = e
<1>1. PICK s \in DOMAIN wal' : c \in Range(wal'[s])
  BY DEF InLog
<1>2. s \in DOMAIN wal /\ wal'[s] = IF s = seg THEN wal[s] \o <<e>> ELSE wal[s]
  BY LogAfterIs
<1>3. wal[s] \in Seq(Calls \cup {Torn}) /\ <<e>> \in Seq(Calls \cup {Torn})
  BY <1>2, SingletonIsSeq DEF DiskTypeOK
<1>4. Range(wal[s] \o <<e>>) = Range(wal[s]) \cup Range(<<e>>)
  BY <1>3, RangeConcatenation
<1>5. Range(<<e>>) = {e}
  BY DEF Range
<1> QED
  BY <1>1, <1>2, <1>4, <1>5 DEF InLog

\* A Write call stores its own record only, and only from "bound" on.
LEMMA WriteStores ==
    ASSUME TypeOK, OrderInv, NEW d \in Calls, WriteCall(d) \/ GateTimeout(d) \/ WriteStep(d),
           NEW c \in Calls, ~Stored(c), Stored(c)'
    PROVE  pc[c] \in {"bound", "appended"} /\ pc'[c] \in {"appended", "err", "put"}
<1>1. UNCHANGED <<frozen, fl, sst>>
  BY WriteFrame
<1>2. active' \subseteq active \cup (IF pc[d] = "appended" THEN {d} ELSE {})
  BY WriteEffect
<1>3. c \in active' \ active \/ (InLog(c)' /\ ~InLog(c))
  BY <1>1 DEF Stored, InQueue, InFile
<1>4. CASE c \in active' \ active
  <2>1. d = c /\ pc[c] = "appended"
    BY <1>2, <1>4
  <2>2. Put(c)
    BY <2>1 DEF WriteCall, GateTimeout, WriteStep, GatePass, GateStall, GateRefuse, Allocate, Bind,
         AppendRecord, AppendFail, WriteReturn
  <2> QED
    BY <2>1, <2>2 DEF Put, Goto, TypeOK, CallTypeOK
<1>5. CASE InLog(c)' /\ ~InLog(c)
  <2>1. wal' # wal
    BY <1>5 DEF InLog
  <2>2. AppendRecord(d) \/ AppendFail(d)
    BY <2>1 DEF WriteCall, GateTimeout, WriteStep, GatePass, GateStall, GateRefuse, Allocate, Bind, Put,
         WriteReturn, disk
  <2>3. LogAfter(<<d>>) \/ LogAfter(<<Torn>>)
    BY <2>1, <2>2 DEF AppendRecord, AppendFail
  <2>4. c = d
    BY <1>5, <2>3, AppendAdds, TornAssumption DEF TypeOK
  <2> QED
    BY <2>2, <2>4 DEF AppendRecord, AppendFail, Goto, TypeOK, CallTypeOK
<1> QED
  BY <1>3, <1>4, <1>5

\* The workers move records that are stored.
LEMMA WorkersStoreNothing ==
    ASSUME TypeOK, OrderInv, FreezeStep \/ FlushStep, NEW c \in Calls, Stored(c)'
    PROVE  Stored(c)
<1> USE DEF Stored, InQueue, InLog, InFile
<1>0. status # "down"
  BY DownIsStill DEF OrderInv
<1>1. CASE FreezeRotate
  <2>1. /\ UNCHANGED <<fl, sst>> /\ active' = {}
        /\ wal' = With(wal, seg + 1, <<>>)
    BY <1>1 DEF FreezeRotate, files
  <2>2. InLog(c)' => InLog(c)
    <3>1. ASSUME NEW s \in DOMAIN wal', c \in Range(wal'[s]) PROVE InLog(c)
      <4>1. wal'[s] = <<>> \/ (s \in DOMAIN wal /\ wal'[s] = wal[s])
        BY <2>1 DEF With
      <4>2. c \notin Range(<<>>)
        BY EmptyIsSeq DEF Range
      <4> QED
        BY <3>1, <4>1, <4>2
    <3> QED
      BY <3>1
  <2>3. InQueue(c)' => InQueue(c) \/ c \in active
    <3>1. ASSUME NEW i \in DOMAIN frozen', c \in frozen'[i].mt PROVE InQueue(c) \/ c \in active
      <4>1. i \in DOMAIN frozen \/ i = Len(frozen) + 1
        BY <1>1, RotateIs
      <4> QED
        BY <1>1, <3>1, <4>1, RotateIs
    <3> QED
      BY <3>1
  <2> QED
    BY <2>1, <2>2, <2>3
<1>2. CASE FreezeStep /\ ~FreezeRotate
  BY <1>2, FreezeFrame
<1>3. CASE FlushSnapshot
  <2>1. UNCHANGED <<active, frozen, wal, sst>> /\ frozen # <<>> /\ fl'.mt = Head(frozen).mt
    BY <1>3 DEF FlushSnapshot, disk, memory, TypeOK, WorkerTypeOK
  <2>2. 1 \in DOMAIN frozen /\ Head(frozen) = frozen[1]
    BY <2>1, FrozenType
  <2> QED
    BY <2>1, <2>2
<1>4. CASE FlushWrite \/ FlushFail
  <2>1. /\ UNCHANGED <<active, frozen, wal>> /\ fl'.mt = fl.mt
        /\ nextSST' = nextSST + 1
        /\ sst' = sst \/ sst' = With(sst, nextSST + 1, fl.mt)
    BY <1>4 DEF FlushWrite, FlushFail, TypeOK, WorkerTypeOK
  <2>2. InFile(c)' => InFile(c) \/ c \in fl.mt
    BY <2>1 DEF With
  <2> QED
    BY <2>1, <2>2
<1>5. CASE FlushSwap
  <2>1. UNCHANGED <<active, wal, sst>> /\ fl'.mt = fl.mt /\ fl.pc = "swap"
    BY <1>5 DEF FlushSwap, disk, TypeOK, WorkerTypeOK
  <2>2. frozen # <<>>
    BY <2>1 DEF OrderInv, FlushOrder
  <2>3. InQueue(c)' => InQueue(c)
    BY <1>5, <2>2, SwapIs
  <2> QED
    BY <2>1, <2>3
<1>6. CASE FlushDelete
  <2>1. UNCHANGED <<active, frozen, sst>> /\ fl'.mt = fl.mt
    BY <1>6 DEF FlushDelete, memory, TypeOK, WorkerTypeOK
  <2>2. InLog(c)' => InLog(c)
    BY <1>6 DEF FlushDelete, Without
  <2> QED
    BY <2>1, <2>2
<1>7. CASE FlushStep /\ ~(FlushSnapshot \/ FlushWrite \/ FlushFail \/ FlushSwap \/ FlushDelete)
  <2>1. UNCHANGED <<active, frozen, wal, sst>> /\ (fl'.mt = fl.mt \/ fl'.mt = {})
    BY <1>7 DEF FlushStep, FlushReceive, FlushNothing, FlushRetry, FlushSignal, FlushFatal,
         FlushExit, IdleFlusher, disk, memory, TypeOK, WorkerTypeOK
  <2> QED
    BY <2>1
<1> QED
  BY <1>1, <1>2, <1>3, <1>4, <1>5, <1>6, <1>7

\* Recovery produces no record that was not logged or in a file.
LEMMA RestartStoresNothing ==
    ASSUME TypeOK, OrderInv,
           Open \/ Stop \/ CloseBegin \/ CloseFinish \/ \E i \in DOMAIN sst : Damage(i),
           NEW c \in Calls, Stored(c)'
    PROVE  Stored(c)
<1> USE DEF Stored, InQueue, InLog, InFile
<1>1. CASE Open
  <2>1. /\ active' = Replayed /\ frozen' = frozen /\ fl'.mt = {}
        /\ sst' = Without(sst, bad)
    BY <1>1 DEF Open, IdleFlusher
  <2>2. c \in Replayed => InLog(c)
    BY DEF Replayed, Logged, Replay, Range
  <2>3. InLog(c)' => InLog(c)
    <3>1. ASSUME NEW s \in DOMAIN wal', c \in Range(wal'[s]) PROVE InLog(c)
      <4>1. wal'[s] = <<>> \/ (s \in DOMAIN wal /\ wal'[s] = wal[s])
        BY <1>1 DEF Open
      <4>2. c \notin Range(<<>>)
        BY EmptyIsSeq DEF Range
      <4> QED
        BY <3>1, <4>1, <4>2
    <3> QED
      BY <3>1
  <2>4. InFile(c)' => InFile(c)
    BY <2>1 DEF Without
  <2> QED
    BY <2>1, <2>2, <2>3, <2>4
<1>2. CASE Stop
  <2>1. /\ active' = {} /\ DOMAIN frozen' = {} /\ fl'.mt = {} /\ sst' = sst
        /\ wal' = wal \/ LogAfter(<<Torn>>)
    BY <1>2, EmptyIsSeq DEF Stop, IdleFlusher
  <2>2. InLog(c)' => InLog(c)
    BY <2>1, AppendAdds, TornAssumption DEF TypeOK
  <2> QED
    BY <2>1, <2>2
<1>3. CASE CloseBegin \/ CloseFinish \/ \E i \in DOMAIN sst : Damage(i)
  BY <1>3 DEF CloseBegin, CloseFinish, Damage, disk, workers, memory
<1> QED
  BY <1>1, <1>2, <1>3

\* The labels before the append.
Early == {"idle", "gate", "stalled", "gated", "allocated", "bound"}

\* A call never becomes early again, and an error is final.
LEMMA CallsAdvance ==
    ASSUME TypeOK, [Next]_vars, NEW c \in Calls
    PROVE  /\ pc'[c] \in Early => pc[c] \in Early
           /\ pc[c] = "err" => pc'[c] = "err"
<1> USE DEF Early, TypeOK, CallTypeOK
<1>1. ASSUME NEW d \in Calls, WriteCall(d) \/ GateTimeout(d) \/ WriteStep(d)
      PROVE  /\ pc'[c] \in Early => pc[c] \in Early
             /\ pc[c] = "err" => pc'[c] = "err"
  <2>1. CASE WriteCall(d) \/ GateTimeout(d) \/ GatePass(d) \/ GateStall(d) \/ GateRefuse(d)
    BY <2>1 DEF WriteCall, GateTimeout, GatePass, GateStall, GateRefuse, Goto
  <2>2. CASE Allocate(d) \/ Bind(d)
    BY <2>2 DEF Allocate, Bind, Goto
  <2>3. CASE AppendRecord(d) \/ AppendFail(d) \/ Put(d) \/ WriteReturn(d)
    BY <2>3 DEF AppendRecord, AppendFail, Put, WriteReturn, Goto
  <2> QED
    BY <1>1, <2>1, <2>2, <2>3 DEF WriteStep
<1>2. CASE FreezeStep
  BY <1>2, FreezeFrame DEF FreezeRotate
<1>3. CASE FlushStep
  BY <1>3 DEF FlushStep, FlushReceive, FlushNothing, FlushSnapshot, FlushWrite, FlushFail,
       FlushRetry, FlushSwap, FlushDelete, FlushSignal, FlushFatal, FlushExit
<1>4. CASE Stop
  BY <1>4 DEF Stop, InFlight
<1>5. CASE Open \/ CloseBegin \/ CloseFinish \/ \E i \in DOMAIN sst : Damage(i)
  BY <1>5 DEF Open, CloseBegin, CloseFinish, Damage
<1>6. CASE UNCHANGED vars
  BY <1>6 DEF vars
<1> QED
  BY <1>1, <1>2, <1>3, <1>4, <1>5, <1>6 DEF Next

\* A call leaves no trace before its append.
EarlyUntraced == \A c \in Calls : pc[c] \in Early => ~Stored(c)

\* A call that newly leaves a trace appends or puts.
LEMMA StoredGrows ==
    ASSUME TypeOK, OrderInv, [Next]_vars, NEW c \in Calls, ~Stored(c), Stored(c)'
    PROVE  pc[c] \in {"bound", "appended"} /\ pc'[c] \in {"appended", "err", "put"}
<1>1. CASE UNCHANGED vars
  BY <1>1 DEF vars, disk, memory, workers, Stored, InLog, InFile, InQueue
<1> QED
  BY <1>1, WriteStores, WorkersStoreNothing, RestartStoresNothing DEF Next

LEMMA EarlyUntracedStep ==
    TypeOK /\ OrderInv /\ EarlyUntraced /\ [Next]_vars => EarlyUntraced'
  BY StoredGrows, CallsAdvance DEF EarlyUntraced, Early

LEMMA InitUntraced == Init => \A c \in Calls : ~Stored(c)
<1> SUFFICES ASSUME Init, NEW c \in Calls PROVE ~Stored(c)
  OBVIOUS
<1>1. active = {} /\ fl.mt = {} /\ DOMAIN wal = {} /\ DOMAIN sst = {} /\ DOMAIN frozen = {}
  BY EmptyIsSeq DEF Init
<1> QED
  BY <1>1 DEF Stored, InQueue, InLog, InFile
=============================================================================
