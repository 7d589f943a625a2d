------------------------------- MODULE Engine -------------------------------
(***************************************************************************)
(* The storage engine of DistLog (internal/engine over internal/wal,       *)
(* internal/memtable and internal/sstable): concurrent Write calls, the    *)
(* freeze coordinator, the flush worker, fatal state, Close, a crash at    *)
(* any point, and recovery by Open from what is on disk.                   *)
(*                                                                         *)
(* One element of Calls is one call of Engine.Write together with the      *)
(* record it carries; a call happens at most once, so MemTables, SSTables  *)
(* and WAL segments hold calls, and docID gives the DocID each call was    *)
(* assigned.  A record has size 1, so SizeBytes() is a cardinality.        *)
(*                                                                         *)
(* e.mu: a section under its write lock is one action; a call that holds   *)
(* its read lock across several actions is in one of the pc values         *)
(* ReadLocked, and write-locked actions wait until there is none.          *)
(*                                                                         *)
(* The condition variable behind the stall gate is abstracted to its       *)
(* predicate here; module Backpressure models the waiting itself.          *)
(***************************************************************************)
EXTENDS Integers, Sequences, FiniteSets, Functions

CONSTANTS
    Calls,            \* the Write calls, each made at most once
    Torn,             \* what a partial append leaves in a segment
    SoftLimit,        \* Config.MemTableSizeLimit
    HardLimit,        \* Config.MemTableHardLimit
    MaxFrozen,        \* Config.MaxFrozenMemTables
    MaxFlushRetries,  \* Config.MaxFlushRetries
    MaxInFlight,      \* bound: how many Write calls the clients run at a time
    MaxRestarts,      \* bound: how many times the process stops
    MaxDamaged,       \* bound: how many SSTable files bit rot destroys
    Faults            \* which I/O failures the disk produces

\* A failed append, a crash that cuts an append short, a failed rotation of
\* the log, a failed flush.
FaultKinds == {"append", "crash", "seal", "flush"}

ASSUME CallsAssumption == IsFiniteSet(Calls)
ASSUME TornAssumption == Torn \notin Calls
ASSUME LimitsAssumption ==
    /\ SoftLimit \in Nat \ {0} /\ HardLimit \in Nat \ {0}
    /\ MaxFrozen \in Nat \ {0} /\ MaxFlushRetries \in Nat \ {0}
ASSUME BoundsAssumption ==
    /\ MaxInFlight \in Nat /\ MaxRestarts \in Nat /\ MaxDamaged \in Nat
ASSUME FaultsAssumption == Faults \subseteq FaultKinds

VARIABLES
    \* on disk
    wal,       \* segment id -> sequence of appended records
    sst,       \* SSTable id -> records of the file at its final path
    bad,       \* the SSTable files that no longer open
    \* in memory
    status,    \* "down", "running", "closing" (closed is set), "closed"
    fatal,
    active,    \* records of the active MemTable
    seg,       \* id of the active WAL segment
    writer,    \* its segmentWriter: "open", "closed" or "nil"
    frozen,    \* frozen and frozenWALs: oldest first, [mt, seg] pairs
    tables,    \* ids of the open SSTable readers
    alloc,     \* the DocIDAllocator's last value
    nextSST,
    freezeCh, flushCh,   \* is a signal buffered in the capacity-1 channel?
    fz,        \* where freezeLoop is
    fl,        \* where flushLoop is: pc, the snapshot of phase 1, retries
    \* Write calls and bounds
    pc, docID,
    restarts, damaged

disk == <<wal, sst, bad>>
files == <<sst, bad, nextSST>>
workers == <<fz, fl, freezeCh, flushCh>>
memory == <<status, fatal, active, seg, writer, frozen, tables, alloc, nextSST>>
bounds == <<restarts, damaged>>
vars == <<disk, memory, workers, pc, docID, bounds>>

InFlight == {"gate", "stalled", "gated", "allocated", "bound", "appended", "put"}
Returned == {"ok", "err", "past", "dead"}

\* Mutation: the read lock is released before Put.
ReadLockedToAppend == {"bound", "panic"}

ReadLocked == {"bound", "appended", "panic"}   \* "panic" never releases it

InFlightCalls == {c \in Calls : pc[c] \in InFlight}
NoReader == \A c \in Calls : pc[c] \notin ReadLocked
Shutdown == status = "closing" \/ fatal        \* shutdownCh is closed
Goto(c, label) == pc' = [pc EXCEPT ![c] = label]

IsMaxOf(n, S) == n \in S /\ \A m \in S : m <= n
Without(f, S) == [x \in DOMAIN f \ S |-> f[x]]
With(f, x, v) == [y \in DOMAIN f \cup {x} |-> IF y = x THEN v ELSE f[y]]

\* What an append leaves in the active segment.
LogAfter(log) == wal' = [wal EXCEPT ![seg] = @ \o log]

-----------------------------------------------------------------------------
(* What recovery reads from the disk.                                      *)

\* decodeRecord fails on a tear, and the reader is then out of step with the
\* records behind it.
Readable(log, k) == \A j \in 1..k : log[j] # Torn

\* replayPath: the records of a segment in order, up to the first tear.
Replay(log) == {log[i] : i \in {k \in DOMAIN log : Readable(log, k)}}

Logged == UNION {Replay(wal[s]) : s \in DOMAIN wal}
Persisted == UNION {sst[i] : i \in DOMAIN sst \ bad}

\* docID <= maxSSTableDocID
Covered(c) == \E t \in Persisted : docID[c] <= docID[t]

\* The records the next Open would serve.
Replayed == {c \in Logged : ~Covered(c)}
Recoverable == Persisted \cup Replayed

\* Mutation: the SSTables' largest DocID is not observed.
ObservedInLog == {0} \cup {docID[c] : c \in Replayed}

\* What Open observes into the allocator.
Observed == {0} \cup {docID[c] : c \in Recoverable}

\* OpenManager adopts the segments of the directory; a fresh one gets the first.
Segments == IF DOMAIN wal = {} THEN {1} ELSE DOMAIN wal

\* loadSSTableMaxID: ids are handed out above those of all files.
SSTableIds == {0} \cup DOMAIN sst

-----------------------------------------------------------------------------
Init ==
    /\ wal = <<>> /\ sst = <<>> /\ bad = {}
    /\ status = "down" /\ fatal = FALSE
    /\ active = {} /\ seg = 0 /\ writer = "nil"
    /\ frozen = <<>> /\ tables = {} /\ alloc = 0 /\ nextSST = 0
    /\ freezeCh = FALSE /\ flushCh = FALSE /\ fz = "exit"
    /\ fl = [pc |-> "exit", mt |-> {}, seg |-> 0, id |-> 0, fails |-> 0]
    /\ pc = [c \in Calls |-> "idle"] /\ docID = [c \in Calls |-> 0]
    /\ restarts = 0 /\ damaged = 0

IdleFlusher(label) ==
    [pc |-> label, mt |-> {}, seg |-> 0, id |-> 0, fails |-> 0]

(* Open: quarantine the files that do not open, adopt the newest segment   *)
(* as the active one, replay every segment past the SSTables' largest      *)
(* DocID, delete covered sealed segments (best effort, hence any subset),  *)
(* rebuild the allocator, start the workers.  The id counter is read       *)
(* before quarantine moves files away.                                     *)
Open ==
    /\ status = "down"
    /\ LET obsolete == {s \in DOMAIN wal :
                          \A c \in Replay(wal[s]) : Covered(c)}
       IN \E last \in Segments, D \in SUBSET obsolete :
            /\ IsMaxOf(last, Segments) /\ last \notin D
            /\ seg' = last
            /\ wal' = [s \in Segments \ D |->
                         IF s \in DOMAIN wal THEN wal[s] ELSE <<>>]
    /\ \E n \in SSTableIds : IsMaxOf(n, SSTableIds) /\ nextSST' = n
    /\ \E n \in Observed : IsMaxOf(n, Observed) /\ alloc' = n
    /\ sst' = Without(sst, bad) /\ bad' = {} /\ tables' = DOMAIN sst \ bad
    /\ active' = Replayed
    /\ status' = "running" /\ writer' = "open"
    /\ fz' = "wait" /\ fl' = IdleFlusher("wait")
    /\ UNCHANGED <<fatal, frozen, freezeCh, flushCh, pc, docID, bounds>>

(* The process ends, by a crash at any point or by exiting after Close.    *)
(* Calls that were running never learn their outcome; a crash may cut the  *)
(* append of one of them short.                                            *)
Stop ==
    /\ status # "down" /\ restarts < MaxRestarts
    /\ restarts' = restarts + 1
    /\ status' = "down" /\ fatal' = FALSE
    /\ active' = {} /\ seg' = 0 /\ writer' = "nil"
    /\ frozen' = <<>> /\ tables' = {} /\ alloc' = 0 /\ nextSST' = 0
    /\ freezeCh' = FALSE /\ flushCh' = FALSE
    /\ fz' = "exit" /\ fl' = IdleFlusher("exit")
    /\ pc' = [c \in Calls |->
                CASE pc[c] = "ok" -> "past"
                  [] pc[c] \in InFlight \cup {"panic"} -> "dead"
                  [] OTHER -> pc[c]]
    /\ \/ UNCHANGED wal
       \/ /\ "crash" \in Faults /\ writer = "open"
          /\ \E c \in Calls : pc[c] = "bound"
          /\ LogAfter(<<Torn>>)
    /\ UNCHANGED <<sst, bad, docID, damaged>>

\* Bit rot while the process is down: the file no longer opens.
Damage(i) ==
    /\ status = "down" /\ damaged < MaxDamaged
    /\ i \in DOMAIN sst \ bad
    /\ bad' = bad \cup {i} /\ damaged' = damaged + 1
    /\ UNCHANGED <<wal, sst, memory, workers, pc, docID, restarts>>

-----------------------------------------------------------------------------
(* Engine.Write                                                            *)

Stalled == Cardinality(active) >= HardLimit /\ Len(frozen) >= MaxFrozen

WriteCall(c) ==
    /\ pc[c] = "idle" /\ status # "down"
    /\ Cardinality(InFlightCalls) < MaxInFlight
    /\ Goto(c, IF status # "running" \/ fatal THEN "err" ELSE "gate")
    /\ UNCHANGED <<disk, memory, workers, docID, bounds>>

\* waitForStallClear: the predicate is clear at once, or on a later look.
GatePass(c) ==
    /\ pc[c] \in {"gate", "stalled"} /\ ~Stalled
    /\ Goto(c, "gated")
    /\ UNCHANGED <<disk, memory, workers, docID, bounds>>

\* The call goes into the loop around the condition variable.
GateStall(c) ==
    /\ pc[c] = "gate" /\ Stalled
    /\ Goto(c, "stalled")
    /\ UNCHANGED <<disk, memory, workers, docID, bounds>>

\* ErrClosed or ErrEngineFatal: the loop tests both before it looks at the
\* predicate again.
GateRefuse(c) ==
    /\ pc[c] = "stalled" /\ (status # "running" \/ fatal)
    /\ Goto(c, "err")
    /\ UNCHANGED <<disk, memory, workers, docID, bounds>>

\* ErrBackpressure: the caller's context expired, which is tested first.
GateTimeout(c) ==
    /\ pc[c] = "stalled"
    /\ Goto(c, "err")
    /\ UNCHANGED <<disk, memory, workers, docID, bounds>>

\* alloc.Next(), before the read lock is taken
Allocate(c) ==
    /\ pc[c] = "gated"
    /\ alloc' = alloc + 1
    /\ docID' = [docID EXCEPT ![c] = alloc + 1]
    /\ Goto(c, "allocated")
    /\ UNCHANGED <<disk, status, fatal, active, seg, writer, frozen, tables,
                   nextSST, workers, bounds>>

\* Take the read lock and bind active and its segment writer.  A nil writer
\* (after a failed Seal, or after Close) is dereferenced under the lock: the
\* HTTP server recovers the panic, the lock stays taken.  Append tests the
\* context before that, so an expired one still gets an error; and Close
\* clears e.walMgr without the lock, so a racing call may still have the
\* writer that Close closed.
Bind(c) ==
    /\ pc[c] = "allocated"
    /\ Goto(c, "bound") \/ (writer = "nil" /\ Goto(c, "panic"))
    /\ UNCHANGED <<disk, memory, workers, docID, bounds>>

\* Mutation: Append on a closed writer reports success, as Sync does.
AppendRecordClosed(c) ==
    /\ pc[c] = "bound"
    /\ IF writer = "open" THEN LogAfter(<<c>>) ELSE UNCHANGED wal
    /\ Goto(c, "appended")
    /\ UNCHANGED <<sst, bad, memory, workers, docID, bounds>>

\* segmentWriter.Append writes the record and fsyncs it.
AppendRecord(c) ==
    /\ pc[c] = "bound" /\ writer = "open"
    /\ LogAfter(<<c>>)
    /\ Goto(c, "appended")
    /\ UNCHANGED <<sst, bad, memory, workers, docID, bounds>>

\* An expired context or a closed writer appends nothing; a failed write
\* leaves part of the record, a failed fsync all of it.  The error returns.
AppendFail(c) ==
    /\ pc[c] = "bound"
    /\ \/ UNCHANGED wal
       \/ /\ "append" \in Faults /\ writer = "open"
          /\ \E left \in {<<Torn>>, <<c>>} : LogAfter(left)
    /\ Goto(c, "err")
    /\ UNCHANGED <<sst, bad, memory, workers, docID, bounds>>

\* mt.Put, then the read lock is released
Put(c) ==
    /\ pc[c] = "appended"
    /\ active' = active \cup {c}
    /\ Goto(c, "put")
    /\ UNCHANGED <<disk, status, fatal, seg, writer, frozen, tables, alloc,
                   nextSST, workers, docID, bounds>>

\* maybeTriggerFreeze(mt) and return.  If mt has been rotated away since Put,
\* it had reached the limit.
WriteReturn(c) ==
    /\ pc[c] = "put"
    /\ freezeCh' = (freezeCh \/ c \notin active \/ Cardinality(active) >= SoftLimit)
    /\ Goto(c, "ok")
    /\ UNCHANGED <<disk, memory, fz, fl, flushCh, docID, bounds>>

WriteStep(c) ==
    \/ GatePass(c) \/ GateStall(c) \/ GateRefuse(c) \/ Allocate(c) \/ Bind(c)
    \/ AppendRecord(c) \/ AppendFail(c) \/ Put(c) \/ WriteReturn(c)

-----------------------------------------------------------------------------
(* freezeLoop and doFreeze                                                 *)

FreezeReceive ==
    /\ fz = "wait" /\ freezeCh
    /\ freezeCh' = FALSE /\ fz' = "locking"
    /\ UNCHANGED <<disk, memory, fl, flushCh, pc, docID, bounds>>

CannotRotate ==
    \/ fatal
    \/ Cardinality(active) < SoftLimit
    \/ Len(frozen) >= MaxFrozen

FreezeSkip ==
    /\ fz = "locking" /\ NoReader /\ CannotRotate
    /\ fz' = "wait"
    /\ UNCHANGED <<disk, memory, fl, freezeCh, flushCh, pc, docID, bounds>>

\* Mutation: the segment is not sealed, the next MemTable shares it.
FreezeRotateUnsealed ==
    /\ fz = "locking" /\ NoReader /\ ~CannotRotate
    /\ frozen' = Append(frozen, [mt |-> active, seg |-> seg])
    /\ active' = {}
    /\ fz' = "rotated"
    /\ UNCHANGED <<disk, status, fatal, seg, writer, tables, alloc, nextSST, fl,
                   freezeCh, flushCh, pc, docID, bounds>>

\* Freeze the MemTable, seal its segment, open the next one.
FreezeRotate ==
    /\ fz = "locking" /\ NoReader /\ ~CannotRotate
    /\ frozen' = Append(frozen, [mt |-> active, seg |-> seg])
    /\ active' = {}
    /\ seg' = seg + 1
    /\ wal' = With(wal, seg + 1, <<>>)
    /\ fz' = "rotated"
    /\ UNCHANGED <<files, status, fatal, writer, tables, alloc, fl, freezeCh,
                   flushCh, pc, docID, bounds>>

\* Manager.Seal cannot close the segment, or cannot open the next one.
SealFail ==
    /\ fz = "locking" /\ NoReader /\ ~CannotRotate /\ "seal" \in Faults
    /\ writer' \in {"closed", "nil"}
    /\ fz' = "failed"
    /\ UNCHANGED <<disk, status, fatal, active, seg, frozen, tables, alloc,
                   nextSST, fl, freezeCh, flushCh, pc, docID, bounds>>

\* onFatalError, after the lock is released
FreezeFatal ==
    /\ fz = "failed"
    /\ fatal' = TRUE /\ fz' = "wait"
    /\ UNCHANGED <<disk, status, active, seg, writer, frozen, tables, alloc,
                   nextSST, fl, freezeCh, flushCh, pc, docID, bounds>>

\* Mutation: the flush worker is not told.
FreezeSignalLost ==
    /\ fz = "rotated"
    /\ fz' = "wait"
    /\ UNCHANGED <<disk, memory, fl, freezeCh, flushCh, pc, docID, bounds>>

FreezeSignal ==
    /\ fz = "rotated"
    /\ flushCh' = TRUE /\ fz' = "wait"
    /\ UNCHANGED <<disk, memory, fl, freezeCh, pc, docID, bounds>>

FreezeExit ==
    /\ fz = "wait" /\ Shutdown
    /\ fz' = "exit"
    /\ UNCHANGED <<disk, memory, fl, freezeCh, flushCh, pc, docID, bounds>>

FreezeStep ==
    \/ FreezeReceive \/ FreezeSkip \/ FreezeRotate \/ SealFail
    \/ FreezeFatal \/ FreezeSignal \/ FreezeExit

-----------------------------------------------------------------------------
(* flushLoop and flushOneIfAny                                             *)

FlushReceive ==
    /\ fl.pc = "wait" /\ flushCh
    /\ flushCh' = FALSE /\ fl' = [fl EXCEPT !.pc = "try"]
    /\ UNCHANGED <<disk, memory, fz, freezeCh, pc, docID, bounds>>

FlushNothing ==
    /\ fl.pc = "try" /\ (fatal \/ frozen = <<>>)
    /\ fl' = IdleFlusher("wait")
    /\ UNCHANGED <<disk, memory, fz, freezeCh, flushCh, pc, docID, bounds>>

\* Phase 1: snapshot frozen[0] and frozenWALs[0].
FlushSnapshot ==
    /\ fl.pc = "try" /\ ~fatal /\ frozen # <<>>
    /\ fl' = [fl EXCEPT !.pc = "write", !.mt = Head(frozen).mt,
                        !.seg = Head(frozen).seg]
    /\ UNCHANGED <<disk, memory, fz, freezeCh, flushCh, pc, docID, bounds>>

\* Phases 2 and 3: the file appears at its final path by a rename and opens.
FlushWrite ==
    /\ fl.pc = "write"
    /\ nextSST' = nextSST + 1
    /\ sst' = With(sst, nextSST + 1, fl.mt)
    /\ fl' = [fl EXCEPT !.pc = "swap", !.id = nextSST + 1]
    /\ UNCHANGED <<wal, bad, status, fatal, active, seg, writer, frozen, tables,
                   alloc, fz, freezeCh, flushCh, pc, docID, bounds>>

\* Mutation: the error of the SSTable writer is ignored.
FlushFailIgnored ==
    /\ fl.pc = "write" /\ "flush" \in Faults
    /\ nextSST' = nextSST + 1
    /\ fl' = [fl EXCEPT !.pc = "swap", !.id = nextSST + 1]
    /\ UNCHANGED <<disk, status, fatal, active, seg, writer, frozen, tables,
                   alloc, fz, freezeCh, flushCh, pc, docID, bounds>>

\* Phase 2 or 3 fails: nothing usable is left, or (the directory sync or
\* Open failed after the rename) a complete orphan file.
FlushFail ==
    /\ fl.pc = "write" /\ "flush" \in Faults
    /\ nextSST' = nextSST + 1
    /\ sst' \in {sst, With(sst, nextSST + 1, fl.mt)}
    /\ fl' = [fl EXCEPT !.fails = @ + 1,
                 !.pc = IF fl.fails + 1 >= MaxFlushRetries THEN "fatal" ELSE "backoff"]
    /\ UNCHANGED <<wal, bad, status, fatal, active, seg, writer, frozen, tables,
                   alloc, fz, freezeCh, flushCh, pc, docID, bounds>>

FlushRetry ==
    /\ fl.pc = "backoff"
    /\ fl' = [fl EXCEPT !.pc = "try"]
    /\ UNCHANGED <<disk, memory, fz, freezeCh, flushCh, pc, docID, bounds>>

\* Mutation: the new reader replaces the list instead of joining it.
FlushSwapReplaces ==
    /\ fl.pc = "swap" /\ NoReader
    /\ frozen' = Tail(frozen)
    /\ tables' = {fl.id}
    /\ fl' = [fl EXCEPT !.pc = "delete"]
    /\ UNCHANGED <<disk, status, fatal, active, seg, writer, alloc, nextSST,
                   fz, freezeCh, flushCh, pc, docID, bounds>>

\* Phase 4: under the write lock, the new reader replaces frozen[0].
FlushSwap ==
    /\ fl.pc = "swap" /\ NoReader
    /\ frozen' = Tail(frozen)
    /\ tables' = tables \cup {fl.id}
    /\ fl' = [fl EXCEPT !.pc = "delete"]
    /\ UNCHANGED <<disk, status, fatal, active, seg, writer, alloc, nextSST,
                   fz, freezeCh, flushCh, pc, docID, bounds>>

\* Mutation: every segment older than the active one is deleted.
FlushDeleteSealed ==
    /\ fl.pc = "delete"
    /\ wal' = Without(wal, {s \in DOMAIN wal : s < seg})
    /\ fl' = [fl EXCEPT !.pc = "signal"]
    /\ UNCHANGED <<sst, bad, memory, fz, freezeCh, flushCh, pc, docID, bounds>>

\* Phase 5: best effort.
FlushDelete ==
    /\ fl.pc = "delete"
    /\ wal' \in {wal, Without(wal, {fl.seg})}
    /\ fl' = [fl EXCEPT !.pc = "signal"]
    /\ UNCHANGED <<sst, bad, memory, fz, freezeCh, flushCh, pc, docID, bounds>>

\* Mutation: the freeze coordinator is not signalled again.
FlushSignalLost ==
    /\ fl.pc = "signal"
    /\ fl' = IdleFlusher("try")
    /\ UNCHANGED <<disk, memory, fz, freezeCh, flushCh, pc, docID, bounds>>

\* Phase 6, and the loop drains on.
FlushSignal ==
    /\ fl.pc = "signal"
    /\ freezeCh' = TRUE
    /\ fl' = IdleFlusher("try")
    /\ UNCHANGED <<disk, memory, fz, flushCh, pc, docID, bounds>>

FlushFatal ==
    /\ fl.pc = "fatal"
    /\ fatal' = TRUE /\ fl' = IdleFlusher("exit")
    /\ UNCHANGED <<disk, status, active, seg, writer, frozen, tables, alloc,
                   nextSST, fz, freezeCh, flushCh, pc, docID, bounds>>

\* Mutation: the worker listens for the shutdown only between retries.
FlushExitInBackoff ==
    /\ fl.pc = "backoff" /\ Shutdown
    /\ fl' = IdleFlusher("exit")
    /\ UNCHANGED <<disk, memory, fz, freezeCh, flushCh, pc, docID, bounds>>

FlushExit ==
    /\ fl.pc \in {"wait", "backoff"} /\ Shutdown
    /\ fl' = IdleFlusher("exit")
    /\ UNCHANGED <<disk, memory, fz, freezeCh, flushCh, pc, docID, bounds>>

FlushStep ==
    \/ FlushReceive \/ FlushNothing \/ FlushSnapshot \/ FlushWrite \/ FlushFail
    \/ FlushRetry \/ FlushSwap \/ FlushDelete \/ FlushSignal \/ FlushFatal
    \/ FlushExit

-----------------------------------------------------------------------------
(* Engine.Close: set closed and signal shutdown, wait for the workers, then *)
(* release the WAL manager and the SSTable readers.                         *)

CloseBegin ==
    /\ status = "running"
    /\ status' = "closing"
    /\ UNCHANGED <<disk, fatal, active, seg, writer, frozen, tables, alloc,
                   nextSST, workers, pc, docID, bounds>>

CloseFinish ==
    /\ status = "closing" /\ fz = "exit" /\ fl.pc = "exit"
    /\ status' = "closed" /\ writer' = "nil" /\ tables' = {}
    /\ UNCHANGED <<disk, fatal, active, seg, frozen, alloc, nextSST, workers,
                   pc, docID, bounds>>

-----------------------------------------------------------------------------
Next ==
    \/ Open \/ Stop \/ CloseBegin \/ CloseFinish
    \/ \E i \in DOMAIN sst : Damage(i)
    \/ \E c \in Calls : WriteCall(c) \/ GateTimeout(c) \/ WriteStep(c)
    \/ FreezeStep
    \/ FlushStep

Spec == Init /\ [][Next]_vars

\* Goroutines that can run do run; nobody has to start a call, close the
\* engine, restart the process or let a context expire.  Calls are finitely
\* many with finitely many steps, so fairness for one of them at a time is
\* enough.
Fairness ==
    /\ WF_vars(FreezeStep)
    /\ WF_vars(FlushStep)
    /\ WF_vars(CloseFinish)
    /\ WF_vars(\E c \in Calls : WriteStep(c))

FairSpec == Spec /\ Fairness
=============================================================================
