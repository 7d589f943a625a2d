---------------------------- MODULE EngineProps -----------------------------
(***************************************************************************)
(* The correctness properties of module Engine.                            *)
(***************************************************************************)
EXTENDS Engine

DiskTypeOK ==
    /\ DOMAIN wal \subseteq Nat
    /\ \A s \in DOMAIN wal : wal[s] \in Seq(Calls \cup {Torn})
    /\ DOMAIN sst \subseteq Nat
    /\ \A i \in DOMAIN sst : sst[i] \subseteq Calls
    /\ bad \subseteq DOMAIN sst /\ tables \subseteq DOMAIN sst

MemoryTypeOK ==
    /\ status \in {"down", "running", "closing", "closed"} /\ fatal \in BOOLEAN
    /\ active \subseteq Calls /\ seg \in Nat
    /\ writer \in {"open", "closed", "nil"}
    /\ frozen \in Seq([mt : SUBSET Calls, seg : Nat])
    /\ alloc \in Nat /\ nextSST \in Nat

FlusherLabels ==
    {"wait", "try", "write", "swap", "delete", "signal", "backoff", "fatal",
     "exit"}

WorkerTypeOK ==
    /\ freezeCh \in BOOLEAN /\ flushCh \in BOOLEAN
    /\ fz \in {"wait", "locking", "rotated", "failed", "exit"}
    /\ fl \in [pc : FlusherLabels, mt : SUBSET Calls, seg : Nat, id : Nat,
               fails : Nat]

CallTypeOK ==
    /\ pc \in [Calls -> InFlight \cup Returned \cup {"idle", "ok", "panic"}]
    /\ docID \in [Calls -> Nat]
    /\ restarts \in Nat /\ damaged \in Nat

\* Every variable stays in the set of values the code can give it; the open
\* SSTable readers have their files on disk.
TypeOK == DiskTypeOK /\ MemoryTypeOK /\ WorkerTypeOK /\ CallTypeOK

-----------------------------------------------------------------------------
Acked == {c \in Calls : pc[c] \in {"ok", "past"}}
Serving == status \in {"running", "closing"}
FrozenRecords == UNION {frozen[i].mt : i \in DOMAIN frozen}

\* What Get and Scan search, in the snapshot they take under the read lock.
Visible == active \cup FrozenRecords \cup UNION {sst[i] : i \in tables}

\* Concurrency invariant 1 of the package comment: "MemTable contents are
\* always a subset of WAL contents", whatever fails and however many
\* segments the recovered MemTable came from.
MemTableSubsetOfWAL ==
    \A c \in active \cup FrozenRecords :
        \E s \in DOMAIN wal : c \in Range(wal[s])

\* A record whose Write returned success would be served after a crash now:
\* no flush, segment deletion, orphan file or docID skip loses it.
AckedRecoverable == Acked \subseteq Recoverable

\* While the process serves, every acknowledged record is found, also those
\* of earlier runs.
AckedReadable == Serving => Acked \subseteq Visible

\* The same for the records of this run alone.
RunReadable == Serving => \A c \in Calls : pc[c] = "ok" => c \in Visible

\* Two acknowledged records never share a DocID, across restarts too.
AckedIdsUnique ==
    \A c, d \in Acked : c # d => docID[c] # docID[d]

\* Flushing is in order: frozen MemTables belong to ever younger segments,
\* all older than the active one, and a flush in progress works on the
\* oldest (phase 4's "frozen list mutated during flush" cannot happen).
FlushOrder ==
    /\ \A i, j \in DOMAIN frozen : i < j => frozen[i].seg < frozen[j].seg
    /\ \A i \in DOMAIN frozen : frozen[i].seg < seg
    /\ fl.pc \in {"write", "swap"} =>
         frozen # <<>> /\ Head(frozen) = [mt |-> fl.mt, seg |-> fl.seg]
    /\ fl.pc = "delete" => \A i \in DOMAIN frozen : fl.seg < frozen[i].seg

\* A record of this run sitting in a MemTable over the limit, with room in
\* the frozen queue, is not forgotten: a signal is buffered, or somebody is
\* about to send or handle one.
NoLostFreeze ==
    (status = "running" /\ ~fatal /\ Len(frozen) < MaxFrozen
       /\ Cardinality(active) >= SoftLimit
       /\ \E c \in active : pc[c] = "ok")
    => \/ freezeCh
       \/ fz \in {"locking", "failed"}
       \/ fl.pc \in {"delete", "signal"}
       \/ \E c \in Calls : pc[c] = "put"

\* A frozen MemTable waiting for its flush is not forgotten either.
NoLostFlush ==
    (status = "running" /\ ~fatal /\ frozen # <<>>)
    => flushCh \/ fz = "rotated" \/ fl.pc \notin {"wait", "exit"}

-----------------------------------------------------------------------------
\* No step of a serving engine hides a record a read could return: rotation
\* and the metadata swap of a flush are invisible to reads.
VisibleStays ==
    [][Serving /\ Serving' => Visible \subseteq Visible']_vars

\* Frozen MemTables reach the disk, or the engine goes fatal or shuts down.
FrozenDrains ==
    (frozen # <<>>) ~> (frozen = <<>> \/ fatal \/ status # "running")

\* Close returns: fatal state "does not preclude clean shutdown".
CloseReturns == (status = "closing") ~> (status # "closing")

-----------------------------------------------------------------------------
\* ADR-007: "If the WAL covering those docIDs has not been deleted yet,
\* replay will recover them": an acknowledged record that is in a surviving
\* segment when Open runs is served afterwards.
SurvivingLogReplayed ==
    [][status = "down" /\ status' = "running" =>
         Acked \cap Logged \subseteq Visible']_vars

-----------------------------------------------------------------------------
(* The strengthening that makes FlushOrder, RunReadable and                *)
(* MemTableSubsetOfWAL inductive.                                          *)

\* A process that is down holds no MemTable and runs no call.
QuietWhenDown ==
    status = "down" =>
        /\ active = {} /\ frozen = <<>> /\ tables = {}
        /\ fz = "exit" /\ fl.pc = "exit"
        /\ \A c \in Calls : pc[c] \notin InFlight \cup {"ok", "panic"}

\* The active segment exists and is the newest.
ActiveIsNewest ==
    status # "down" => seg \in DOMAIN wal /\ \A s \in DOMAIN wal : s <= seg

\* A flush in progress: what it wrote is what it is about to swap in, under
\* an id no later file takes, and what it deletes is behind every MemTable.
FlushInProgress ==
    /\ fl.pc = "swap" => fl.id \in DOMAIN sst /\ sst[fl.id] = fl.mt
    /\ fl.pc = "delete" => fl.seg < seg
    /\ status # "down" => \A i \in DOMAIN sst : i <= nextSST

\* Between Put and the acknowledgement a record is readable already.
PutReadable ==
    Serving => \A c \in Calls : pc[c] \in {"put", "ok"} => c \in Visible

\* The segments that belong to a MemTable or are about to be deleted.
Reserved ==
    {seg} \cup {frozen[i].seg : i \in DOMAIN frozen}
          \cup (IF fl.pc = "delete" THEN {fl.seg} ELSE {})

\* c is logged in a segment nobody deletes before the MemTable of segment
\* own is flushed.
LoggedFor(c, own) ==
    \E s \in DOMAIN wal : c \in Range(wal[s]) /\ (s \in Reserved => s = own)

LogCovers ==
    /\ \A c \in active : LoggedFor(c, seg)
    /\ \A i \in DOMAIN frozen : \A c \in frozen[i].mt : LoggedFor(c, frozen[i].seg)
    /\ \A c \in Calls : pc[c] = "appended" => c \in Range(wal[seg])

\* The inductive invariant: every record a reader may ask for, or a crash
\* would have to replay, is where the code will look for it.
OrderInv == FlushOrder /\ QuietWhenDown /\ ActiveIsNewest /\ FlushInProgress
SafetyInv == TypeOK /\ OrderInv /\ PutReadable /\ LogCovers

-----------------------------------------------------------------------------
\* The engine implements DurableStore: contents is what a crash would leave.
Store == INSTANCE DurableStore WITH
    contents <- Recoverable,
    view     <- IF Serving THEN Visible ELSE {},
    acked    <- Acked
StoreSpec == Store!Spec
=============================================================================
