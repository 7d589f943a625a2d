# A TLA+ specification of DistLog

DistLog is a single-process log store: clients ingest records over HTTP, the
engine writes each to a write-ahead log (WAL) and a MemTable, background
workers turn full MemTables into SSTables, and queries scan and filter what is
stored. This directory holds TLA+ models of the engine, its locks, its
backpressure, its files, its reads, the query layer and the server around them,
the TLC configurations that check them, and TLAPS proofs.

## The system

Paths are relative to `src/`. "Hard" names what makes the part difficult, the
last column what makes it correct.

| Part | State | Operations | Hard | Correct means |
|---|---|---|---|---|
| Engine, `internal/engine/engine.go` | active and frozen MemTables with their segments, SSTable readers, DocID allocator, `closed` and `fatal`, two capacity-1 channels | `Open`, `Write`, `Get`, `Scan`, freeze loop, flush loop, `Close`, fatal state | interleaved writers and workers, a crash anywhere, failed flushes | acknowledged records survive and stay readable, flushing is in order and does not stop |
| Write stall, same file, ADR-009 | condition variable, watchdog per call | `waitForStallClear`, `notifyStallCleared`, `signalShutdown` | lost wakeups, expiry racing drain and shutdown | a call ends when its context does or a slot drains |
| WAL, `internal/wal` | segment files, active writer, next id | append, seal, delete, replay | torn appends, failure half-way through a seal, directory entries that are not synced | replay returns every acknowledged record |
| MemTable, `internal/memtable` | skip list, its own RWMutex, frozen flag | put, get, freeze, iterate | an iterator holds the lock for a whole scan | contents are what was put, and stand still under an iterator |
| SSTable, `internal/sstable` | immutable file, reader | build and rename, open, get, iterate | orphans, damaged blocks, stops between two system calls | complete at its final path or nowhere; a record is found, or an error reported |
| Allocator, `internal/types/allocator.go` | last id | `Next`, `Observe` | restart value | ids are never used twice |
| Query, `internal/query` | none between calls | parse, plan, evaluate, execute, tenant rewrite | pruning from derived bounds, precedence of the tenant's term | rows are exactly what the clause asks for, of one's own tenant |
| Server and process, `internal/server`, `cmd/distlog` | requests in flight, listener | ingest, get, query, shutdown | shutdown with requests in flight, reads racing flush and `Close` | reads miss nothing this run acknowledged or recovered, tenants are isolated, shutdown is orderly |
| Configuration, codecs, web console, Python client | none that matters here | | | |

**How they interact.** A `Write` takes the engine's read lock, appends to the
active segment, puts into the active MemTable, and signals the freeze loop over
a channel. The freeze loop takes the write lock, seals the segment, queues the
MemTable, and signals the flush loop. The flush loop writes an SSTable without
the lock, swaps it in under the write lock, deletes the segment, signals the
freeze loop back and broadcasts to stalled writers. `Open` rebuilds memory from
SSTables and segments. The server calls `Write`, `Get`, and, with the statement
rewritten for its tenant, `query.Execute`, which calls `ScanWithOptions` with
bounds the planner derived. A read copies references under the read lock and
works on them without it.

## The modules

| Module | What it is |
|---|---|
| `Engine` | the store with concurrent calls, workers, faults, restart |
| `EngineProps` | its properties, the inductive invariant, the refinement |
| `DurableStore` | the abstract store the engine implements |
| `Server` | extends `Engine` with requests in flight, shutdown and exit |
| `Locks` | `e.mu` and the MemTables' RWMutexes, lock operation by lock operation |
| `Files` | the data directory, system call by system call |
| `Backpressure` | the write stall, step by step |
| `Scan` | the merge of a scan, pruning, and the point read over one snapshot |
| `Query` | one query: tenant rewrite, planning, scan, evaluation, LIMIT |
| `MC...` | instances for TLC |
| `EngineProofs`, `DurabilityProofs`, `ServerProofs`, `LocksProofs`, `FilesProofs`, `BackpressureProofs`, `ScanProofs`, `QueryProofs` | the theorems |

`Server` composes by extension: each of its steps is an `Engine` step with what
the server adds, or leaves the engine alone (`ServerRunsEngine` proves it).
`Engine` implements `DurableStore`. `Locks`, `Files`, `Backpressure` and `Scan`
look closer at what `Engine` and `Server` take as one step: `Locks` shows that
the sections are as atomic as they are taken to be, `Files` cuts `Open` and
a flush into system calls, `Backpressure` has the waiting behind the stall gate,
`Scan` the merge behind `AnswerQuery`.

Each definition's source lines are in `PROJECT.json`. Definitions under a comment
"Mutation:" are plausible bugs of the definition that follows them; no action
uses them. `PROJECT.json` pairs each with the property it must violate, as
evidence that the property depends on that line of code.

### Engine

A call of `Write` is a constant (`Calls`); it also names the record it carries,
because each call happens once. MemTables and SSTables are sets of calls, a
segment is a sequence of calls and `Torn` marks, and `docID` maps a call to the
id it drew. `SizeBytes` is the number of records.

- *Locks.* A section under the write lock of `e.mu` is one action guarded by
  `NoReader`. `Write` holds the read lock over several steps (`Bind`,
  `AppendRecord`, `Put`), so those calls are in a `ReadLocked` state. `docID` is
  drawn before the lock (`Allocate`), as in the code.
- *Workers.* `fz` and `fl` are where the two loops stand: between the phases of
  `doFreeze` and `flushOneIfAny` anything may happen. `freezeCh` and `flushCh`
  are the one-slot channels.
- *Faults.* `Faults` says what the disk does: `append` (an append fails and
  leaves nothing, a torn record, or, when the fsync fails, the whole record),
  `crash` (the process stops in the middle of an append), `seal` (the segment
  cannot be closed, or the next one not opened), `flush` (no SSTable, or a
  complete orphan). `Damage` destroys an SSTable file while the process is down.
- *Stop and Open.* `Stop` may happen at any point and keeps only the disk.
  `Open` is one action: nothing else runs before it returns, and an `Open` that
  returns an error has only left the directory as an interrupted one does, which
  is for `Files`, where it is stopped at each of its steps.
- *The gate.* A call that finds the predicate true is `"stalled"`: from then on it
  may time out, be refused once the engine is closed or fatal, or find the
  predicate false and pass, in any order, as the loop tests all three. The waiting
  between two looks is abstracted away; `Backpressure` has it.

### DurableStore

What a client may rely on: a record becomes durable, then visible, and is
acknowledged once durable; nothing durable is lost; a stop hides the store and
recovery shows exactly what is durable. Under the mapping `contents` is what a
crash now would leave (`Recoverable`), `view` what reads search (`Visible`),
`acked` the calls that returned success.

### Server

`http` follows `Serve` and `run`: serving, draining (the listener is closed,
`Shutdown` waits), returned. `reply` holds the ingest requests with their
status, `rd` the reads with what they copied, still refer to and have found.

- *Ingest.* `Ingest(c)` is the engine's step for the call, with the answer that
  `writeEngineError` gives its error; the expiry of its context is a step apart
  (`IngestTimeout`), as no schedule owes it. A panic under the handler drops the
  connection.
- *What a read may not miss* (`Expected`) is what this run of the process had
  recovered, acknowledged or returned when the request began: `Start` puts what
  `Open` recovered into `seen`. What an earlier run acknowledged and recovery then
  lost is not held against the reads; `LateWriter` and `TornCrash` show that this
  happens, and `EveryAckIsExpected` that with one write at a time and clean appends
  it does not.
- *Reads.* A point read copies references and looks in memory, then in files,
  with no check of `closed`; a scan checks it once, at the start. The frozen
  MemTables and SSTables of a copy never change, so the copy stands for their
  records; the active MemTable changes until the read looks, so a read keeps its
  identity (`own`) and `rotated` keeps what it holds after a rotation, as Go
  keeps an object that is referred to. After `Close` has released the readers a
  point read fails with 500; a scan drops the tables that fail on their first
  block and reports those that fail later.
- *Shutdown.* `Drained` waits for every request. With `"timeout"` or `"error"` in
  `Endings`, `Serve` returns with requests in flight and `run` closes the engine
  under them, as `main.go:68-75` does. `Exit` is a kill or the end of `run`.
- *Tenants.* Tokens are resolved to tenants before the model begins; records
  carry the tenant of their ingest.

### Locks

A goroutine asks for a lock in one step and goes on in a later one. `RLock`,
`Announce` and `Unlock` are Go's admission order: an announced writer stops new
readers, which queue and are admitted together by its `Unlock`. `Write` holds
`e.mu` for reading while it waits for the MemTable's lock; `doFreeze` holds
`e.mu` alone while it waits for it; an iterator holds the MemTable's lock until
the scan has used it up. `order`, `from` and `want` are history, for
`ReadsConsistent`. Contexts are left out: a `Write` that waits for a MemTable's
lock does not observe one, so a slow visitor delays writes past their deadline,
but not for ever (`AllReturn`).

### Files

`dirs` is the list of directories a power failure may leave, oldest first: every
directory operation appends one, a directory sync keeps the last. `nodes` are
the contents of files, apart from their names. A kill leaves the directory as
the process saw it; a power failure picks one from the list. `Open` is a step
per phase, so it is itself interrupted. One client writes; concurrency is
`Engine`'s. Bit rot turns an SSTable unreadable while the process is down. The
head of the frozen queue stays in `frozen` until its segment is deleted, for the
segment's sake; the limit of the queue counts it only until the swap (`QueueLen`).
`Write` appends and acknowledges in one step: the kill between the two is in
`Engine`, where the record may be found by recovery though nobody was told.

*The file system assumed* is a journaling one: directory operations reach the
disk in their order. Without it, a kill between the rename of an SSTable and the
directory sync, a recovery that deletes the segment the SSTable covers, and a
power failure that keeps the deletion but not the rename would lose records,
since `Open` does not sync the directory before it deletes.

### Backpressure

One action per section under `stallMu` or `e.mu`. `stallMu` is never held across
another blocking call and the flags read under it are never cleared, so a
section is atomic and needs no mutex variable. The predicate is read with
`stallMu` released (`ReadPredicate`), which is where the hazards are. Each
stalled call has its watchdog, with its one `select` and one broadcast.

### Scan

The input (sources in order of precedence, blocks, bad blocks, timestamps,
window) is any the writer can produce. The state is the heap of cursors. `Get`
is an operator over the same snapshot.

### Query

A clause is an OR of AND chains; a parenthesized term is its verdict on each
record, since no code but the evaluator looks inside. Evaluation has three
outcomes, because a comparison can fail at run time (`source < 'x'`), and the
short-circuit order of AND and OR decides whether it does. `Scope` is the
rewrite in `handleQuery`; a direct caller of `Execute` (as in the tests) skips
it. `PlanTerm` folds the chain into bounds, 0 meaning unset. `Pruned` is what the
engine may skip, `Visit` the executor's callback.

## The runs

| Run | Shows | Bounds |
|---|---|---|
| `EngineStore` | acknowledged records are recoverable and have unique ids; the engine implements `DurableStore` | 3 calls one at a time, 2 restarts, 2 attempts per flush, queue of 2 |
| `EngineConcurrent` | types; the log covers the MemTables, records of this run stay readable, no step hides one, flushing is in order, no signal is lost | 3 calls, 2 in flight, all faults, 1 restart, 1 damaged file |
| `ServerReads` | reads miss nothing this run of the process had recovered, acknowledged or returned, no tenant sees another's record, a record answered with 200 is on disk | 2 ingests, 1 read of either kind, 2 tenants, 1 restart, failing appends, seals and flushes, shutdowns that time out, a failing listener |
| `ServerLive` | a record refused with 429 or 503 is stored nowhere, a shutdown ends although a write is stalled, the frozen queue drains | 3 ingests, 2 of them in `Write` at a time, failing appends, 2 attempts per flush, shutdowns that time out over a stalled write |
| `Locks` | no `Put` meets a frozen MemTable, scans are cuts of the store, skip lists stand still under iterators, no deadlock, every call returns | 2 writers, 1 point read, 1 scan, both workers, 3 MemTables, queue of 1 |
| `Files` | tables are complete or absent and not replaced, kills lose nothing, what was durable stays so, survivors have unique ids | 3 records, 2 SSTable ids, queue of 1, 2 stops, 1 rotted file |
| `StallWait` | no lost wakeup of an expired call, no leaked watchdog, bounded overshoot, drains wake sleepers, expiry ends the call | 2 writers, fatal state at any point |
| `ScanMerge` | order, completeness, agreement with `Get`, iterators released | 3 DocIDs, 1 MemTable, 2 SSTables, 5 windows |
| `QueryAnswer` | sound pushdown, isolation of tenants, the exact answer | 2 or 3 records, over a thousand clauses, LIMIT 1, 2 or none |
| `LateWriter` | violated: see findings | 2 calls |
| `TornCrash` | violated | 2 calls, 1 restart |
| `StallCtxAfterFatal` | violated | 1 writer |

Further configurations, to be run by hand: `EngineLive` (liveness of the engine
without the server; `CloseReturns`), `LocksInv` and `FilesInv` (the invariants the
proofs rest on) pass. `Quarantine`, `StallDrain`, `ScanCorrupt`, `HalfClosed` and
`PowerLoss` are violated, see below.

    tlc -workers 2 -config EngineLive.cfg MCEngine
    tlc -workers 2 -config PowerLoss.cfg MCFiles

**Why these bounds are enough.** Sizes 1 make every MemTable with a record
eligible for freezing, so three calls put records into the active MemTable, the
queue and SSTables at once, with every interleaving of two writers. Two restarts
are needed for recovery from what a recovery left (orphans, kept segments). In
`ServerReads` two records are one that a read may not miss and one that moves
the MemTable it is in; one read suffices because reads do not change what other
reads see, except through `seen`, which a read leaves to a later one as
acknowledged records do. `ServerLive` needs three ingests: one fills the queue,
one the active MemTable, and the third is stalled at the gate, where it is let
through, times out (429) or is refused by a closed (503) or a fatal engine (500);
two attempts per flush are the fewest with a backoff. In `Locks` two writers, two kinds of readers and both
workers make every pair of lock holders and waiters there is, and three MemTables
are one flushed, one queued and one active. In `Files` two ids are an orphan and
its successor, and the second stop hits the recovery from the first. In
`ScanMerge` three sources over three DocIDs include every pattern of duplicates.
In `QueryAnswer` times -1, 0 and 1 lie on both sides of "unset", and two bounds
cover agreeing, contradictory and repeated ones; the two records lie in one
table, in two, or partly in the MemTable. A direct caller asks the timestamp
clauses and a tenant the others (`MCInit`). Calls are interchangeable
(`CallSymmetry`) where a run has no liveness property; the refinement of
`EngineStore` is a safety property.

**Why `EngineStore` has one client and no torn append or damage.** With more,
its properties are false of the code: that is what `LateWriter`, `TornCrash` and
`Quarantine` show. The properties of `EngineConcurrent` hold with all of it.

`ServerLive` explores, of behaviours that differ in nothing the process looks at,
one (`LiveConstraint` in `MCServer`): requests are accepted and call `Write` in the
order of a list, since they are interchangeable until then; a failed append leaves
nothing or the whole record, a failed flush leaves no orphan and a covered segment
is deleted, since only a restart, of which this run has none, would see the
difference. One part of it is a bound: shutdown times out only while a write is
stalled (`TimeoutWhenStalled`); `ServerReads` has every other timeout. No action
that is assumed fair is disabled for good by it, so fairness means what it says.

**What the runs leave out.** `ServerLive` has no reads: in `Server` they wait for
nothing, and that they end under the locks is `AllReturn` in `Locks`. The stall in
it is its predicate, so the broadcasts that a sleeper may miss (`StallDrain`,
`StallCtxAfterFatal`) are not in `ShutdownEnds`: it says that room is made, or the
engine gives up, for whoever looks. It has no `seal` fault: a writer that
dereferences the nil segment writer panics under the read lock of `e.mu`, which
stays taken, and `Close` then waits for the flush worker for ever. `ServerReads`
has no bit rot; a quarantined table's records are missing from reads, which
`Open` logs.

**Deadlock** in TLC's sense is not checked: calls are finitely many, and a store
without traffic, a closed engine or a finished scan stops. What must not stop is
stated as liveness (`ShutdownEnds`, `FrozenDrains`, `AllReturn`,
`TimeoutEndsCall`) and, for the locks, as the invariant `NoDeadlock`: while a call
or a worker's turn is unfinished, some goroutine's next step has its guard.
`LocksInv` also checks that these guards are exactly the steps that are enabled
(`GuardsExact`).

**Fairness.** Goroutines that can run are scheduled; nobody has to start a call,
let a context expire, send a signal or restart the process. In `Server` this is
weak fairness of `Progress`: some handler, worker, the drained `Shutdown` or
`Close` moves. In `Locks` it is weak fairness of `Step`. In both, requests are
finitely many with finitely many steps and the workers run out of work, so
fairness for one step at a time suffices: a behaviour that starves one
goroutine for ever would need infinitely many steps of the others. `Engine`
states it per worker. In `Backpressure` writers, watchdogs, freezer and halter
are fair; the flusher is not, as a disk may stall for ever. `SleeperWoken`
assumes a fair flusher as its premise, and `StallDrain` in its specification
(`DrainingSpec`). Runs with a liveness property use no symmetry.

## What is proved

TLAPS checks these for every finite number of calls, every limit, any number of
restarts and, where nothing else is said, all faults, from the named assumptions
on constants in the modules.

**Order and types** (`EngineProofs`: `TypeCorrect`, `FlushInOrder`). `OrderInv` is
inductive: segments of queued MemTables increase and lie below the active one,
the active segment is the newest, a flush in progress works on the head of the
queue and its file is the one it wrote, and a process that is down holds nothing.
Without the last two parts a flush could be believed to swap in a file written
for another MemTable, or a restart to resume one.

**Signals** (`FreezeSignalsArrive`, `FlushSignalsArrive`). `NoLostFreeze` and
`NoLostFlush` are inductive together with the fact that a rotation which has not
signalled yet is one the flush worker will hear of. The step that could lose a
freeze signal is the one that fills the MemTable, `Put`, and there `WriteReturn`
is still to come; finiteness of `Calls` is needed to compare sizes.

**Coverage** (also `EngineProofs`: `LogCoverage`, `MemTablesAreLogged`, `Safety`,
`AckedAreReadable`, `NothingHidden`). `LogCovers` says that each record of a
MemTable is in a segment which, if a MemTable owns it or it is about to be
deleted, is that MemTable's own. `MemTableSubsetOfWAL` alone is not inductive: it
does not say that the segment deleted after a flush holds no record of a MemTable
still queued. `PutReadable` extends readability back to `Put`. The last section
follows where a record may be at all: a call leaves no trace before its append.

**Durability and refinement** (`DurabilityProofs`: `AckedSurvive`,
`AckedIdsDiffer`, `EngineIsDurableStore`), under `OneClient`: one write in flight,
appends that fail leave nothing, no damaged file; flush and seal failures,
orphans, kept segments, crashes and restarts are all allowed. The invariant says
three things that recovery depends on. `FilesFirst`: every logged record that is
not younger than some record of a file is itself in a file, so what replay skips
as covered, and what `Open` deletes, is never the only copy. `LogSplit`: a
segment's records are in a file or in the MemTable the segment belongs to, so
deleting it after the swap loses nothing, and a flush has something to be
compared with. `Ages`: DocIDs increase along files, queue, active MemTable and
the call in progress, which makes the head of the queue the oldest records and
`FilesFirst` inductive. `Ages` is what fails with two writers (`LateWriter`),
`Untorn` what fails with torn appends (`TornCrash`). The refinement then maps the
append to `Persist`, `Put` to `Expose`, the return to `Acknowledge`, `Stop` and
the end of `Close` to `Hide`, `Open` to `Recover` and all else to a stutter.

**Requests** (`ServerProofs`). `ServerRunsEngine`: each server step is an engine
step or a stutter, so everything above holds under requests. `GetMissesNothing`
and `QueryMissesNothing`: what a read has found together with what it still
refers to contains what it may not miss, from the copy under the lock until its
answer, because the copied MemTable keeps its identity through rotation and
SSTables keep their records. `RefusalLeavesNoTrace`: the answers 429 and 503 are
given only by steps before the append, after which an error is final.
`AnswersAreOnDisk`: from its `Put` on a record is in a MemTable or a file
(`PutPlaced`), through rotation and swap and while `Close` runs under the request,
and what a MemTable holds is in a segment (`MemTablesAreLogged`); neither half
would do alone, as the segment is deleted once the file is there and `Close`
releases the readers. `EveryAckIsExpected` (under `OneClient`, above) joins reads to
durability: `Open` serves all that is recoverable, and that includes every record
ever acknowledged. `ServerTypeCorrect`: the types of requests, and that the MemTables and
SSTables a read refers to exist as long as the read does; no run repeats it.

**Locks** (`LocksProofs`). `PutIsNeverFrozen`: a writer that has bound the active
MemTable shares `e.mu`, and rotation needs it alone. `ReadsAreConsistent`: the
sources a snapshot copies hold exactly the records put so far, and a reader's
cover (found, or in a MemTable still to be read) grows only while the active
MemTable of its snapshot is still active and unread, so it is always a cut of the
store. `IteratedIsUnchanged`: a `Put` owns the MemTable's lock alone, an iterator
shares it.

`LocksAreDeadlockFree` needs to know who keeps whom waiting. `Accounts` says it of
every lock: those that share or queue for it, and the one that owns it or has
announced itself, are exactly the goroutines whose place in their call says so
(`LocksAreAccounted`). Suppose all unfinished calls and workers wait. If some
MemTable's lock has an owner, take the oldest such MemTable: its owner waits for a
reader, and a reader that holds a lock and cannot go on waits for an older
MemTable (`Walking`), whose lock then has an owner too. So no MemTable's lock has
one, nobody waits at a MemTable, and then nobody that shares `e.mu` waits, so
neither does its owner, nor anybody else. The newest-first order of a snapshot,
iterators closed on every path, and workers that hold one lock at a time except
in `doFreeze` are what the argument uses of the code.

**Files** (`FilesProofs`). `SSTablesAreComplete` is about every directory in
`dirs`, that is, every one a power failure may leave; it needs that the `.tmp` file is
complete once synced. `SSTablesAreNotReplaced` needs that ids stay ahead: once
`Open` has read them no SSTable, finished or not, has a larger id than the
counter, and a flush's final path is free. The property is about a living
process; a power failure may take a rename back.

`AckedStayOnDisk`, `AckedAreServed`, `SurvivorsAreUnique`, `FlushIsDurable` and
`DurableStays` need a second invariant, `KeptInv`, which holds until a file rots. It
says of *every* directory in `dirs`, because a power failure may make any of them
the current one (`Sound`): its segments and SSTables hold acknowledged records
only, and a logged record with a DocID no larger than a persisted one's is in an
SSTable itself, so that the cutoff of a recovery skips nothing. Of the current
directory it says that every acknowledged record is in it. A rename raises the
cutoff; that it skips nothing then follows from `Serving` (a segment's records are
in an SSTable or in the MemTable that owns the segment, and DocIDs grow from each
MemTable to the next younger one) and `Filling` (the renamed file is the oldest
frozen MemTable). `FilesApart` keeps a write from changing any file but the active
segment, in all the directories. For `DurableStays` the step lemmas also give
`Grows`: each directory after a step holds at least what some directory before it
held.

**Scans** (`ScanProofs`). `ScanInv` says that every cursor stands at a DocID above
all visited (`Cursors`), that a record of an opened source has been visited, is
still ahead of its cursor, or lies behind an error that the scan will report
(`Passed`), and that, as long as there is no such error, each version visited is that
of the first source that holds the DocID (`Winners`). `VisitsAscend` and
`NoIteratorLeaks` follow for every snapshot, window and damage. `ScansAreComplete`
and `ScansMatchGet` assume `Corruption # "any"`: first blocks load. With `"any"` they
are false, which is what `ScanCorrupt` shows; `LossIsAtOpening` is the exact extent of
it: whatever is damaged, a scan that reports success has visited every record of
every source that pruning keeps and whose first block loads.

**Stall.** `NoLostTimeout`, `WatchdogJoined` (`BackpressureProofs`), for
any number of writers, with close and fatal state: `StallInv` adds that a writer
in the loop has a watchdog that spends its one select only on expiry or shutdown.
`OvershootIsBounded`: while the queue is full, the active MemTable and the calls
that have read the predicate as clear are counted together; a call passes only
below the hard limit, and a queue becomes full by the rotation that empties the
active MemTable. It needs one caller at least: a full store nobody writes to may
be at the hard limit itself.

**Queries** (`QueryProofs`). `TenantIsolation`: after the rewrite the clause is one AND chain
that contains the tenant's term, so an accepted record is the tenant's.
`PushdownIsSafe`: each bound that is set was taken from a term of the only chain,
and a record outside the bound is rejected by that term.
`AnswerIsExact`: evaluation is decided by the first AND chain that accepts or fails,
so in a query without failures a record is accepted exactly when it satisfies some
chain, as written for direct callers and with the tenant's term for the others; the
callback keeps each accepted record as it passes, so the rows are the accepted
records up to the cursor until the limit stops the scan (`AnswerInv`), and those
pruned would have been rejected (`PushdownIsSafe`). It assumes `0 \notin Limits`,
because `LIMIT 0` returns a row (see Findings), and, on the stores
(`OneVersionAssumption`), that two records with one DocID are the same record: the
allocator's ids are unique and a scan visits each once (`AckedIdsUnique`,
`VisitOrder`).

**Only model-checked:** liveness (`SleeperWoken`, `TimeoutEndsCall`, `AllReturn`,
`ShutdownEnds`, `FrozenDrains`, and `CloseReturns` by hand), because fairness and
ENABLED are out of the provers' reach. Safety properties they rest on are proved:
`WakeupPending`, `NoDeadlock`, `NoLostFreeze`, `NoLostFlush`.

## Findings

Three runs show disagreements between the code and what its comments say; the
quotes and lines are in `PROJECT.json`.

1. `LateWriter`: DocIDs are drawn before the lock that orders appends. A slow
   writer's record can reach a younger segment than records with larger ids; once
   those are flushed, replay skips the acknowledged record.
2. `TornCrash`: after a crash in the middle of an append, the next run appends
   behind the tear, where replay does not look.
3. `StallCtxAfterFatal`: a watchdog that selected shutdown no longer watches the
   context; a writer that went to sleep after its broadcast sleeps for ever.

Five further configurations show more:

- `Quarantine`: records whose SSTable was quarantined and whose segment survived
  are not replayed when a younger SSTable raised the cutoff (ADR-007 says they
  are);
- `StallDrain`: a writer between reading the predicate and `Wait` misses the
  broadcast of the drain, and sleeps although there is room;
- `ScanCorrupt`: an SSTable whose first block is damaged is left out of a scan
  that reports success;
- `HalfClosed`: `main.go:70-71` closes the engine after the server "so no in-flight
  write hits a half-closed engine"; when the shutdown timeout passes, one does;
- `PowerLoss`: `wal.go:42-43` promises that an appended record is durable on disk,
  but a new segment's directory entry is never synced (`wal.go:74`, `wal.go:296`)
  until the next flush syncs the directory both share.

Smaller ones, read in the code and in the models, without a run of their own:

- a failed append leaves its partial bytes in the segment, and later acknowledged
  appends of the *same* run sit behind them (`wal.go:96`; `AppendFail`);
- after the newest SSTable is quarantined, the allocator starts below its DocIDs
  (`engine.go:455`; `Observed`), and SSTable ids may restart below its id, so that
  a second quarantine under that name replaces the first file in `corrupted/`
  (`engine.go:1281`, `1347-1348`; `ReadIds`, `LoadTable`);
- when `Seal` cannot open the next segment a writer past the fatal check
  dereferences a nil writer under the read lock; the HTTP server recovers the
  panic, the lock stays taken, and `Close` waits for the flush worker for ever
  (`engine.go:556`; `SealFail`, `Bind`);
- `LIMIT 0` is accepted and returns one row (`executor.go:70`; `Visit`), so the
  limits of `QueryAnswer` start at 1;
- the tenant rewrite puts the caller's clause into parentheses, which the planner
  does not look into, so no query over HTTP is pruned by timestamp
  (`server.go:362`, `planner.go:53`; `Scope`, `PlanTerm`), although the project's
  README describes the pushdown without that exception;
- `Open`'s doc comment lists a step 8 (`engine.go:318-322`) that its body does not
  take (`engine.go:470-487`), and `OpenManager` says the engine "always seals
  before reopening" (`wal.go:242-247`), which a crash does not.

## Not modelled

- *The allocator's compare-and-swap loop.* `Observe` is called by `Open` alone,
  before any `Write` runs, and `Next` is one atomic add, so the loop never
  competes; both are single steps.
- *Reordered directory operations* (see `Files`), and a disk that lies about fsync.
- *Byte layouts and checksums*: the models keep whether a record or block decodes.
- *The SQL grammar* (a library), projection of columns, YAML, tokens, statistics
  and metrics, the recovery report, the web console and the Python client.
- *Contexts in `Locks`, byte sizes in `Engine`*: limits count records.

What would come next: a model in which directory operations reach the disk out of
order, and a proof that `Scan` implements the visit that `Query` takes as given.
