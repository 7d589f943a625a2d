------------------------------- MODULE Locks --------------------------------
(***************************************************************************)
(* The engine's locking, lock operation by lock operation: e.mu and the    *)
(* RWMutex of every MemTable, taken by Write, Get, Scan, the freeze        *)
(* coordinator and the flush worker.  Where module Engine has sections     *)
(* that are atomic or excluded by a guard, this one shows that the locks   *)
(* make them so, and that nobody waits for ever.                           *)
(*                                                                         *)
(* A goroutine asks for a lock in one step and goes on in a later one,     *)
(* once it has it.  Records are named after the writers that write them;   *)
(* MemTables are numbered in the order of their creation.  The WAL's own   *)
(* mutexes are leaves, held inside one step.  Failures of the log and      *)
(* Close are in Engine and Server.                                         *)
(***************************************************************************)
EXTENDS Integers, Sequences, FiniteSets

CONSTANTS
    Writers,        \* goroutines in Engine.Write, one call each
    Getters,        \* in Engine.Get, one call each
    Wanted,         \* bound: the writers whose records Get asks for
    Scanners,       \* in Engine.ScanWithOptions, one call each
    SoftLimit,      \* Config.MemTableSizeLimit, in records
    MaxFrozen,      \* Config.MaxFrozenMemTables
    MaxTables       \* bound: MemTables

Readers == Getters \cup Scanners
Workers == {"freezer", "flusher"}
Goroutines == Writers \cup Readers \cup Workers
Nobody == "nobody"
Tables == 1..MaxTables

ASSUME LimitsAssumption ==
    /\ SoftLimit \in Nat \ {0} /\ MaxFrozen \in Nat \ {0}
    /\ MaxTables \in Nat \ {0}
ASSUME GoroutinesAssumption ==
    /\ Wanted \subseteq Writers
    /\ Writers \cap Readers = {} /\ Getters \cap Scanners = {}
    /\ (Writers \cup Readers) \cap (Workers \cup {Nobody}) = {}

VARIABLES
    mu,         \* e.mu
    mt,         \* MemTable -> its lock
    held,       \* MemTable -> the records in its skip list
    isFrozen,   \* the MemTables whose frozen flag is set
    active,     \* the active MemTable
    frozen,     \* the queue of frozen ones, oldest first
    file,       \* flushed MemTable -> the records of its SSTable
    sstables,   \* the MemTables whose SSTable reads use instead
    freezeCh, flushCh,
    pc,
    tab,        \* the MemTable a writer or the flush worker has bound
    todo,       \* reader -> the MemTables of its snapshot it has yet to read
    open,       \* scanner -> the MemTables it has an iterator of
    got,        \* reader -> the records it has found
    from, want, \* history: what was put when it began, and what it asks for
    order       \* history: the records in the order of their Puts

vars == <<mu, mt, held, isFrozen, active, frozen, file, sstables,
          freezeCh, flushCh, pc, tab, todo, open, got, from, want, order>>
tables == <<held, isFrozen, active, frozen, file, sstables, order>>
channels == <<freezeCh, flushCh>>
rd == <<todo, open, got, from, want>>

-----------------------------------------------------------------------------
(* sync.RWMutex.  A writer announces itself and waits for the readers that *)
(* hold the lock; readers that come after it queue until its Unlock, which *)
(* admits them all ahead of the next writer.                               *)

Lock == [w : Goroutines \cup {Nobody}, r : SUBSET Goroutines, q : SUBSET Goroutines]
Free == [w |-> Nobody, r |-> {}, q |-> {}]

RLock(l, p) ==
    IF l.w = Nobody THEN [l EXCEPT !.r = @ \cup {p}]
                    ELSE [l EXCEPT !.q = @ \cup {p}]
RUnlock(l, p) == [l EXCEPT !.r = @ \ {p}]
CanAnnounce(l) == l.w = Nobody
Announce(l, p) == [l EXCEPT !.w = p]
Unlock(l) == [w |-> Nobody, r |-> l.r \cup l.q, q |-> {}]

Shared(l, p) == p \in l.r
Exclusive(l, p) == l.w = p /\ l.r = {}

At(p, label) == pc[p] = label
Goto(p, label) == pc' = [pc EXCEPT ![p] = label]

-----------------------------------------------------------------------------
Init ==
    /\ mu = Free /\ mt = [t \in Tables |-> Free]
    /\ held = [t \in Tables |-> {}] /\ isFrozen = {}
    /\ active = 1 /\ frozen = <<>> /\ file = [t \in Tables |-> {}]
    /\ sstables = {}
    /\ freezeCh = FALSE /\ flushCh = FALSE
    /\ pc = [p \in Goroutines |-> IF p \in Workers THEN "wait" ELSE "idle"]
    /\ tab = [p \in Goroutines |-> 0]
    /\ todo = [p \in Readers |-> <<>>] /\ open = [p \in Readers |-> {}]
    /\ got = [p \in Readers |-> {}]
    /\ from = [p \in Readers |-> 0] /\ want = [p \in Readers |-> {}]
    /\ order = <<>>

-----------------------------------------------------------------------------
(* Engine.Write                                                            *)

WriteBegin(w) ==
    /\ At(w, "idle")
    /\ mu' = RLock(mu, w)
    /\ Goto(w, "locking")
    /\ UNCHANGED <<mt, tables, channels, tab, rd>>

\* Mutation: the read lock is released as soon as the record is logged.
WriteAppendReleasing(w) ==
    /\ At(w, "locking") /\ Shared(mu, w)
    /\ tab' = [tab EXCEPT ![w] = active]
    /\ mu' = RUnlock(mu, w)
    /\ Goto(w, "logged")
    /\ UNCHANGED <<mt, tables, channels, rd>>

\* Bind the active MemTable and append to its segment.
WriteAppend(w) ==
    /\ At(w, "locking") /\ Shared(mu, w)
    /\ tab' = [tab EXCEPT ![w] = active]
    /\ Goto(w, "logged")
    /\ UNCHANGED <<mu, mt, tables, channels, rd>>

\* Put tests the frozen flag before it asks for the lock, and again under it;
\* what Write does after ErrFrozen is left out because it never happens
\* (PutNeverFrozen).
PutBegin(w) ==
    /\ At(w, "logged") /\ tab[w] \notin isFrozen
    /\ CanAnnounce(mt[tab[w]])
    /\ mt' = [mt EXCEPT ![tab[w]] = Announce(@, w)]
    /\ Goto(w, "putting")
    /\ UNCHANGED <<mu, tables, channels, tab, rd>>

\* Mutation: the skip list is changed without waiting for its readers.
PutBesideReaders(w) ==
    /\ At(w, "putting") /\ mt[tab[w]].w = w /\ tab[w] \notin isFrozen
    /\ held' = [held EXCEPT ![tab[w]] = @ \cup {w}]
    /\ order' = Append(order, w)
    /\ mt' = [mt EXCEPT ![tab[w]] = Unlock(@)]
    /\ Goto(w, "stored")
    /\ UNCHANGED <<mu, isFrozen, active, frozen, file, sstables, channels, tab, rd>>

Put(w) ==
    /\ At(w, "putting") /\ Exclusive(mt[tab[w]], w) /\ tab[w] \notin isFrozen
    /\ held' = [held EXCEPT ![tab[w]] = @ \cup {w}]
    /\ order' = Append(order, w)
    /\ mt' = [mt EXCEPT ![tab[w]] = Unlock(@)]
    /\ Goto(w, "stored")
    /\ UNCHANGED <<mu, isFrozen, active, frozen, file, sstables, channels, tab, rd>>

\* The read lock is released, then maybeTriggerFreeze looks at the size.
WriteReturn(w) ==
    /\ At(w, "stored")
    /\ mu' = RUnlock(mu, w)
    /\ freezeCh' = (freezeCh \/ Cardinality(held[tab[w]]) >= SoftLimit)
    /\ Goto(w, "done")
    /\ UNCHANGED <<mt, tables, flushCh, tab, rd>>

WriteStep(w) ==
    \/ WriteAppend(w) \/ PutBegin(w) \/ Put(w) \/ WriteReturn(w)

-----------------------------------------------------------------------------
(* Engine.Get and Engine.ScanWithOptions                                   *)

\* A Get looks for one record.
ReadBegin(p) ==
    /\ At(p, "idle")
    /\ mu' = RLock(mu, p)
    /\ from' = [from EXCEPT ![p] = Len(order)]
    /\ IF p \in Getters THEN \E w \in Wanted : want' = [want EXCEPT ![p] = {w}]
                         ELSE want' = [want EXCEPT ![p] = Writers]
    /\ Goto(p, "locking")
    /\ UNCHANGED <<mt, tables, channels, tab, todo, open, got>>

InFiles == UNION {file[t] : t \in sstables}
NewestFirst == [i \in 1..Len(frozen) |-> frozen[Len(frozen) + 1 - i]]

\* Mutation: the frozen queue is not part of the snapshot.
SnapshotWithoutQueue(p) ==
    /\ At(p, "locking") /\ Shared(mu, p)
    /\ todo' = [todo EXCEPT ![p] = <<active>>]
    /\ got' = [got EXCEPT ![p] = InFiles]
    /\ mu' = RUnlock(mu, p)
    /\ Goto(p, "reading")
    /\ UNCHANGED <<mt, tables, channels, tab, open, from, want>>

\* Copy the references, newest MemTable first, and let the lock go.  SSTables
\* are immutable and have no lock.
Snapshot(p) ==
    /\ At(p, "locking") /\ Shared(mu, p)
    /\ todo' = [todo EXCEPT ![p] = <<active>> \o NewestFirst]
    /\ got' = [got EXCEPT ![p] = InFiles]
    /\ mu' = RUnlock(mu, p)
    /\ Goto(p, "reading")
    /\ UNCHANGED <<mt, tables, channels, tab, open, from, want>>

\* MemTable.Get and MemTable.Iterator both begin with RLock.
ReadLock(p) ==
    /\ At(p, "reading") /\ todo[p] # <<>>
    /\ mt' = [mt EXCEPT ![Head(todo[p])] = RLock(@, p)]
    /\ Goto(p, "table")
    /\ UNCHANGED <<mu, tables, channels, tab, rd>>

\* A point read unlocks at once, and stops at the first hit.
GetTable(p) ==
    /\ p \in Getters /\ At(p, "table")
    /\ LET t == Head(todo[p]) IN
         /\ Shared(mt[t], p)
         /\ got' = [got EXCEPT ![p] = @ \cup held[t]]
         /\ todo' = [todo EXCEPT ![p] = IF want[p] \subseteq held[t] THEN <<>>
                                                                    ELSE Tail(@)]
         /\ mt' = [mt EXCEPT ![t] = RUnlock(@, p)]
    /\ Goto(p, "reading")
    /\ UNCHANGED <<mu, tables, channels, tab, open, from, want>>

\* A scan's iterator keeps its lock, unless there is nothing to iterate over.
OpenIterator(p) ==
    /\ p \in Scanners /\ At(p, "table")
    /\ LET t == Head(todo[p]) IN
         /\ Shared(mt[t], p)
         /\ got' = [got EXCEPT ![p] = @ \cup held[t]]
         /\ \/ held[t] = {} /\ mt' = [mt EXCEPT ![t] = RUnlock(@, p)] /\ UNCHANGED open
            \/ held[t] # {} /\ open' = [open EXCEPT ![p] = @ \cup {t}] /\ UNCHANGED mt
    /\ todo' = [todo EXCEPT ![p] = Tail(@)]
    /\ Goto(p, "reading")
    /\ UNCHANGED <<mu, tables, channels, tab, from, want>>

\* The merge has used up one iterator and closes it.
Exhaust(p) ==
    /\ At(p, "reading") /\ todo[p] = <<>>
    /\ \E t \in open[p] :
         /\ open' = [open EXCEPT ![p] = @ \ {t}]
         /\ mt' = [mt EXCEPT ![t] = RUnlock(@, p)]
    /\ UNCHANGED <<mu, tables, channels, pc, tab, todo, got, from, want>>

\* Mutation: the iterators still open are left to the garbage collector.
ScanAbortLeaking(p) ==
    /\ p \in Scanners /\ At(p, "reading") /\ todo[p] = <<>> /\ open[p] # {}
    /\ open' = [open EXCEPT ![p] = {}]
    /\ Goto(p, "aborted")
    /\ UNCHANGED <<mu, mt, tables, channels, tab, todo, got, from, want>>

\* The visitor returns an error or the context ends: the deferred Closes.
ScanAbort(p) ==
    /\ p \in Scanners /\ At(p, "reading") /\ todo[p] = <<>> /\ open[p] # {}
    /\ open' = [open EXCEPT ![p] = {}]
    /\ mt' = [t \in Tables |-> IF t \in open[p] THEN RUnlock(mt[t], p) ELSE mt[t]]
    /\ Goto(p, "aborted")
    /\ UNCHANGED <<mu, tables, channels, tab, todo, got, from, want>>

ReadReturn(p) ==
    /\ At(p, "reading") /\ todo[p] = <<>> /\ open[p] = {}
    /\ Goto(p, "done")
    /\ UNCHANGED <<mu, mt, tables, channels, tab, rd>>

ReadStep(p) ==
    \/ Snapshot(p) \/ ReadLock(p) \/ GetTable(p) \/ OpenIterator(p)
    \/ Exhaust(p) \/ ScanAbort(p) \/ ReadReturn(p)

-----------------------------------------------------------------------------
(* freezeLoop and doFreeze                                                 *)

FreezeReceive ==
    /\ At("freezer", "wait") /\ freezeCh
    /\ freezeCh' = FALSE
    /\ Goto("freezer", "signalled")
    /\ UNCHANGED <<mu, mt, tables, flushCh, tab, rd>>

FreezeLock ==
    /\ At("freezer", "signalled") /\ CanAnnounce(mu)
    /\ mu' = Announce(mu, "freezer")
    /\ Goto("freezer", "locking")
    /\ UNCHANGED <<mt, tables, channels, tab, rd>>

CannotRotate ==
    \/ Cardinality(held[active]) < SoftLimit
    \/ Len(frozen) >= MaxFrozen
    \/ active = MaxTables

FreezeSkip ==
    /\ At("freezer", "locking") /\ Exclusive(mu, "freezer") /\ CannotRotate
    /\ mu' = Unlock(mu)
    /\ Goto("freezer", "wait")
    /\ UNCHANGED <<mt, tables, channels, tab, rd>>

\* MemTable.Freeze, under e.mu
FreezeTable ==
    /\ At("freezer", "locking") /\ Exclusive(mu, "freezer") /\ ~CannotRotate
    /\ CanAnnounce(mt[active])
    /\ mt' = [mt EXCEPT ![active] = Announce(@, "freezer")]
    /\ Goto("freezer", "freezing")
    /\ UNCHANGED <<mu, tables, channels, tab, rd>>

\* The flag is set; the segment is sealed, a new MemTable takes over.
FreezeRotate ==
    /\ At("freezer", "freezing") /\ Exclusive(mt[active], "freezer")
    /\ isFrozen' = isFrozen \cup {active}
    /\ frozen' = Append(frozen, active)
    /\ active' = active + 1
    /\ mt' = [mt EXCEPT ![active] = Unlock(@)]
    /\ mu' = Unlock(mu)
    /\ Goto("freezer", "rotated")
    /\ UNCHANGED <<held, file, sstables, order, channels, tab, rd>>

FreezeSignal ==
    /\ At("freezer", "rotated")
    /\ flushCh' = TRUE
    /\ Goto("freezer", "wait")
    /\ UNCHANGED <<mu, mt, tables, freezeCh, tab, rd>>

FreezeStep ==
    \/ FreezeReceive \/ FreezeLock \/ FreezeSkip \/ FreezeTable \/ FreezeRotate
    \/ FreezeSignal

-----------------------------------------------------------------------------
(* flushLoop and flushOneIfAny                                             *)

FlushBegin ==
    /\ \/ At("flusher", "wait") /\ flushCh /\ flushCh' = FALSE
       \/ At("flusher", "again") /\ UNCHANGED flushCh
    /\ mu' = RLock(mu, "flusher")
    /\ Goto("flusher", "snapshot")
    /\ UNCHANGED <<mt, tables, freezeCh, tab, rd>>

FlushSnapshot ==
    /\ At("flusher", "snapshot") /\ Shared(mu, "flusher")
    /\ mu' = RUnlock(mu, "flusher")
    /\ \/ frozen = <<>> /\ Goto("flusher", "wait") /\ UNCHANGED tab
       \/ /\ frozen # <<>>
          /\ tab' = [tab EXCEPT !["flusher"] = Head(frozen)]
          /\ Goto("flusher", "picked")
    /\ UNCHANGED <<mt, tables, channels, rd>>

FlushIterator ==
    /\ At("flusher", "picked")
    /\ mt' = [mt EXCEPT ![tab["flusher"]] = RLock(@, "flusher")]
    /\ Goto("flusher", "iterating")
    /\ UNCHANGED <<mu, tables, channels, tab, rd>>

\* The SSTable is written from the iterator, which is then closed.
FlushWrite ==
    /\ At("flusher", "iterating") /\ Shared(mt[tab["flusher"]], "flusher")
    /\ file' = [file EXCEPT ![tab["flusher"]] = held[tab["flusher"]]]
    /\ mt' = [mt EXCEPT ![tab["flusher"]] = RUnlock(@, "flusher")]
    /\ Goto("flusher", "written")
    /\ UNCHANGED <<mu, held, isFrozen, active, frozen, sstables, order, channels,
                   tab, rd>>

FlushLock ==
    /\ At("flusher", "written") /\ CanAnnounce(mu)
    /\ mu' = Announce(mu, "flusher")
    /\ Goto("flusher", "swapping")
    /\ UNCHANGED <<mt, tables, channels, tab, rd>>

FlushSwap ==
    /\ At("flusher", "swapping") /\ Exclusive(mu, "flusher")
    /\ frozen' = Tail(frozen)
    /\ sstables' = sstables \cup {tab["flusher"]}
    /\ mu' = Unlock(mu)
    /\ Goto("flusher", "swapped")
    /\ UNCHANGED <<mt, held, isFrozen, active, file, order, channels, tab, rd>>

FlushSignal ==
    /\ At("flusher", "swapped")
    /\ freezeCh' = TRUE
    /\ Goto("flusher", "again")
    /\ UNCHANGED <<mu, mt, tables, flushCh, tab, rd>>

FlushStep ==
    \/ FlushBegin \/ FlushSnapshot \/ FlushIterator \/ FlushWrite \/ FlushLock
    \/ FlushSwap \/ FlushSignal

-----------------------------------------------------------------------------
Step ==
    \/ \E w \in Writers : WriteStep(w)
    \/ \E p \in Readers : ReadStep(p)
    \/ FreezeStep
    \/ FlushStep

Next ==
    \/ \E w \in Writers : WriteBegin(w)
    \/ \E p \in Readers : ReadBegin(p)
    \/ Step

Spec == Init /\ [][Next]_vars

\* A goroutine that can go on does; nobody has to call.  Calls are finitely
\* many, so fairness for one step at a time is enough: what can hold up a
\* call for ever is only a lock that is never released.
FairSpec == Spec /\ WF_vars(Step)
-----------------------------------------------------------------------------
(* Properties                                                              *)

Labels ==
    {"idle", "locking", "logged", "putting", "stored", "reading", "table",
     "aborted", "done", "wait", "signalled", "freezing", "rotated", "snapshot",
     "picked", "iterating", "written", "swapping", "swapped", "again"}

LockTypes == mu \in Lock /\ mt \in [Tables -> Lock]
TableTypes ==
    /\ held \in [Tables -> SUBSET Writers] /\ file \in [Tables -> SUBSET Writers]
    /\ isFrozen \subseteq Tables /\ sstables \subseteq Tables
    /\ active \in Tables /\ frozen \in Seq(Tables)
    /\ order \in Seq(Writers)
ControlTypes ==
    /\ freezeCh \in BOOLEAN /\ flushCh \in BOOLEAN
    /\ pc \in [Goroutines -> Labels] /\ tab \in [Goroutines -> Nat]

ReaderTypes ==
    /\ todo \in [Readers -> Seq(Tables)] /\ open \in [Readers -> SUBSET Tables]
    /\ got \in [Readers -> SUBSET Writers] /\ from \in [Readers -> Nat]
    /\ want \in [Readers -> SUBSET Writers]

\* Every variable keeps its type.
TypeOK == LockTypes /\ TableTypes /\ ControlTypes /\ ReaderTypes

\* "Unreachable on the current code path": no Put meets a frozen MemTable, so
\* that the retry which would append the record to the log a second time
\* ("the WAL never receives duplicate docIDs from retry loops") never runs.
PutNeverFrozen ==
    \A w \in Writers : pc[w] \in {"logged", "putting"} => tab[w] \notin isFrozen

\* What a scan returns is what the store held at one moment of the call: the
\* records put first, all those put before it began among them, whatever is
\* rotated and flushed between its snapshot and its iterators.  A point read
\* finds what was put before it began.
ReadsConsistent ==
    /\ \A p \in Scanners :
         At(p, "done") =>
            \E k \in from[p]..Len(order) : got[p] = {order[i] : i \in 1..k}
    /\ \A p \in Getters :
         At(p, "done") =>
            want[p] \cap {order[i] : i \in 1..from[p]} \subseteq got[p]

\* The goroutines that are on MemTable t's skip list, reading it in place.
Iterators(t) ==
    {p \in Scanners : t \in open[p]}
      \cup {p \in {"flusher"} : At(p, "iterating") /\ tab[p] = t /\ Shared(mt[t], p)}

\* A skip list never changes under an iterator.
IteratedUnchanged ==
    [][\A t \in Tables : Iterators(t) # {} => held'[t] = held[t]]_vars

\* Nobody has a call or a turn of a worker's loop to finish.
Quiet ==
    /\ \A p \in Writers \cup Readers : pc[p] \in {"idle", "done", "aborted"}
    /\ \A p \in Workers : At(p, "wait")

\* Every call returns and every worker gets back to its channel: no circle
\* of readers, queued readers and announced writers of e.mu and the
\* MemTables' locks.
AllReturn == []<>Quiet

\* The guards of the steps that a goroutine inside a call, or a worker, waits
\* to take.
WriterCan(w) ==
    \/ At(w, "locking") /\ Shared(mu, w)
    \/ At(w, "logged") /\ tab[w] \notin isFrozen /\ CanAnnounce(mt[tab[w]])
    \/ At(w, "putting") /\ tab[w] \notin isFrozen /\ Exclusive(mt[tab[w]], w)
    \/ At(w, "stored")
ReaderCan(p) ==
    \/ At(p, "locking") /\ Shared(mu, p)
    \/ At(p, "reading")
    \/ At(p, "table") /\ Shared(mt[Head(todo[p])], p)
FreezerCan ==
    \/ At("freezer", "wait") /\ freezeCh
    \/ At("freezer", "signalled") /\ CanAnnounce(mu)
    \/ /\ At("freezer", "locking") /\ Exclusive(mu, "freezer")
       /\ CannotRotate \/ CanAnnounce(mt[active])
    \/ At("freezer", "freezing") /\ Exclusive(mt[active], "freezer")
    \/ At("freezer", "rotated")
FlusherCan ==
    \/ At("flusher", "wait") /\ flushCh
    \/ At("flusher", "snapshot") /\ Shared(mu, "flusher")
    \/ At("flusher", "iterating") /\ Shared(mt[tab["flusher"]], "flusher")
    \/ At("flusher", "written") /\ CanAnnounce(mu)
    \/ At("flusher", "swapping") /\ Exclusive(mu, "flusher")
    \/ pc["flusher"] \in {"picked", "swapped", "again"}

\* As long as a call or a worker's turn is unfinished, somebody can go on: it
\* never happens that all of them wait for e.mu or a MemTable's lock, a reader
\* behind a writer that has announced itself, that one for the readers.
NoDeadlock ==
    \/ Quiet
    \/ \E w \in Writers : WriterCan(w)
    \/ \E p \in Readers : ReaderCan(p)
    \/ FreezerCan
    \/ FlusherCan
-----------------------------------------------------------------------------
(* The strengthening that makes PutNeverFrozen, ReadsConsistent and the    *)
(* order behind IteratedUnchanged inductive.                               *)

\* A writer that has bound the active MemTable still shares e.mu, so the
\* freezer, which is alone under it, cannot have rotated meanwhile.
Binding ==
    /\ \A w \in Writers :
         /\ pc[w] \in {"logged", "putting", "stored"} => Shared(mu, w)
         /\ pc[w] \in {"logged", "putting"} => tab[w] = active
    /\ At("freezer", "freezing") => Exclusive(mu, "freezer")
    /\ \A t \in isFrozen : t < active

\* The queue goes from older to younger MemTables and keeps to its limit: the
\* freezer, alone under e.mu, has tested it.
QueueOrder ==
    /\ Len(frozen) <= MaxFrozen
    /\ At("freezer", "freezing") => Len(frozen) < MaxFrozen /\ active < MaxTables
    /\ \A i, j \in DOMAIN frozen : i < j => frozen[i] < frozen[j]
    /\ \A i \in DOMAIN frozen : frozen[i] < active

\* A reader walks from younger to older MemTables and holds the lock of each
\* iterator it has open.
Walking ==
    \A p \in Readers :
        /\ \A i, j \in DOMAIN todo[p] : i < j => todo[p][j] < todo[p][i]
        /\ \A i \in DOMAIN todo[p] :
             todo[p][i] <= active /\ \A t \in open[p] : todo[p][i] < t
        /\ \A t \in open[p] : Shared(mt[t], p)
        /\ pc[p] \in {"idle", "locking"} => open[p] = {}
        /\ pc[p] = "table" => todo[p] # <<>>
        /\ pc[p] = "done" => todo[p] = <<>>
        /\ p \in Getters => open[p] = {}

PutSoFar == {order[i] : i \in DOMAIN order}
HeldIn(S) == UNION {held[t] : t \in S}
InStore ==
    HeldIn({active} \cup sstables \cup {frozen[i] : i \in DOMAIN frozen})

\* Every record put is in one of the sources that a snapshot copies, and the
\* SSTable that replaces a MemTable has its records.
Stored ==
    /\ pc["flusher"] \in {"picked", "iterating", "written", "swapping"} =>
         frozen # <<>> /\ tab["flusher"] = frozen[1]
    /\ pc["flusher"] \in {"written", "swapping"} =>
         file[tab["flusher"]] = held[tab["flusher"]]
    /\ \A t \in sstables : t < active /\ file[t] = held[t]
    /\ \A t \in Tables : t > active => held[t] = {}
    /\ PutSoFar = InStore

First(k) == {order[i] : i \in 1..k}

\* What reader p has found, with what it is still going to find.
Records(h, s) == UNION {h[s[i]] : i \in DOMAIN s}
Cover(p) == got[p] \cup Records(held, todo[p])

\* A reader's cover is a cut of the store.  It grows with the store as long
\* as the active MemTable of the snapshot is active and still to be read.
Covered ==
    /\ \A p \in Readers : from[p] <= Len(order)
    /\ \A p \in Scanners : pc[p] \in {"reading", "table", "done"} =>
         /\ \E k \in from[p]..Len(order) : Cover(p) = First(k)
         /\ todo[p] # <<>> /\ todo[p][1] = active => Cover(p) = First(Len(order))
    /\ \A p \in Getters : pc[p] \in {"reading", "table", "done"} =>
         want[p] \cap First(from[p]) \subseteq Cover(p)

LocksInv == TypeOK /\ Binding /\ QueueOrder /\ Walking /\ Stored /\ Covered

-----------------------------------------------------------------------------
(* What NoDeadlock needs besides: every lock is held and waited for by those *)
(* whose place in their call says so, and by nobody else.                    *)

\* Goroutine p shares e.mu or waits to, and owns it or has announced itself.
Sharing(p) ==
    \/ p \in Writers /\ pc[p] \in {"locking", "logged", "putting", "stored"}
    \/ p \in Readers /\ pc[p] = "locking"
    \/ p = "flusher" /\ pc[p] = "snapshot"
Owning(p) ==
    \/ p = "freezer" /\ pc[p] \in {"locking", "freezing"}
    \/ p = "flusher" /\ pc[p] = "swapping"

\* The same for the lock of MemTable t.
SharingTable(p, t) ==
    \/ p \in Readers /\ t \in open[p]
    \/ p \in Readers /\ pc[p] = "table" /\ Head(todo[p]) = t
    \/ p = "flusher" /\ pc[p] = "iterating" /\ tab[p] = t
OwningTable(p, t) ==
    \/ p \in Writers /\ pc[p] = "putting" /\ tab[p] = t
    \/ p = "freezer" /\ pc[p] = "freezing" /\ active = t

\* Nobody has a lock and waits for it, and who waits waits for somebody.
Sound(l) == l.r \cap l.q = {} /\ (l.q # {} => l.w # Nobody)

MuAccounts ==
    /\ Sound(mu)
    /\ \A p \in Goroutines : /\ p \in mu.r \cup mu.q <=> Sharing(p)
                             /\ mu.w = p <=> Owning(p)
TableAccounts ==
    \A t \in Tables :
        /\ Sound(mt[t])
        /\ \A p \in Goroutines : /\ p \in mt[t].r \cup mt[t].q <=> SharingTable(p, t)
                                 /\ mt[t].w = p <=> OwningTable(p, t)
Places ==
    /\ \A w \in Writers :
         pc[w] \in {"idle", "locking", "logged", "putting", "stored", "done"}
    /\ \A p \in Readers :
         /\ pc[p] \in {"idle", "locking", "reading", "table", "done", "aborted"}
         /\ open[p] # {} => pc[p] \in {"reading", "table"}
    /\ pc["freezer"] \in {"wait", "signalled", "locking", "freezing", "rotated"}
    /\ pc["flusher"] \in {"wait", "again", "snapshot", "picked", "iterating",
                          "written", "swapping", "swapped"}

Accounts == Places /\ MuAccounts /\ TableAccounts
=============================================================================
