-------------------------------- MODULE Scan --------------------------------
(***************************************************************************)
(* Reads: Engine.ScanWithOptions as a k-way merge of iterators over the    *)
(* snapshot it took, SSTable pruning by timestamp, sstable.Reader's block  *)
(* iteration with CRC failures, and Engine.Get over the same snapshot.     *)
(*                                                                         *)
(* A source is a MemTable or an SSTable, in the order of precedence the    *)
(* engine keeps: active, frozen newest first, SSTables newest first.  A    *)
(* source's position in that order stands for the version of a record.     *)
(***************************************************************************)
EXTENDS Integers, Sequences, FiniteSets, FiniteSetsExt, Functions

CONSTANTS
    DocIDs,        \* the DocIDs in use
    Times,         \* the record timestamps
    Windows,       \* ScanOptions the callers pass: [min, max], 0 for unset
    MaxMemTables,  \* bound: MemTables in the snapshot
    MaxTables,     \* bound: SSTables in the snapshot
    Corruption     \* "none", "later" (never a file's first block), "any"

ASSUME DocIDAssumption == DocIDs \subseteq Nat \ {0} /\ IsFiniteSet(DocIDs)
ASSUME TimesAssumption == Times \subseteq Int
ASSUME WindowsAssumption == Windows \subseteq [min : Int, max : Int]
ASSUME BoundsAssumption == MaxMemTables \in Nat /\ MaxTables \in Nat
ASSUME CorruptionAssumption == Corruption \in {"none", "later", "any"}

VARIABLES
    sources,   \* the snapshot: docs, first DocID of each block, bad blocks
    ts,        \* the timestamp of each record
    window,
    opened,    \* how many sources addCursor has handled
    head,      \* the live cursors: source -> DocID it stands at
    lastErr,   \* the cursors whose iterator failed
    iters,     \* the iterators not closed yet
    visited,   \* what visit was called with: DocID and version
    result     \* "running", "ok", "error", "aborted"

input == <<sources, ts, window>>
vars == <<input, opened, head, lastErr, iters, visited, result>>

MemTables ==
    {[kind |-> "mem", docs |-> D, first |-> {}, bad |-> {}] : D \in SUBSET DocIDs}

\* sstable.Writer rejects an empty file and starts a block with the first
\* record after a full one; any block may fail its CRC when it is read.
Tables ==
    {t \in [kind : {"sst"}, docs : (SUBSET DocIDs) \ {{}}, first : SUBSET DocIDs,
            bad : SUBSET DocIDs] :
        /\ t.first \subseteq t.docs /\ Min(t.docs) \in t.first
        /\ t.bad \subseteq t.first
        /\ Corruption = "none" => t.bad = {}
        /\ Corruption = "later" => Min(t.docs) \notin t.bad}

Init ==
    /\ \E m \in 1..MaxMemTables, n \in 0..MaxTables :
         \E mems \in [1..m -> MemTables], ssts \in [1..n -> Tables] :
            sources = mems \o ssts
    /\ ts \in [DocIDs -> Times] /\ window \in Windows
    /\ opened = 0 /\ head = <<>> /\ lastErr = {} /\ iters = {}
    /\ visited = <<>> /\ result = "running"

-----------------------------------------------------------------------------
(* Sources *)

MinTimestamp(s) == Min({ts[d] : d \in s.docs})
MaxTimestamp(s) == Max({ts[d] : d \in s.docs})

\* Mutation: the inclusive bounds of the window taken as exclusive.
PrunedAtBound(s) ==
    /\ s.kind = "sst"
    /\ \/ window.min # 0 /\ MaxTimestamp(s) <= window.min
       \/ window.max # 0 /\ MinTimestamp(s) >= window.max

\* pruneSSTable
Pruned(s) ==
    /\ s.kind = "sst"
    /\ \/ window.min # 0 /\ MaxTimestamp(s) < window.min
       \/ window.max # 0 /\ MinTimestamp(s) > window.max

\* Iterator.Next: the next record, the end, or a block that does not load.
Following(s, d) == {x \in s.docs : x > d}
AtEnd(s, d) == Following(s, d) = {}
Fails(s, d) == ~AtEnd(s, d) /\ Min(Following(s, d)) \in s.bad
Moves(s, d) == ~AtEnd(s, d) /\ ~Fails(s, d)

-----------------------------------------------------------------------------
(* ScanWithOptions *)

Opening == result = "running" /\ opened < Len(sources)
Merging == result = "running" /\ opened = Len(sources)

SkipPruned ==
    /\ Opening /\ Pruned(sources[opened + 1])
    /\ opened' = opened + 1
    /\ UNCHANGED <<input, head, lastErr, iters, visited, result>>

\* Mutation: a cursor that cannot make its first step is not closed.
AddCursorUnclosed ==
    /\ Opening /\ ~Pruned(sources[opened + 1])
    /\ opened' = opened + 1
    /\ LET i == opened + 1 IN
         /\ head' = IF Moves(sources[i], 0)
                      THEN [k \in DOMAIN head \cup {i} |->
                              IF k = i THEN Min(sources[i].docs) ELSE head[k]]
                      ELSE head
         /\ iters' = iters \cup {i}
    /\ UNCHANGED <<input, lastErr, visited, result>>

\* addCursor: a cursor that cannot make its first step is closed and dropped.
AddCursor ==
    /\ Opening /\ ~Pruned(sources[opened + 1])
    /\ opened' = opened + 1
    /\ LET i == opened + 1 IN
         IF Moves(sources[i], 0)
           THEN /\ head' = [k \in DOMAIN head \cup {i} |->
                              IF k = i THEN Min(sources[i].docs) ELSE head[k]]
                /\ iters' = iters \cup {i}
           ELSE UNCHANGED <<head, iters>>
    /\ UNCHANGED <<input, lastErr, visited, result>>

\* Mutation: on equal DocIDs the lower precedence wins.
WinnerReversed(at) == Max(at)

\* scanHeap.Less: on equal DocIDs the source that comes first wins.
Winner(at) == Min(at)

\* Mutation: the duplicates below the top of the heap stay where they are.
StandingAtTop(id) == {Min({i \in DOMAIN head : head[i] = id})}

StandingAt(id) == {i \in DOMAIN head : head[i] = id}

\* One turn of the merge: the smallest DocID, from the source that comes
\* first; every cursor standing at it advances, then visit is called.
Visit ==
    /\ Merging /\ head # <<>>
    /\ LET id == Min(Range(head))
           at == StandingAt(id)
           moved == {i \in at : Moves(sources[i], id)}
           stay == DOMAIN head \ (at \ moved)
       IN /\ head' = [i \in stay |->
                IF i \in moved THEN Min(Following(sources[i], id)) ELSE head[i]]
          /\ lastErr' = lastErr \cup {i \in at : Fails(sources[i], id)}
          /\ iters' = iters \ (at \ moved)
          /\ visited' = Append(visited, <<id, Winner(at)>>)
    /\ UNCHANGED <<input, opened, result>>

\* The context is done, or visit returned an error; the deferred closes run.
Abort ==
    /\ Merging
    /\ head # <<>> \/ visited # <<>>
    /\ result' = "aborted" /\ iters' = {}
    /\ UNCHANGED <<input, opened, head, lastErr, visited>>

\* The heap is empty: an error some cursor met is returned now.
Finish ==
    /\ Merging /\ head = <<>>
    /\ result' = IF lastErr = {} THEN "ok" ELSE "error"
    /\ iters' = {}
    /\ UNCHANGED <<input, opened, head, lastErr, visited>>

Next == SkipPruned \/ AddCursor \/ Visit \/ Abort \/ Finish
Spec == Init /\ [][Next]_vars

-----------------------------------------------------------------------------
(* Engine.Get *)

\* The only block that may hold d: findBlock's binary search.
BlockOf(s, d) == Max({f \in s.first : f <= d})

Searched(s, d) == s.kind = "mem" \/ (Min(s.docs) <= d /\ d <= Max(s.docs))
Unreadable(s, d) == s.kind = "sst" /\ BlockOf(s, d) \in s.bad

\* The sources that end the search for d: they have it or fail to tell.
Decides(d) ==
    {i \in DOMAIN sources :
        /\ Searched(sources[i], d)
        /\ Unreadable(sources[i], d) \/ d \in sources[i].docs}

NotFound == 0
Failed == -1
Get(d) ==
    IF Decides(d) = {} THEN NotFound
    ELSE IF Unreadable(sources[Min(Decides(d))], d) THEN Failed
    ELSE Min(Decides(d))

-----------------------------------------------------------------------------
Visited == {visited[k][1] : k \in DOMAIN visited}
InWindow(d) ==
    /\ window.min # 0 => ts[d] >= window.min
    /\ window.max # 0 => ts[d] <= window.max
Held(d) == \E i \in DOMAIN sources : d \in sources[i].docs

TypeOK ==
    /\ opened \in 0..Len(sources)
    /\ DOMAIN head \subseteq 1..opened /\ Range(head) \subseteq DocIDs
    /\ lastErr \subseteq 1..opened /\ iters \subseteq 1..opened
    /\ \A k \in DOMAIN visited : visited[k] \in DocIDs \X (1..opened)
    /\ result \in {"running", "ok", "error", "aborted"}

\* Scan's comment: every distinct DocID once, in ascending order, whatever
\* versions of it the snapshot holds.
VisitOrder ==
    \A j, k \in DOMAIN visited : j < k => visited[j][1] < visited[k][1]

\* A scan that reports success has visited every record of the snapshot in
\* the time window: neither pruning nor a damaged block loses one silently.
ScanComplete ==
    result = "ok" => \A d \in DocIDs : InWindow(d) /\ Held(d) => d \in Visited

\* "matching the precedence used by Get": wherever Get finds a record, a
\* scan that reports success visits the same version of it.
ScanMatchesGet ==
    result = "ok" =>
        \A d \in DocIDs : InWindow(d) /\ Get(d) > 0 => <<d, Get(d)>> \in Range(visited)

\* While a scan runs, exactly its live cursors hold an iterator, and none is
\* left when it returns: a MemTable iterator holds that MemTable's lock.
IteratorsReleased ==
    iters = IF result = "running" THEN DOMAIN head ELSE {}
=============================================================================
