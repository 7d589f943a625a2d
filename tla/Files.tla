------------------------------- MODULE Files --------------------------------
(***************************************************************************)
(* The files of the data directory, one system call at a time: WAL         *)
(* segments, SSTables with their .tmp names and the corrupted/ directory,  *)
(* through writes, flushes, recovery and stops of two kinds.  A process    *)
(* that is killed leaves the directory as it saw it; a power failure also  *)
(* takes back directory operations that were not synced and the contents   *)
(* of files that were not.  Open is cut into steps, so it can be stopped   *)
(* halfway.  Concurrency is left to module Engine: one client writes, and  *)
(* a record is a number, in the order of the writes.                       *)
(*                                                                         *)
(* The file system is a journaling one: directory operations reach the     *)
(* disk in their order, all of them at the latest when the directory is    *)
(* synced.                                                                 *)
(***************************************************************************)
EXTENDS Integers, Sequences, FiniteSets

CONSTANTS
    MaxRecords,   \* bound: records written
    MaxFrozen,    \* Config.MaxFrozenMemTables
    MaxIds,       \* bound: SSTable ids
    MaxStops,     \* bound: kills and power failures
    MaxRot        \* bound: SSTable files bit rot destroys

ASSUME BoundsAssumption ==
    /\ MaxRecords \in Nat /\ MaxFrozen \in Nat \ {0} /\ MaxIds \in Nat
    /\ MaxStops \in Nat /\ MaxRot \in Nat

Records == 1..MaxRecords

\* Names in the data directory; "bad" stands for corrupted/.
Wal(n) == <<"wal", n>>
Sst(n) == <<"sst", n>>
Tmp(n) == <<"tmp", n>>
Bad(n) == <<"bad", n>>

VARIABLES
    dirs,      \* what the directory may be after a power failure, oldest
               \* first: a function from names to nodes; the last is the
               \* directory the process sees
    nodes,     \* the files' contents: [recs, whole], numbered by creation
    written,   \* how many records were written
    docID,     \* record -> its DocID
    acked,     \* records whose Write returned, less those a power failure took
    up,        \* "down", the step of Open, or "running"
    active, seg, frozen, loaded, alloc, nextSST,   \* as in module Engine
    fl,        \* flushOneIfAny: its step and the file it makes
    stops, rotten

vars == <<dirs, nodes, written, docID, acked, up, active, seg, frozen, loaded,
          alloc, nextSST, fl, stops, rotten>>
client == <<written, docID, acked>>
memory == <<active, seg, frozen, alloc>>
bounds == <<stops, rotten>>

Dir == dirs[Len(dirs)]
Ids(kind) == {name[2] : name \in {m \in DOMAIN Dir : m[1] = kind}}

\* One more directory operation that is not synced yet.
Change(d) == dirs' = Append(dirs, d)
Linked(d, name, node) ==
    [m \in DOMAIN d \cup {name} |-> IF m = name THEN node ELSE d[m]]
Unlinked(d, name) == [m \in DOMAIN d \ {name} |-> d[m]]
Renamed(d, old, new) == Unlinked(Linked(d, new, d[old]), old)

NewNode == Len(nodes) + 1
Largest(S) == IF S = {} THEN 0 ELSE CHOOSE n \in S : \A m \in S : m <= n

-----------------------------------------------------------------------------
(* What the files of directory d hold.                                     *)

Whole(d, name) == nodes[d[name]].whole
RecordsIn(d, kind) ==
    UNION {nodes[d[name]].recs :
             name \in {m \in DOMAIN d : m[1] = kind /\ Whole(d, m)}}
Persisted(d) == RecordsIn(d, "sst")
Cutoff(S) == Largest({docID[r] : r \in S})
Replayed(d) == {r \in RecordsIn(d, "wal") : docID[r] > Cutoff(Persisted(d))}
Recoverable(d) == Persisted(d) \cup Replayed(d)

\* Recoverable whatever a power failure does.
Durable(r) == \A i \in DOMAIN dirs : r \in Recoverable(dirs[i])

-----------------------------------------------------------------------------
Idle == [pc |-> "idle", id |-> 0]

Init ==
    /\ dirs = <<[name \in {} |-> 0]>> /\ nodes = <<>>
    /\ written = 0 /\ docID = [r \in Records |-> 0] /\ acked = {}
    /\ up = "down"
    /\ active = {} /\ seg = 0 /\ frozen = <<>> /\ loaded = {}
    /\ alloc = 0 /\ nextSST = 0
    /\ fl = Idle
    /\ stops = 0 /\ rotten = 0

-----------------------------------------------------------------------------
(* Open                                                                    *)

\* Mutation: ids go on after the number of files instead of the largest id.
ReadIdsCounted ==
    /\ up = "down"
    /\ nextSST' = Cardinality(Ids("sst") \cup Ids("tmp"))
    /\ up' = "tmps"
    /\ UNCHANGED <<dirs, nodes, client, memory, loaded, fl, bounds>>

\* loadSSTableMaxID looks at .sst and .sst.tmp, not into corrupted/.
ReadIds ==
    /\ up = "down"
    /\ nextSST' = Largest(Ids("sst") \cup Ids("tmp"))
    /\ up' = "tmps"
    /\ UNCHANGED <<dirs, nodes, client, memory, loaded, fl, bounds>>

\* removeOrphanSSTableTmp
RemoveTmp ==
    /\ up = "tmps"
    /\ \/ \E n \in Ids("tmp") : Change(Unlinked(Dir, Tmp(n))) /\ UNCHANGED up
       \/ Ids("tmp") = {} /\ up' = "tables" /\ UNCHANGED dirs
    /\ UNCHANGED <<nodes, client, memory, loaded, nextSST, fl, bounds>>

\* loadAllSSTables: open a file, or move it away under its own name.
LoadTable ==
    /\ up = "tables"
    /\ \/ \E n \in Ids("sst") \ loaded :
            /\ \A m \in Ids("sst") \ loaded : n <= m
            /\ IF Whole(Dir, Sst(n))
                 THEN loaded' = loaded \cup {n} /\ UNCHANGED dirs
                 ELSE Change(Renamed(Dir, Sst(n), Bad(n))) /\ UNCHANGED loaded
            /\ UNCHANGED up
       \/ /\ Ids("sst") \subseteq loaded
          /\ up' = "log" /\ UNCHANGED <<dirs, loaded>>
    /\ UNCHANGED <<nodes, client, memory, nextSST, fl, bounds>>

\* OpenManager on a directory without segments: openSegmentWriter creates
\* the first, and nobody syncs the directory.
CreateFirstSegment ==
    /\ up = "log" /\ Ids("wal") = {}
    /\ nodes' = Append(nodes, [recs |-> {}, whole |-> TRUE])
    /\ Change(Linked(Dir, Wal(1), NewNode))
    /\ UNCHANGED <<client, up, memory, loaded, nextSST, fl, bounds>>

\* Mutation: the cutoff is not applied.
ReplayLogUncut ==
    /\ up = "log" /\ Ids("wal") # {}
    /\ seg' = Largest(Ids("wal"))
    /\ active' = RecordsIn(Dir, "wal")
    /\ alloc' = Cutoff(Persisted(Dir))
    /\ up' = "covered"
    /\ UNCHANGED <<dirs, nodes, client, frozen, loaded, nextSST, fl, bounds>>

\* Mutation: the recovered MemTable is filled from the active segment alone.
ReplayLogActiveOnly ==
    /\ up = "log" /\ Ids("wal") # {}
    /\ seg' = Largest(Ids("wal"))
    /\ active' = Replayed(Dir) \cap nodes[Dir[Wal(seg')]].recs
    /\ alloc' = Cutoff(Recoverable(Dir))
    /\ up' = "covered"
    /\ UNCHANGED <<dirs, nodes, client, frozen, loaded, nextSST, fl, bounds>>

\* Adopt the newest segment, replay all, rebuild the allocator.
ReplayLog ==
    /\ up = "log" /\ Ids("wal") # {}
    /\ seg' = Largest(Ids("wal"))
    /\ active' = Replayed(Dir)
    /\ alloc' = Cutoff(Recoverable(Dir))
    /\ up' = "covered"
    /\ UNCHANGED <<dirs, nodes, client, frozen, loaded, nextSST, fl, bounds>>

Obsolete(n) ==
    \A r \in nodes[Dir[Wal(n)]].recs : docID[r] <= Cutoff(Persisted(Dir))

\* Mutation: a segment is deleted when its smallest DocID is covered.
DeleteCoveredEarly ==
    /\ up = "covered"
    /\ \/ \E n \in Ids("wal") \ {seg} :
            /\ nodes[Dir[Wal(n)]].recs # {} => \E r \in nodes[Dir[Wal(n)]].recs :
                    docID[r] <= Cutoff(Persisted(Dir)) + 1
            /\ Change(Unlinked(Dir, Wal(n))) /\ UNCHANGED up
       \/ up' = "running" /\ UNCHANGED dirs
    /\ UNCHANGED <<nodes, client, memory, loaded, nextSST, fl, bounds>>

\* Sealed segments that the SSTables cover are deleted, best effort.
DeleteCovered ==
    /\ up = "covered"
    /\ \/ \E n \in Ids("wal") \ {seg} :
            Obsolete(n) /\ Change(Unlinked(Dir, Wal(n))) /\ UNCHANGED up
       \/ up' = "running" /\ UNCHANGED dirs
    /\ UNCHANGED <<nodes, client, memory, loaded, nextSST, fl, bounds>>

Open ==
    \/ ReadIds \/ RemoveTmp \/ LoadTable \/ CreateFirstSegment \/ ReplayLog
    \/ DeleteCovered

-----------------------------------------------------------------------------
(* Writing                                                                 *)

\* Append writes and fsyncs the segment, not the directory it is in.
Write ==
    /\ up = "running" /\ written < MaxRecords
    /\ LET r == written + 1 IN
         /\ written' = r
         /\ alloc' = alloc + 1 /\ docID' = [docID EXCEPT ![r] = alloc + 1]
         /\ nodes' = [nodes EXCEPT ![Dir[Wal(seg)]].recs = @ \cup {r}]
         /\ active' = active \cup {r}
         /\ acked' = acked \cup {r}
    /\ UNCHANGED <<dirs, up, seg, frozen, loaded, nextSST, fl, bounds>>

\* The engine's frozen queue: once swapped, the head is here for the sake of
\* its segment only.
QueueLen == IF fl.pc = "swapped" THEN Len(frozen) - 1 ELSE Len(frozen)

\* doFreeze; when the limit is reached is left open.
Freeze ==
    /\ up = "running" /\ active # {} /\ QueueLen < MaxFrozen
    /\ frozen' = Append(frozen, [mt |-> active, seg |-> seg])
    /\ active' = {} /\ seg' = seg + 1
    /\ nodes' = Append(nodes, [recs |-> {}, whole |-> TRUE])
    /\ Change(Linked(Dir, Wal(seg + 1), NewNode))
    /\ UNCHANGED <<client, up, loaded, alloc, nextSST, fl, bounds>>

-----------------------------------------------------------------------------
(* flushOneIfAny and the SSTable writer                                    *)

FlushAt(pc) == up = "running" /\ fl.pc = pc
FlushTo(pc) == fl' = [fl EXCEPT !.pc = pc]

FlushCreate ==
    /\ FlushAt("idle") /\ frozen # <<>> /\ nextSST < MaxIds
    /\ nextSST' = nextSST + 1
    /\ nodes' = Append(nodes, [recs |-> {}, whole |-> FALSE])
    /\ Change(Linked(Dir, Tmp(nextSST + 1), NewNode))
    /\ fl' = [pc |-> "tmp", id |-> nextSST + 1]
    /\ UNCHANGED <<client, up, memory, loaded, bounds>>

\* Add, the trailing blocks, and fsync.
FlushSync ==
    /\ FlushAt("tmp")
    /\ nodes' = [nodes EXCEPT ![Dir[Tmp(fl.id)]] =
                    [recs |-> Head(frozen).mt, whole |-> TRUE]]
    /\ FlushTo("synced")
    /\ UNCHANGED <<dirs, client, up, memory, loaded, nextSST, bounds>>

\* Mutation: the file is renamed before it is synced.
FlushRenameUnsynced ==
    /\ up = "running" /\ fl.pc \in {"tmp", "synced"}
    /\ Change(Renamed(Dir, Tmp(fl.id), Sst(fl.id)))
    /\ FlushTo("renamed")
    /\ UNCHANGED <<nodes, client, up, memory, loaded, nextSST, bounds>>

FlushRename ==
    /\ FlushAt("synced")
    /\ Change(Renamed(Dir, Tmp(fl.id), Sst(fl.id)))
    /\ FlushTo("renamed")
    /\ UNCHANGED <<nodes, client, up, memory, loaded, nextSST, bounds>>

\* Mutation: the rename is not made durable.
FlushSyncNothing ==
    /\ FlushAt("renamed")
    /\ FlushTo("published")
    /\ UNCHANGED <<dirs, nodes, client, up, memory, loaded, nextSST, bounds>>

\* syncDir: of the one directory that segments and SSTables share.
FlushSyncDir ==
    /\ FlushAt("renamed")
    /\ dirs' = <<Dir>>
    /\ FlushTo("published")
    /\ UNCHANGED <<nodes, client, up, memory, loaded, nextSST, bounds>>

\* An error removes the .tmp file; after the rename (the directory sync
\* fails, or the file does not open) it leaves the file.
FlushFail ==
    /\ up = "running"
    /\ \/ fl.pc \in {"tmp", "synced"} /\ Change(Unlinked(Dir, Tmp(fl.id)))
       \/ fl.pc \in {"renamed", "published"} /\ UNCHANGED dirs
    /\ fl' = Idle
    /\ UNCHANGED <<nodes, client, up, memory, loaded, nextSST, bounds>>

FlushSwap ==
    /\ FlushAt("published")
    /\ loaded' = loaded \cup {fl.id}
    /\ FlushTo("swapped")
    /\ UNCHANGED <<dirs, nodes, client, up, memory, nextSST, bounds>>

\* The segment's Delete, best effort; its durability is left to later syncs.
FlushDelete ==
    /\ FlushAt("swapped")
    /\ frozen' = Tail(frozen)
    /\ Change(Unlinked(Dir, Wal(Head(frozen).seg))) \/ UNCHANGED dirs
    /\ fl' = Idle
    /\ UNCHANGED <<nodes, client, up, active, seg, alloc, loaded, nextSST, bounds>>

Flush ==
    \/ FlushCreate \/ FlushSync \/ FlushRename \/ FlushSyncDir \/ FlushFail
    \/ FlushSwap \/ FlushDelete

-----------------------------------------------------------------------------
(* Stops                                                                   *)

Forget ==
    /\ up' = "down" /\ stops' = stops + 1
    /\ active' = {} /\ seg' = 0 /\ frozen' = <<>> /\ loaded' = {}
    /\ alloc' = 0 /\ nextSST' = 0 /\ fl' = Idle

Kill ==
    /\ up # "down" /\ stops < MaxStops
    /\ Forget
    /\ UNCHANGED <<dirs, nodes, client, rotten>>

\* The disk keeps some directory between the last synced one and the
\* current one.  What that takes away is not owed any more: StaysDurable
\* says how much it may be.
PowerFailure ==
    /\ stops < MaxStops
    /\ \E i \in DOMAIN dirs :
         dirs' = <<dirs[i]>> /\ acked' = acked \cap Recoverable(dirs[i])
    /\ Forget
    /\ UNCHANGED <<nodes, written, docID, rotten>>

\* Bit rot while the process is down.
Rot ==
    /\ up = "down" /\ rotten < MaxRot
    /\ \E n \in Ids("sst") :
         nodes' = [nodes EXCEPT ![Dir[Sst(n)]].whole = FALSE]
    /\ rotten' = rotten + 1
    /\ UNCHANGED <<dirs, client, up, memory, loaded, nextSST, fl, stops>>

Next ==
    \/ Open \/ Write \/ Freeze \/ Flush
    \/ Kill \/ PowerFailure \/ Rot

Spec == Init /\ [][Next]_vars

-----------------------------------------------------------------------------
(* Properties                                                              *)

Kinds == {"wal", "sst", "tmp", "bad"}
File == [recs : SUBSET Records, whole : BOOLEAN]

DiskTypes ==
    /\ nodes \in Seq(File)
    /\ dirs # <<>>
    /\ \A i \in DOMAIN dirs :
         /\ DOMAIN dirs[i] \subseteq Kinds \X (1..Len(nodes))
         /\ \A m \in DOMAIN dirs[i] : dirs[i][m] \in DOMAIN nodes
ClientTypes ==
    written \in 0..MaxRecords /\ docID \in [Records -> Nat] /\ acked \subseteq Records
MemoryTypes ==
    /\ active \subseteq Records /\ seg \in Nat /\ alloc \in Nat
    /\ frozen \in Seq([mt : SUBSET Records, seg : Nat])
ProcessTypes ==
    /\ up \in {"down", "tmps", "tables", "log", "covered", "running"}
    /\ nextSST \in Nat /\ loaded \subseteq Nat
    /\ fl \in [pc : {"idle", "tmp", "synced", "renamed", "published", "swapped"},
               id : Nat]
    /\ stops \in Nat /\ rotten \in Nat

\* Every variable keeps its type; a name always leads to a file.
TypeOK == DiskTypes /\ ClientTypes /\ MemoryTypes /\ ProcessTypes

\* "a complete SSTable lives at the final \".sst\" path or nowhere at all":
\* whatever a power failure leaves, only bit rot makes a file unreadable.
CompleteOrNowhere ==
    rotten = 0 =>
        \A i \in DOMAIN dirs : \A m \in DOMAIN dirs[i] :
            m[1] = "sst" => Whole(dirs[i], m)

\* The acknowledged records are in the files at every step of a flush and of
\* recovery, so a kill in the middle, or several, lose none.
AckedOnDisk == rotten = 0 => acked \subseteq Recoverable(Dir)

\* Where reads look.
InMemory == active \cup UNION {frozen[i].mt : i \in DOMAIN frozen}
InTables == UNION {nodes[Dir[Sst(n)]].recs : n \in loaded}

\* And once Open is through, reads find them.
AckedServed ==
    (rotten = 0 /\ up = "running") => acked \subseteq InMemory \cup InTables

\* No two records that a read can return have the same DocID, although the
\* DocIDs of records a power failure took are used again.  (Those of a
\* quarantined SSTable are used again too, and its older segment may remain.)
SurvivorsUnique ==
    rotten = 0 =>
        \A r, s \in Recoverable(Dir) : r # s => docID[r] # docID[s]

\* Before the flush worker publishes an SSTable and deletes the segment it
\* replaces, no power failure can take its records any more.
FlushedDurable ==
    (rotten = 0 /\ fl.pc \in {"published", "swapped"}) =>
        \A r \in Head(frozen).mt : Durable(r)

\* A record that no power failure can take stays so: through rotation,
\* flush, deletion of its segment, kills and recoveries.
StaysDurable ==
    [][rotten' = 0 => \A r \in acked : Durable(r) => Durable(r)']_vars

\* SSTable ids are not used twice while the file is there: no process, of
\* this run or a later one, replaces a file at a final path.
NeverReplaced ==
    [][(up # "down" /\ up' # "down") =>
         \A n \in Ids("sst") : Sst(n) \in DOMAIN Dir' => Dir'[Sst(n)] = Dir[Sst(n)]]_vars

\* wal.go:42: "when Append returns nil, the record and all preceding records
\* are durable on disk".
AppendedDurable == rotten = 0 => \A r \in acked : Durable(r)

-----------------------------------------------------------------------------
(* The strengthening that makes CompleteOrNowhere and NeverReplaced        *)
(* inductive for every value of the bounds.                                *)

\* A file is created for every segment and every id, so their numbers never
\* outrun the files; DocIDs never outrun the records.
Numbering ==
    /\ seg <= Len(nodes) /\ nextSST <= Len(nodes)
    /\ alloc <= written /\ \A r \in Records : docID[r] <= written

\* Once Open has read the ids, no SSTable, finished or not, has a larger one.
IdsKnown ==
    up # "down" => \A m \in DOMAIN Dir : m[1] \in {"sst", "tmp"} => m[2] <= nextSST

\* The flush worker's .tmp file waits for a final path that is free, and is
\* complete once it is synced.
Flushing ==
    /\ fl.pc # "idle" => up = "running" /\ frozen # <<>>
    /\ fl.pc \in {"tmp", "synced"} => Tmp(fl.id) \in DOMAIN Dir /\ Sst(fl.id) \notin DOMAIN Dir
    /\ (fl.pc = "synced" /\ rotten = 0) => Whole(Dir, Tmp(fl.id))

DirsAreSequence == dirs \in Seq({dirs[i] : i \in DOMAIN dirs})

FilesInv ==
    TypeOK /\ DirsAreSequence /\ Numbering /\ IdsKnown /\ Flushing /\ CompleteOrNowhere

-----------------------------------------------------------------------------
(* The strengthening that makes the properties about acknowledged records  *)
(* inductive, as long as no file rots.                                     *)

\* Records are acknowledged in order, under DocIDs of their own.
DocIDsApart ==
    /\ acked \subseteq 1..written
    /\ \A r \in acked : docID[r] > 0
    /\ \A r, s \in acked : docID[r] = docID[s] => r = s

\* A directory that recovery reads whole: segments are complete files of
\* acknowledged records, and one that the cutoff skips is in an SSTable.
InFiles(d) == RecordsIn(d, "wal") \cup Persisted(d)
Sound(d) ==
    /\ \A m \in DOMAIN d : m[1] = "wal" => Whole(d, m)
    /\ InFiles(d) \subseteq acked
    /\ \A r \in RecordsIn(d, "wal"), t \in Persisted(d) :
         docID[r] <= docID[t] => r \in Persisted(d)

\* A file is always linked under one number, and is a segment or never one.
FilesApart ==
    \A i, j \in DOMAIN dirs : \A m \in DOMAIN dirs[i], n \in DOMAIN dirs[j] :
        dirs[i][m] = dirs[j][n] => m[2] = n[2] /\ (m[1] = "wal" <=> n[1] = "wal")

\* Open fills memory from all the SSTables of the directory.
Loading ==
    /\ \A n \in loaded : Sst(n) \in DOMAIN Dir
    /\ up = "log" => Ids("sst") \subseteq loaded
    /\ up \notin {"covered", "running"} => active = {} /\ frozen = <<>>

\* The worker's file holds the oldest frozen MemTable.
Filling ==
    /\ fl.pc = "tmp" => ~Whole(Dir, Tmp(fl.id))
    /\ fl.pc = "synced" => nodes[Dir[Tmp(fl.id)]].recs = Head(frozen).mt
    /\ fl.pc \in {"renamed", "published", "swapped"} =>
         Sst(fl.id) \in DOMAIN Dir /\ nodes[Dir[Sst(fl.id)]].recs = Head(frozen).mt
    /\ fl.pc = "swapped" => fl.id \in loaded

\* What a segment holds is in an SSTable or in the MemTable it belongs to,
\* and the MemTables' DocIDs grow with their age.
Logged(n, mt) == nodes[Dir[Wal(n)]].recs \subseteq Persisted(Dir) \cup mt
Younger(mt, mtt) == \A r \in mt, s \in mtt : docID[r] < docID[s]
Serving ==
    up \in {"covered", "running"} =>
        /\ Wal(seg) \in DOMAIN Dir /\ Logged(seg, active)
        /\ \A n \in Ids("wal") : n <= seg
        /\ \A i \in DOMAIN frozen :
             /\ frozen[i].seg < seg
             /\ Wal(frozen[i].seg) \in DOMAIN Dir => Logged(frozen[i].seg, frozen[i].mt)
             /\ Younger(frozen[i].mt, active)
             /\ \A j \in DOMAIN frozen : i < j => Younger(frozen[i].mt, frozen[j].mt)
        /\ InMemory \subseteq acked /\ acked \subseteq InMemory \cup InTables
        /\ \A r \in acked : docID[r] <= alloc

KeptInv ==
    rotten = 0 =>
        /\ DocIDsApart /\ FilesApart /\ Loading /\ Filling /\ Serving /\ FlushedDurable
        /\ \A i \in DOMAIN dirs : Sound(dirs[i])
        /\ acked \subseteq InFiles(Dir)
=============================================================================
