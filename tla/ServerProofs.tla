---------------------------- MODULE ServerProofs -----------------------------
(***************************************************************************)
(* Proofs about module Server, for every number of tenants, requests and   *)
(* restarts, every limit and every fault of the disk.                      *)
(***************************************************************************)
EXTENDS Server, DurabilityProofs

-----------------------------------------------------------------------------
(* A server runs an engine                                                 *)

\* What an ingest request does to the engine is a step of Write.
LEMMA IngestIsWrite ==
    ASSUME NEW c \in Calls, Ingest(c)
    PROVE  WriteCall(c) \/ GateTimeout(c) \/ WriteStep(c)
  BY DEF Ingest, IngestStep, IngestTimeout, WriteStep

\* A worker of the server is one of the engine's.
LEMMA WorkerIsWorker == Worker => FreezeStep \/ FlushStep
  BY DEF Worker, Freezing, FreezeStep

\* Requests that read change nothing in the engine.
LEMMA ReadIsStill ==
    ASSUME NEW r \in Readers, AcceptRead(r) \/ ReadStep(r)
    PROVE  UNCHANGED vars /\ UNCHANGED <<http, reply>>
  BY DEF AcceptRead, ReadStep, CheckClosed, Snapshot, LookMemory, AnswerGet, OpenTables,
         ExhaustMemory, AnswerQuery

\* The steps of the process that touch nothing of the engine.
Passive ==
    (\E c \in Calls : AcceptIngest(c)) \/ Signal \/ Drained \/ DrainTimeout \/ ServeError

LEMMA PassiveIsStill == Passive => UNCHANGED <<vars, rd, seen>>
  BY DEF Passive, AcceptIngest, Signal, Drained, DrainTimeout, ServeError

LEMMA ServerStepIsEngineStep == [ServerNext]_serverVars => [Next]_vars
<1> SUFFICES ASSUME [ServerNext]_serverVars PROVE [Next]_vars
  OBVIOUS
<1>1. ASSUME NEW c \in Calls, Ingest(c) PROVE Next
  BY <1>1, IngestIsWrite DEF Next
<1>2. CASE Worker
  BY <1>2, WorkerIsWorker DEF Next
<1>3. CASE Start \/ CloseEngine \/ Exit
  BY <1>3 DEF Start, CloseEngine, Exit, Next
<1>4. CASE UNCHANGED serverVars
  BY <1>4 DEF serverVars
<1> QED
  BY <1>1, <1>2, <1>3, <1>4, ReadIsStill, PassiveIsStill DEF ServerNext, Passive

\* Every behaviour of the server is one of the engine: the requests, their
\* order and the shutdown around it add nothing the engine's own theorems
\* do not speak of.
THEOREM ServerRunsEngine == ServerSpec => Spec
<1>1. ServerInit => Init
  BY DEF ServerInit
<1> QED
  BY <1>1, ServerStepIsEngineStep, PTL DEF ServerSpec, Spec

EngineInv == TypeOK /\ OrderInv /\ PutReadable

LEMMA EngineAlways == ServerSpec => []EngineInv
<1>1. SafetyInv => EngineInv
  BY DEF SafetyInv, EngineInv
<1> QED
  BY <1>1, ServerRunsEngine, Safety, PTL

-----------------------------------------------------------------------------
(* Answers                                                                 *)

Replies == {"none", "pending", "200", "429", "500", "503", "dropped"}

HttpInv ==
    /\ http \in {"off", "serving", "draining", "returned"}
    /\ (http = "off") <=> (status = "down")
    /\ reply \in [Calls -> Replies]

\* What an ingest request may do to the answers.
LEMMA IngestAnswers ==
    ASSUME NEW c \in Calls, Ingest(c)
    PROVE  reply' = reply \/ \E code \in Replies \ {"pending"} : Answer(c, code)
<1>1. \A e : ErrorCode(e) \in Replies \ {"pending"}
  BY DEF ErrorCode, Replies
<1>2. {"dropped", "200"} \subseteq Replies \ {"pending"}
  BY DEF Replies
<1> QED
  BY <1>1, <1>2 DEF Ingest, IngestStep, IngestTimeout

\* What the engine's steps other than Open, Stop and Close do to its status.
LEMMA StatusKept ==
    /\ \A c \in Calls : Ingest(c) => status' = status
    /\ Worker => status' = status
<1>1. ASSUME NEW c \in Calls, Ingest(c) PROVE status' = status
  BY <1>1, IngestIsWrite, WriteFrame
<1>2. ASSUME Worker PROVE status' = status
  <2>1. CASE FreezeStep
    BY <2>1, FreezeFrame DEF FreezeRotate
  <2>2. CASE FlushStep
    BY <2>2 DEF FlushStep, FlushReceive, FlushNothing, FlushSnapshot, FlushWrite, FlushFail,
         FlushRetry, FlushSwap, FlushDelete, FlushSignal, FlushFatal, FlushExit, memory
  <2> QED
    BY <1>2, <2>1, <2>2, WorkerIsWorker
<1> QED
  BY <1>1, <1>2

LEMMA HttpStep == HttpInv /\ [ServerNext]_serverVars => HttpInv'
<1> SUFFICES ASSUME HttpInv, [ServerNext]_serverVars PROVE HttpInv'
  OBVIOUS
<1>1. ASSUME NEW c \in Calls, Ingest(c) PROVE HttpInv'
  <2>1. reply' \in [Calls -> Replies]
    BY <1>1, IngestAnswers DEF Answer, HttpInv
  <2> QED
    BY <1>1, <2>1, StatusKept DEF Ingest, IngestStep, IngestTimeout, HttpInv
<1>2. CASE Worker
  BY <1>2, StatusKept DEF Worker, Same, HttpInv
<1>3. CASE Start
  BY <1>3 DEF Start, Open, HttpInv
<1>4. CASE CloseEngine
  BY <1>4 DEF CloseEngine, CloseBegin, CloseFinish, Same, HttpInv
<1>5. CASE Exit
  <2>1. reply' \in [Calls -> Replies]
    <3>1. "dropped" \in Replies
      BY DEF Replies
    <3> QED
      BY <1>5, <3>1 DEF Exit, HttpInv
  <2> QED
    BY <1>5, <2>1 DEF Exit, Stop, HttpInv
<1>6. CASE Passive
  <2>1. status' = status
    BY <1>6, PassiveIsStill DEF vars, memory
  <2>2. reply' \in [Calls -> Replies]
    <3>1. "pending" \in Replies
      BY DEF Replies
    <3> QED
      BY <1>6, <3>1 DEF Passive, AcceptIngest, Answer, Signal, Drained, DrainTimeout, ServeError,
           HttpInv
  <2> QED
    BY <1>6, <2>1, <2>2 DEF Passive, AcceptIngest, Signal, Drained, DrainTimeout, ServeError, HttpInv
<1>7. ASSUME NEW r \in Readers, AcceptRead(r) \/ ReadStep(r) PROVE HttpInv'
  BY <1>7, ReadIsStill DEF vars, memory, HttpInv
<1>8. CASE UNCHANGED serverVars
  BY <1>8 DEF serverVars, requests, vars, memory, HttpInv
<1> QED
  BY <1>1, <1>2, <1>3, <1>4, <1>5, <1>6, <1>7, <1>8 DEF ServerNext, Passive

LEMMA HttpAlways == ServerSpec => []HttpInv
<1>1. ServerInit => HttpInv
  <2>1. "none" \in Replies
    BY DEF Replies
  <2> QED
    BY <2>1 DEF ServerInit, Init, HttpInv
<1> QED
  BY <1>1, HttpStep, PTL DEF ServerSpec

-----------------------------------------------------------------------------
(* What a read refers to                                                   *)

ReadRecords ==
    [pc : {"idle", "check", "locking", "memory", "files", "tables", "merge", "done", "dead"},
     kind : {"get", "query"}, tenant : Tenants \cup {"none"},
     want : SUBSET Calls, must : SUBSET Calls, own : Nat, frozen : SUBSET Calls,
     tabs : SUBSET Nat, got : SUBSET Calls,
     code : {"none", "200", "400", "404", "500", "503"}]

ReadsTyped == rd \in [Readers -> ReadRecords] /\ seen \subseteq Calls

InTables(r) == UNION {sst[t] : t \in rd[r].tabs}

Others(r) == \A q \in Readers \ {r} : rd'[q] = rd[q]

\* A step of read r that leaves what it asks for and has found so far.
Asks(r) ==
    /\ rd'[r].kind = rd[r].kind /\ rd'[r].tenant = rd[r].tenant
    /\ rd'[r].want = rd[r].want /\ rd'[r].must = rd[r].must /\ rd'[r].code = rd[r].code

LEMMA Replaced ==
    ASSUME ReadsTyped, NEW r \in Readers, NEW v \in ReadRecords, rd' = [rd EXCEPT ![r] = v],
           seen' = seen
    PROVE  ReadsTyped' /\ Others(r) /\ rd'[r] = v
  BY DEF ReadsTyped, Others

\* The steps of a read, field by field.
LEMMA AcceptReadIs ==
    ASSUME ReadsTyped, NEW r \in Readers, AcceptRead(r)
    PROVE  /\ ReadsTyped' /\ Others(r) /\ seen' = seen /\ http = "serving"
           /\ rd'[r].pc \in {"check", "locking"}
           /\ rd'[r].must = Expected \cap rd'[r].want
           /\ rd'[r].kind = "get" => \E x : rd'[r].want = {x}
           /\ rd'[r].own = 0 /\ rd'[r].frozen = {} /\ rd'[r].tabs = {}
           /\ rd'[r].got = {} /\ rd'[r].code = "none"
<1>1. PICK t \in Tenants, kind \in Kinds, want \in {Calls} \cup {{c} : c \in {d \in Calls : docID[d] # 0}} :
            /\ (kind = "query") <=> (want = Calls)
            /\ rd' = [rd EXCEPT ![r] =
                       [Unread EXCEPT !.pc = IF kind = "get" THEN "locking" ELSE "check",
                                      !.kind = kind, !.tenant = t, !.want = want,
                                      !.must = Expected \cap want]]
  BY DEF AcceptRead
<1>2. want \subseteq Calls /\ Expected \cap want \subseteq Calls
  BY <1>1
<1>3. kind \in {"get", "query"}
  BY KindsAssumption
<1>4. kind = "get" => \E x : want = {x}
  BY <1>1
<1> HIDE DEF Expected
<1>5. rd'[r] = [pc |-> IF kind = "get" THEN "locking" ELSE "check", kind |-> kind,
                tenant |-> t, want |-> want, must |-> Expected \cap want, own |-> 0,
                frozen |-> {}, tabs |-> {}, got |-> {}, code |-> "none"]
  BY <1>1 DEF ReadsTyped, Unread
<1>6. rd'[r] \in ReadRecords
  BY <1>2, <1>3, <1>5 DEF ReadRecords
<1>7. ReadsTyped' /\ Others(r) /\ seen' = seen /\ http = "serving"
  BY <1>1, <1>6 DEF ReadsTyped, Others, AcceptRead
<1>8. /\ rd'[r].pc \in {"check", "locking"} /\ rd'[r].kind = kind /\ rd'[r].want = want
      /\ rd'[r].must = Expected \cap want
      /\ rd'[r].own = 0 /\ rd'[r].frozen = {} /\ rd'[r].tabs = {}
      /\ rd'[r].got = {} /\ rd'[r].code = "none"
  BY <1>5
<1> QED
  BY <1>4, <1>7, <1>8

LEMMA FinishIs ==
    ASSUME ReadsTyped, NEW r \in Readers, NEW code \in {"200", "400", "404", "500", "503"},
           NEW got \in SUBSET Calls, Finish(r, code, got)
    PROVE  /\ ReadsTyped' /\ Others(r) /\ seen' = seen \cup got
           /\ rd'[r].pc = "done" /\ rd'[r].own = 0 /\ rd'[r].tabs = {}
           /\ rd'[r].tenant = rd[r].tenant /\ rd'[r].must = OwnOnly(r, rd[r].must)
           /\ rd'[r].got = got /\ rd'[r].code = code
<1>1. rd[r].tenant \in Tenants \cup {"none"} /\ OwnOnly(r, rd[r].must) \subseteq Calls
  BY DEF ReadsTyped, ReadRecords, OwnOnly
<1> HIDE DEF OwnOnly
<1>2. rd'[r] = [pc |-> "done", kind |-> "get", tenant |-> rd[r].tenant, want |-> {},
                must |-> OwnOnly(r, rd[r].must), own |-> 0, frozen |-> {}, tabs |-> {},
                got |-> got, code |-> code]
  BY DEF ReadsTyped, Finish, Unread
<1>3. rd'[r] \in ReadRecords
  BY <1>1, <1>2 DEF ReadRecords
<1> QED
  BY <1>2, <1>3 DEF ReadsTyped, Others, Finish

LEMMA SnapshotIs ==
    ASSUME ReadsTyped, TypeOK, NEW r \in Readers, Snapshot(r)
    PROVE  /\ ReadsTyped' /\ Others(r) /\ Asks(r) /\ seen' = seen
           /\ rd[r].pc = "locking" /\ rd'[r].pc = "memory" /\ rd'[r].got = rd[r].got
           /\ rd'[r].own = seg /\ rd'[r].frozen = FrozenRecords /\ rd'[r].tabs = tables
<1> DEFINE v == [rd[r] EXCEPT !.pc = "memory", !.own = seg,
                              !.frozen = FrozenRecords, !.tabs = tables]
<1>1. seg \in Nat /\ tables \subseteq Nat /\ FrozenRecords \subseteq Calls
  BY FrozenType DEF TypeOK, MemoryTypeOK, DiskTypeOK, FrozenRecords
<1>2. rd[r] \in ReadRecords /\ rd[r].pc = "locking" /\ seen' = seen
  BY DEF ReadsTyped, Snapshot
<1>3. rd' = [rd EXCEPT ![r] = v]
  BY DEF Snapshot, ReadsTyped, ReadRecords
<1>4. /\ v \in ReadRecords /\ v.pc = "memory" /\ v.got = rd[r].got
      /\ v.own = seg /\ v.frozen = FrozenRecords /\ v.tabs = tables
      /\ v.kind = rd[r].kind /\ v.tenant = rd[r].tenant
      /\ v.want = rd[r].want /\ v.must = rd[r].must /\ v.code = rd[r].code
  BY <1>1, <1>2 DEF ReadRecords
<1> HIDE DEF v
<1> QED
  BY <1>2, <1>3, <1>4, Replaced DEF Asks

LEMMA LookMemoryIs ==
    ASSUME ReadsTyped, NEW r \in Readers, LookMemory(r)
    PROVE  /\ ReadsTyped' /\ Others(r) /\ Asks(r) /\ seen' = seen
           /\ rd[r].pc = "memory"
           /\ rd'[r].pc \in {"tables", "files"}
           /\ rd'[r].pc = "files" => rd[r].kind = "get"
           /\ rd'[r].own \in {0, rd[r].own} /\ rd'[r].frozen = {} /\ rd'[r].tabs = rd[r].tabs
           /\ rd'[r].got = rd[r].want \cap (RecordsOf(rd[r].own) \cup rd[r].frozen)
<1> DEFINE found == rd[r].want \cap (RecordsOf(rd[r].own) \cup rd[r].frozen)
           next == IF rd[r].kind = "query" THEN "tables" ELSE "files"
           own == IF rd[r].kind = "query" /\ RecordsOf(rd[r].own) # {} THEN rd[r].own ELSE 0
           v == [rd[r] EXCEPT !.pc = next, !.own = own, !.frozen = {}, !.got = found]
<1>1. rd[r] \in ReadRecords /\ rd[r].pc = "memory" /\ seen' = seen
  BY DEF ReadsTyped, LookMemory
<1>2. found \subseteq Calls /\ own \in Nat /\ own \in {0, rd[r].own}
  BY <1>1 DEF ReadRecords
<1>3. next \in {"tables", "files"} /\ (next = "files" => rd[r].kind = "get")
  BY <1>1 DEF ReadRecords
<1>4. rd' = [rd EXCEPT ![r] = v]
  BY DEF LookMemory, ReadsTyped, ReadRecords
<1> HIDE DEF found, next, own
<1>5. /\ v \in ReadRecords /\ v.pc = next /\ v.got = found
      /\ v.own = own /\ v.frozen = {} /\ v.tabs = rd[r].tabs
      /\ v.kind = rd[r].kind /\ v.tenant = rd[r].tenant
      /\ v.want = rd[r].want /\ v.must = rd[r].must /\ v.code = rd[r].code
  BY <1>1, <1>2, <1>3 DEF ReadRecords
<1> HIDE DEF v
<1>6. ReadsTyped' /\ Others(r) /\ rd'[r] = v
  BY <1>1, <1>4, <1>5, Replaced
<1> QED
  BY <1>1, <1>2, <1>3, <1>5, <1>6 DEF Asks, found

LEMMA OpenTablesIs ==
    ASSUME ReadsTyped, NEW r \in Readers, OpenTables(r) \/ ExhaustMemory(r)
    PROVE  /\ ReadsTyped' /\ Others(r) /\ Asks(r) /\ seen' = seen
           /\ rd[r].pc \in {"tables", "merge"} /\ rd'[r].pc = "merge"
           /\ rd'[r].got = rd[r].got /\ rd'[r].own \in {0, rd[r].own}
           /\ rd'[r].tabs = rd[r].tabs \/ (~FilesOpen /\ rd'[r].tabs = {})
<1> DEFINE v(own, tabs) == [rd[r] EXCEPT !.pc = "merge", !.own = own, !.tabs = tabs]
<1>1. rd[r] \in ReadRecords /\ rd[r].pc \in {"tables", "merge"} /\ seen' = seen
  BY DEF ReadsTyped, OpenTables, ExhaustMemory
<1>2. PICK own \in {0, rd[r].own}, tabs \in {rd[r].tabs, {}} :
        /\ rd' = [rd EXCEPT ![r] = v(own, tabs)]
        /\ tabs = rd[r].tabs \/ ~FilesOpen
  <2>1. CASE OpenTables(r)
    <3>1. rd' = [rd EXCEPT ![r] = v(rd[r].own, IF FilesOpen THEN rd[r].tabs ELSE {})]
      BY <2>1 DEF ReadsTyped, ReadRecords, OpenTables
    <3> QED
      BY <3>1
  <2>2. CASE ExhaustMemory(r)
    <3>1. rd' = [rd EXCEPT ![r] = v(0, rd[r].tabs)]
      BY <2>2 DEF ReadsTyped, ReadRecords, ExhaustMemory
    <3> QED
      BY <3>1
  <2> QED
    BY <2>1, <2>2
<1>3. own \in Nat /\ tabs \in SUBSET Nat
  BY <1>1 DEF ReadRecords
<1>4. /\ v(own, tabs) \in ReadRecords /\ v(own, tabs).pc = "merge"
      /\ v(own, tabs).own = own /\ v(own, tabs).tabs = tabs
      /\ v(own, tabs).got = rd[r].got
      /\ v(own, tabs).kind = rd[r].kind /\ v(own, tabs).tenant = rd[r].tenant
      /\ v(own, tabs).want = rd[r].want /\ v(own, tabs).must = rd[r].must
      /\ v(own, tabs).code = rd[r].code
  BY <1>1, <1>3 DEF ReadRecords
<1> HIDE DEF v
<1>5. ReadsTyped' /\ Others(r) /\ rd'[r] = v(own, tabs)
  BY <1>1, <1>2, <1>4, Replaced
<1> QED
  BY <1>1, <1>2, <1>4, <1>5 DEF Asks

LEMMA CheckClosedIs ==
    ASSUME ReadsTyped, NEW r \in Readers, CheckClosed(r), status = "running"
    PROVE  /\ ReadsTyped' /\ Others(r) /\ Asks(r) /\ seen' = seen
           /\ rd[r].pc = "check" /\ rd'[r].pc = "locking" /\ rd'[r].got = rd[r].got
           /\ rd'[r].own = rd[r].own /\ rd'[r].tabs = rd[r].tabs
  BY DEF ReadsTyped, ReadRecords, CheckClosed, Others, Asks

-----------------------------------------------------------------------------
(* What the engine does under a read                                       *)

\* No segment has the id 0, which stands for "none" in a read.
SegmentsAreNumbered == 0 \notin DOMAIN wal

LEMMA NumberedStep == TypeOK /\ OrderInv /\ SegmentsAreNumbered /\ [Next]_vars => SegmentsAreNumbered'
<1> SUFFICES ASSUME TypeOK, OrderInv, SegmentsAreNumbered, [Next]_vars PROVE SegmentsAreNumbered'
  OBVIOUS
<1> USE DEF SegmentsAreNumbered
<1>1. ASSUME NEW c \in Calls, WriteCall(c) \/ GateTimeout(c) \/ WriteStep(c)
      PROVE  DOMAIN wal' = DOMAIN wal
  BY <1>1, WriteFrame
<1>2. CASE FreezeStep
  <2>1. CASE FreezeRotate
    BY <2>1 DEF FreezeRotate, With, TypeOK, MemoryTypeOK
  <2> QED
    BY <1>2, <2>1, FreezeFrame
<1>3. CASE FlushStep
  <2>1. CASE FlushDelete
    BY <2>1 DEF FlushDelete, Without
  <2>2. CASE ~FlushDelete
    BY <1>3, <2>2 DEF FlushStep, FlushReceive, FlushNothing, FlushSnapshot, FlushWrite, FlushFail,
         FlushRetry, FlushSwap, FlushSignal, FlushFatal, FlushExit, disk
  <2> QED
    BY <2>1, <2>2
<1>4. CASE Open
  BY <1>4 DEF Open, Segments
<1>5. CASE Stop
  <2>1. CASE UNCHANGED wal
    BY <2>1
  <2>2. CASE LogAfter(<<Torn>>)
    BY <2>2, LogAfterIs
  <2> QED
    BY <1>5, <2>1, <2>2 DEF Stop
<1>6. CASE CloseBegin \/ CloseFinish \/ \E i \in DOMAIN sst : Damage(i)
  BY <1>6 DEF CloseBegin, CloseFinish, Damage, disk
<1>7. CASE UNCHANGED vars
  BY <1>7 DEF vars, disk
<1> QED
  BY <1>1, <1>2, <1>3, <1>4, <1>5, <1>6, <1>7 DEF Next

\* While the process is up an SSTable never changes, and the active MemTable
\* grows until it is rotated away.
LEMMA WhileUp ==
    ASSUME TypeOK, OrderInv, [Next]_vars, status # "down", status' # "down"
    PROVE  /\ \A t \in DOMAIN sst : t \in DOMAIN sst' /\ sst'[t] = sst[t]
           /\ \/ seg' = seg /\ active \subseteq active'
              \/ seg' = seg + 1
<1>1. ASSUME NEW c \in Calls, WriteCall(c) \/ GateTimeout(c) \/ WriteStep(c)
      PROVE  seg' = seg /\ active \subseteq active' /\ sst' = sst
  BY <1>1, WriteFrame, WriteEffect
<1>2. CASE FreezeStep
  <2>1. CASE FreezeRotate
    BY <2>1 DEF FreezeRotate, files
  <2> QED
    BY <1>2, <2>1, FreezeFrame
<1>3. CASE FlushStep
  <2>1. seg' = seg /\ active' = active
    BY <1>3 DEF FlushStep, FlushReceive, FlushNothing, FlushSnapshot, FlushWrite, FlushFail,
         FlushRetry, FlushSwap, FlushDelete, FlushSignal, FlushFatal, FlushExit, memory
  <2>2. CASE sst' = sst
    BY <2>1, <2>2
  <2>3. CASE sst' # sst
    <3>1. sst' = With(sst, nextSST + 1, fl.mt) /\ nextSST' = nextSST + 1
      BY <1>3, <2>3 DEF FlushStep, FlushReceive, FlushNothing, FlushSnapshot, FlushWrite, FlushFail,
         FlushRetry, FlushSwap, FlushDelete, FlushSignal, FlushFatal, FlushExit, disk
    <3> QED
      BY <2>1, <3>1, NewTableIsNew
  <2> QED
    BY <2>2, <2>3
<1>4. CASE CloseBegin \/ CloseFinish
  BY <1>4 DEF CloseBegin, CloseFinish, disk
<1>5. ~Open /\ ~Stop /\ ~ \E i \in DOMAIN sst : Damage(i)
  BY DEF Open, Stop, Damage
<1>6. CASE UNCHANGED vars
  BY <1>6 DEF vars, disk, memory
<1> QED
  BY <1>1, <1>2, <1>3, <1>4, <1>5, <1>6 DEF Next

-----------------------------------------------------------------------------
(* A read misses nothing it owes                                           *)

\* The tables and the MemTable a read refers to exist.
Refers(r) ==
    /\ rd[r].tabs \subseteq DOMAIN sst
    /\ rd[r].own # 0 => rd[r].own <= seg /\ (rd[r].own = seg \/ rd[r].own \in DOMAIN rotated)
    /\ rd[r].pc = "memory" => rd[r].own # 0

InMemory(r) == IF rd[r].pc = "memory" THEN RecordsOf(rd[r].own) \cup rd[r].frozen ELSE {}

\* What read r has found, or will find where it is going to look.
Held(r) == InMemory(r) \cup rd[r].got \cup InTables(r)

\* It holds what it owes, and nothing a later read could not find.
Finds(r) ==
    /\ Held(r) \subseteq Visible
    /\ rd[r].pc \in {"check", "locking"} => rd[r].must \subseteq Visible
    /\ rd[r].pc \notin {"check", "locking"} => rd[r].must \subseteq Held(r)

\* A read in progress asks for something and is not answered.
Shape(r) ==
    /\ rd[r].must \subseteq rd[r].want /\ rd[r].got \subseteq rd[r].want
    /\ rd[r].kind = "get" => \E x : rd[r].want = {x}
    /\ rd[r].pc = "files" => rd[r].kind = "get"
    /\ rd[r].pc \in {"check", "locking", "memory"} => rd[r].got = {}
    /\ rd[r].code = "none"

Excused == status \in {"closed", "down"}

Answered(r) ==
    /\ rd[r].code = "404" => Owed(r) = {} \/ Excused
    /\ rd[r].code = "200" =>
            /\ Owed(r) \subseteq rd[r].got \/ Excused
            /\ \A c \in rd[r].got : Owner[c] = rd[r].tenant

NoReadsWhenDown ==
    status = "down" =>
        /\ seen = {}
        /\ \A r \in Readers : rd[r].code = "none" /\ ~Reading(r) /\ rd[r].own = 0 /\ rd[r].tabs = {}

ReadInv(r) ==
    /\ Refers(r) /\ (Reading(r) => Shape(r)) /\ Answered(r)
    /\ Serving /\ Reading(r) => Finds(r)

ReadsInv ==
    /\ ReadsTyped /\ SegmentsAreNumbered /\ NoReadsWhenDown
    /\ \A r \in Readers : ReadInv(r)
    /\ Serving => seen \subseteq Visible

\* The MemTable a read refers to keeps its records, active or not.
LEMMA OwnKept ==
    ASSUME ReadsTyped, TypeOK, OrderInv, SegmentsAreNumbered, [Next]_vars, KeepReferenced,
           status # "down", status' # "down",
           NEW r \in Readers, rd[r].own # 0, Refers(r), rd'[r].own = rd[r].own
    PROVE  /\ rd[r].own <= seg' /\ (rd[r].own = seg' \/ rd[r].own \in DOMAIN rotated')
           /\ RecordsOf(rd[r].own) \subseteq RecordsOf(rd[r].own)'
           /\ \/ RecordsOf(rd[r].own)' = RecordsOf(rd[r].own)
              \/ RecordsOf(rd[r].own)' = active'
<1> DEFINE m == rd[r].own
<1>1. m \in Nat /\ m <= seg /\ seg \in Nat /\ m # 0
  BY DEF ReadsTyped, ReadRecords, Refers, TypeOK, MemoryTypeOK
<1>2. (seg' = seg /\ active \subseteq active') \/ seg' = seg + 1
  BY WhileUp
<1>3. m # seg' => m \in DOMAIN rotated' /\ rotated'[m] = RecordsOf(m)
  <2>1. m # seg' => m \in {rd'[q].own : q \in Readers} \ {0, seg'}
    BY <1>1
  <2> QED
    BY <2>1 DEF KeepReferenced
<1>4. CASE m = seg'
  <2>1. seg' = seg /\ active \subseteq active'
    BY <1>1, <1>2, <1>4
  <2> QED
    BY <1>1, <1>4, <2>1 DEF RecordsOf
<1>5. CASE m # seg'
  <2>1. RecordsOf(m)' = rotated'[m]
    BY <1>5 DEF RecordsOf
  <2> QED
    BY <1>1, <1>2, <1>3, <1>5, <2>1
<1> QED
  BY <1>4, <1>5

\* Close is for good.
LEMMA StillClosed ==
    ASSUME [Next]_vars, status # "down", status' # "down", status = "closed"
    PROVE  status' = "closed"
<1>1. ASSUME NEW c \in Calls, WriteCall(c) \/ GateTimeout(c) \/ WriteStep(c)
      PROVE  status' = status
  BY <1>1, WriteFrame
<1>2. CASE FreezeStep
  BY <1>2, FreezeFrame DEF FreezeRotate
<1>3. CASE FlushStep
  BY <1>3 DEF FlushStep, FlushReceive, FlushNothing, FlushSnapshot, FlushWrite, FlushFail,
       FlushRetry, FlushSwap, FlushDelete, FlushSignal, FlushFatal, FlushExit, memory
<1>4. CASE CloseBegin \/ CloseFinish
  BY <1>4 DEF CloseBegin, CloseFinish
<1>5. ~Open /\ ~Stop /\ ~ \E i \in DOMAIN sst : Damage(i)
  BY DEF Open, Stop, Damage
<1> QED
  BY <1>1, <1>2, <1>3, <1>4, <1>5 DEF Next, vars, memory

\* A step of somebody else, while the process is up.
LEMMA ReadCarried ==
    ASSUME ReadsTyped, TypeOK, OrderInv, SegmentsAreNumbered, [Next]_vars, KeepReferenced,
           status # "down", status' # "down",
           NEW r \in Readers, ReadInv(r), rd'[r] = rd[r]
    PROVE  ReadInv(r)'
<1>1. /\ \A t \in DOMAIN sst : t \in DOMAIN sst' /\ sst'[t] = sst[t]
      /\ rd[r].tabs \subseteq DOMAIN sst
  BY WhileUp DEF ReadInv, Refers
<1>2. InTables(r)' = InTables(r)
  BY <1>1 DEF InTables
<1>3. Refers(r)'
  BY <1>1, OwnKept DEF ReadInv, Refers
<1>4. status \in {"running", "closing", "closed"} /\ (status = "closed" => status' = "closed")
  <2>1. status \in {"down", "running", "closing", "closed"}
    BY DEF TypeOK, MemoryTypeOK
  <2>2. status = "closed" => status' = "closed"
    BY StillClosed
  <2> QED
    BY <2>1, <2>2
<1>5. Answered(r)'
  BY <1>4 DEF ReadInv, Answered, Excused, Owed, OwnOnly
<1>6. ASSUME Serving', Reading(r) PROVE Finds(r)'
  <2>1. Serving /\ Visible \subseteq Visible' /\ Finds(r)
    BY <1>4, <1>6, VisibleGrows DEF Serving, ReadInv
  <2>2. InMemory(r) \subseteq InMemory(r)' /\ InMemory(r)' \subseteq Visible'
    <3>1. CASE rd[r].pc = "memory"
      <4>1. rd[r].own # 0 /\ Refers(r)
        BY <3>1 DEF ReadInv, Refers
      <4>2. active' \subseteq Visible' /\ RecordsOf(rd[r].own) \cup rd[r].frozen \subseteq Visible
        BY <2>1, <3>1 DEF Visible, Finds, Held, InMemory
      <4> QED
        BY <2>1, <3>1, <4>1, <4>2, OwnKept DEF InMemory
    <3>2. CASE rd[r].pc # "memory"
      BY <3>2 DEF InMemory
    <3> QED
      BY <3>1, <3>2
  <2> QED
    BY <1>2, <2>1, <2>2 DEF Finds, Held
<1>7. Reading(r)' = Reading(r) /\ (Shape(r) => Shape(r)')
  BY DEF Reading, Shape
<1> QED
  BY <1>3, <1>5, <1>6, <1>7 DEF ReadInv

\* A finished read: it refers to nothing more.
LEMMA FinishKeeps ==
    ASSUME ReadsTyped, NEW r \in Readers, NEW code \in {"200", "400", "404", "500", "503"},
           NEW got \in SUBSET Calls, Finish(r, code, got), UNCHANGED vars,
           Serving => got \subseteq Visible /\ seen \subseteq Visible,
           code = "404" => OwnOnly(r, rd[r].must) = {} \/ Excused,
           code = "200" => /\ OwnOnly(r, rd[r].must) \subseteq got \/ Excused
                           /\ \A c \in got : Owner[c] = rd[r].tenant
    PROVE  ReadsTyped' /\ Others(r) /\ ReadInv(r)' /\ (Serving' => seen' \subseteq Visible')
<1>1. Visible' = Visible /\ Serving' = Serving /\ Excused' = Excused
  BY DEF vars, disk, memory, Visible, FrozenRecords, Serving, Excused
<1>2. /\ ReadsTyped' /\ Others(r) /\ seen' = seen \cup got
      /\ rd'[r].pc = "done" /\ rd'[r].own = 0 /\ rd'[r].tabs = {}
      /\ rd'[r].tenant = rd[r].tenant /\ rd'[r].must = OwnOnly(r, rd[r].must)
      /\ rd'[r].got = got /\ rd'[r].code = code
  BY FinishIs
<1>3. Owed(r)' = OwnOnly(r, rd[r].must)
  BY <1>2 DEF Owed, OwnOnly
<1>4. Answered(r)'
  BY <1>1, <1>2, <1>3 DEF Answered
<1>5. ~Reading(r)' /\ Refers(r)'
  BY <1>2 DEF Reading, Refers
<1> QED
  BY <1>1, <1>2, <1>4, <1>5 DEF ReadInv

\* The tables that hold what a point read asks for are enough.
LEMMA HoldingIs ==
    ASSUME NEW r \in Readers
    PROVE  rd[r].want \cap UNION {sst[t] : t \in Holding(r)} = rd[r].want \cap InTables(r)
  BY DEF InTables, Holding

\* A step of read r keeps what it owes in sight.
LEMMA ReadMoves ==
    ASSUME EngineInv, HttpInv, ReadsInv, NEW r \in Readers, AcceptRead(r) \/ ReadStep(r),
           KeepReferenced
    PROVE  ReadsTyped' /\ Others(r) /\ ReadInv(r)' /\ (Serving' => seen' \subseteq Visible')
<1>1. UNCHANGED vars /\ http' = http
  BY ReadIsStill
<1>2. /\ Visible' = Visible /\ Serving' = Serving /\ Excused' = Excused
      /\ sst' = sst /\ seg' = seg /\ active' = active /\ status' = status
  BY <1>1 DEF vars, disk, memory, Visible, FrozenRecords, Serving, Excused
<1>3. status # "down"
  <2>1. CASE AcceptRead(r)
    BY <2>1 DEF AcceptRead, HttpInv
  <2>2. CASE ReadStep(r)
    <3>1. Reading(r)
      BY <2>2 DEF Reading, ReadStep, CheckClosed, Snapshot, LookMemory, AnswerGet, OpenTables,
         ExhaustMemory, AnswerQuery
    <3> QED
      BY <3>1 DEF ReadsInv, NoReadsWhenDown
  <2> QED
    BY <2>1, <2>2
<1>4. /\ ReadsTyped /\ SegmentsAreNumbered /\ ReadInv(r)
      /\ Serving => seen \subseteq Visible
      /\ TypeOK /\ OrderInv /\ PutReadable /\ [Next]_vars
  BY <1>1 DEF ReadsInv, EngineInv
<1>5. Serving \/ Excused
  BY <1>4 DEF TypeOK, MemoryTypeOK, Serving, Excused
<1>6. rd[r] \in ReadRecords /\ UNION {sst[t] : t \in DOMAIN sst} \subseteq Calls
  BY <1>4 DEF ReadsTyped, TypeOK, DiskTypeOK
<1>7. InTables(r) \subseteq Calls
  BY <1>4, <1>6 DEF ReadInv, Refers, InTables
<1>8. CASE AcceptRead(r)
  <2>1. /\ ReadsTyped' /\ Others(r) /\ seen' = seen /\ http = "serving"
        /\ rd'[r].pc \in {"check", "locking"}
        /\ rd'[r].must = Expected \cap rd'[r].want
        /\ rd'[r].kind = "get" => \E x : rd'[r].want = {x}
        /\ rd'[r].own = 0 /\ rd'[r].tabs = {}
        /\ rd'[r].got = {} /\ rd'[r].code = "none"
    BY <1>4, <1>8, AcceptReadIs
  <2>2. Serving => Expected \subseteq Visible
    BY <1>4 DEF Expected, PutReadable
  <2>3. Shape(r)' /\ Refers(r)' /\ Answered(r)'
    BY <2>1 DEF Shape, Refers, Answered
  <2>4. Held(r)' = {}
    BY <2>1 DEF Held, InMemory, InTables
  <2>5. Serving => Finds(r)'
    BY <1>2, <2>1, <2>2, <2>4 DEF Finds
  <2> QED
    BY <1>2, <1>4, <2>1, <2>3, <2>5 DEF ReadInv
<1>9. CASE CheckClosed(r)
  <2>1. CASE status = "running"
    <3>1. /\ ReadsTyped' /\ Others(r) /\ Asks(r) /\ seen' = seen
          /\ rd[r].pc = "check" /\ rd'[r].pc = "locking" /\ rd'[r].got = rd[r].got
          /\ rd'[r].own = rd[r].own /\ rd'[r].tabs = rd[r].tabs
      BY <1>4, <1>9, <2>1, CheckClosedIs
    <3>2. Reading(r) /\ Shape(r) /\ Refers(r)
      BY <1>4, <3>1 DEF Reading, ReadInv
    <3>3. Shape(r)' /\ Answered(r)'
      BY <3>1, <3>2 DEF Asks, Shape, Answered
    <3>4. Refers(r)'
      BY <1>2, <1>3, <1>4, <3>1, <3>2, OwnKept DEF Refers
    <3>5. Held(r)' = Held(r)
      BY <1>2, <3>1 DEF Held, InMemory, InTables
    <3>6. Serving => Finds(r)'
      BY <1>2, <1>4, <3>1, <3>2, <3>5 DEF ReadInv, Finds, Asks
    <3> QED
      BY <1>2, <1>4, <3>1, <3>3, <3>4, <3>6 DEF ReadInv
  <2>2. CASE status # "running"
    <3>1. Finish(r, "503", {})
      BY <1>9, <2>2 DEF CheckClosed
    <3> QED
      BY <1>1, <1>4, <3>1, FinishKeeps
  <2> QED
    BY <2>1, <2>2
<1>10. CASE Snapshot(r)
  <2>1. /\ ReadsTyped' /\ Others(r) /\ Asks(r) /\ seen' = seen
        /\ rd[r].pc = "locking" /\ rd'[r].pc = "memory" /\ rd'[r].got = rd[r].got
        /\ rd'[r].own = seg /\ rd'[r].frozen = FrozenRecords /\ rd'[r].tabs = tables
    BY <1>4, <1>10, SnapshotIs
  <2>2. Reading(r) /\ Shape(r)
    BY <1>4, <2>1 DEF Reading, ReadInv
  <2>3. Shape(r)' /\ Answered(r)'
    BY <2>1, <2>2 DEF Asks, Shape, Answered
  <2>4. seg # 0 /\ seg \in Nat
    BY <1>3, <1>4 DEF OrderInv, ActiveIsNewest, SegmentsAreNumbered, TypeOK, MemoryTypeOK
  <2>5. Refers(r)'
    BY <1>2, <1>4, <2>1, <2>4 DEF Refers, TypeOK, DiskTypeOK
  <2>6. InMemory(r)' = active \cup FrozenRecords
    BY <1>2, <2>1 DEF InMemory, RecordsOf
  <2>7. InTables(r)' = UNION {sst[t] : t \in tables}
    BY <1>2, <2>1 DEF InTables
  <2>8. Held(r)' = Visible \cup rd[r].got
    BY <2>1, <2>6, <2>7 DEF Held, Visible
  <2>9. Serving => Finds(r)'
    BY <1>2, <1>4, <2>1, <2>2, <2>8 DEF ReadInv, Finds, Asks, Held
  <2> QED
    BY <1>2, <1>4, <2>1, <2>3, <2>5, <2>9 DEF ReadInv
<1>11. CASE LookMemory(r)
  <2>1. /\ ReadsTyped' /\ Others(r) /\ Asks(r) /\ seen' = seen
        /\ rd[r].pc = "memory" /\ rd'[r].pc \in {"tables", "files"}
        /\ rd'[r].pc = "files" => rd[r].kind = "get"
        /\ rd'[r].own \in {0, rd[r].own} /\ rd'[r].tabs = rd[r].tabs
        /\ rd'[r].got = rd[r].want \cap (RecordsOf(rd[r].own) \cup rd[r].frozen)
    BY <1>4, <1>11, LookMemoryIs
  <2>2. Reading(r) /\ Shape(r) /\ Refers(r)
    BY <1>4, <2>1 DEF Reading, ReadInv
  <2>3. Shape(r)' /\ Answered(r)'
    BY <2>1, <2>2 DEF Asks, Shape, Answered
  <2>4. Refers(r)'
    BY <1>2, <1>3, <1>4, <2>1, <2>2, OwnKept DEF Refers
  <2>5. InMemory(r) = RecordsOf(rd[r].own) \cup rd[r].frozen /\ InMemory(r)' = {}
    BY <2>1 DEF InMemory
  <2>6. InTables(r)' = InTables(r)
    BY <1>2, <2>1 DEF InTables
  <2>7. Held(r)' = (rd[r].want \cap InMemory(r)) \cup InTables(r)
    BY <2>1, <2>5, <2>6 DEF Held
  <2>8. Serving => Finds(r)
    BY <1>4, <2>2 DEF ReadInv
  <2>9. rd[r].got = {} /\ rd[r].must \subseteq rd[r].want
    BY <2>1, <2>2 DEF Shape
  <2>10. Serving => rd[r].must \subseteq InMemory(r) \cup InTables(r)
                    /\ InMemory(r) \cup InTables(r) \subseteq Visible
    BY <2>1, <2>8, <2>9 DEF Finds, Held
  <2>11. Serving => Finds(r)'
    BY <1>2, <2>1, <2>7, <2>9, <2>10 DEF Finds, Asks
  <2> QED
    BY <1>2, <1>4, <2>1, <2>3, <2>4, <2>11 DEF ReadInv
<1>12. CASE OpenTables(r) \/ ExhaustMemory(r)
  <2>1. /\ ReadsTyped' /\ Others(r) /\ Asks(r) /\ seen' = seen
        /\ rd[r].pc \in {"tables", "merge"} /\ rd'[r].pc = "merge"
        /\ rd'[r].got = rd[r].got /\ rd'[r].own \in {0, rd[r].own}
        /\ rd'[r].tabs = rd[r].tabs \/ (~FilesOpen /\ rd'[r].tabs = {})
    BY <1>4, <1>12, OpenTablesIs
  <2>2. Reading(r) /\ Shape(r) /\ Refers(r)
    BY <1>4, <2>1 DEF Reading, ReadInv
  <2>3. Shape(r)' /\ Answered(r)'
    BY <2>1, <2>2 DEF Asks, Shape, Answered
  <2>4. Refers(r)'
    BY <1>2, <1>3, <1>4, <2>1, <2>2, OwnKept DEF Refers
  <2>5. Serving => rd'[r].tabs = rd[r].tabs
    BY <2>1 DEF FilesOpen, Serving
  <2>6. Serving => Held(r)' = Held(r)
    BY <1>2, <2>1, <2>5 DEF Held, InMemory, InTables
  <2>7. Serving => Finds(r)'
    BY <1>2, <1>4, <2>1, <2>2, <2>6 DEF ReadInv, Finds, Asks
  <2> QED
    BY <1>2, <1>4, <2>1, <2>3, <2>4, <2>7 DEF ReadInv
<1>13. CASE AnswerGet(r)
  <2> DEFINE inFiles == rd[r].want \cap UNION {sst[t] : t \in Holding(r)}
             found == IF rd[r].got # {} THEN rd[r].got ELSE inFiles
  <2>1. Reading(r) /\ Shape(r) /\ rd[r].pc = "files"
    BY <1>4, <1>13 DEF AnswerGet, Reading, ReadInv
  <2>2. rd[r].got \subseteq Calls /\ rd[r].want \subseteq Calls /\ rd[r].must \subseteq Calls
    BY <1>6 DEF ReadRecords
  <2>3. inFiles = rd[r].want \cap InTables(r)
    BY HoldingIs
  <2>4. found \subseteq Calls
    <3> HIDE DEF inFiles
    <3> QED
      BY <2>2, <2>3
  <2>5. \E x : rd[r].want = {x}
    BY <2>1 DEF Shape
  <2>6. Serving => rd[r].must \subseteq found /\ found \subseteq Visible
    <3>1. Serving => rd[r].must \subseteq rd[r].got \cup InTables(r)
                     /\ rd[r].got \cup InTables(r) \subseteq Visible
      BY <1>4, <2>1 DEF ReadInv, Finds, Held, InMemory
    <3>2. rd[r].must \subseteq rd[r].want /\ rd[r].got \subseteq rd[r].want
      BY <2>1 DEF Shape
    <3> QED
      BY <2>3, <2>5, <3>1, <3>2
  <2> HIDE DEF inFiles
  <2>7. \/ Finish(r, "500", {})
        \/ OwnOnly(r, found) = {} /\ Finish(r, "404", {})
        \/ Finish(r, "200", OwnOnly(r, found))
    BY <1>13 DEF AnswerGet, inFiles
  <2> HIDE DEF found
  <2>8. /\ OwnOnly(r, found) \subseteq found
        /\ \A c \in OwnOnly(r, found) : Owner[c] = rd[r].tenant
        /\ rd[r].must \subseteq found => OwnOnly(r, rd[r].must) \subseteq OwnOnly(r, found)
    BY DEF OwnOnly
  <2> HIDE DEF OwnOnly
  <2>9. CASE Finish(r, "500", {})
    BY <1>1, <1>4, <2>9, FinishKeeps
  <2>10. CASE OwnOnly(r, found) = {} /\ Finish(r, "404", {})
    BY <1>1, <1>4, <1>5, <2>6, <2>8, <2>10, FinishKeeps
  <2>11. CASE Finish(r, "200", OwnOnly(r, found))
    BY <1>1, <1>4, <1>5, <2>4, <2>6, <2>8, <2>11, FinishKeeps
  <2> QED
    BY <2>7, <2>9, <2>10, <2>11
<1>14. CASE AnswerQuery(r)
  <2> DEFINE found == rd[r].got \cup InTables(r)
  <2>1. Reading(r) /\ rd[r].pc = "merge"
    BY <1>14 DEF AnswerQuery, Reading
  <2>2. found \subseteq Calls
    BY <1>6, <1>7 DEF ReadRecords
  <2>3. Serving => rd[r].must \subseteq found /\ found \subseteq Visible
    BY <1>4, <2>1 DEF ReadInv, Finds, Held, InMemory
  <2>4. Finish(r, "200", OwnOnly(r, found)) \/ Finish(r, "400", {})
    BY <1>14 DEF AnswerQuery, InTables
  <2> HIDE DEF found
  <2>5. /\ OwnOnly(r, found) \subseteq found
        /\ \A c \in OwnOnly(r, found) : Owner[c] = rd[r].tenant
        /\ rd[r].must \subseteq found => OwnOnly(r, rd[r].must) \subseteq OwnOnly(r, found)
    BY DEF OwnOnly
  <2> HIDE DEF OwnOnly
  <2>6. CASE Finish(r, "200", OwnOnly(r, found))
    BY <1>1, <1>4, <1>5, <2>2, <2>3, <2>5, <2>6, FinishKeeps
  <2>7. CASE Finish(r, "400", {})
    BY <1>1, <1>4, <2>7, FinishKeeps
  <2> QED
    BY <2>4, <2>6, <2>7
<1> QED
  BY <1>8, <1>9, <1>10, <1>11, <1>12, <1>13, <1>14 DEF ReadStep

\* A step that leaves the reads alone.
LEMMA ReadsUndisturbed ==
    ASSUME EngineInv, ReadsInv, [Next]_vars, KeepReferenced, rd' = rd, seen' = seen,
           (status = "down") <=> (status' = "down")
    PROVE  ReadsInv'
<1>1. /\ TypeOK /\ OrderInv /\ ReadsTyped /\ SegmentsAreNumbered
      /\ \A r \in Readers : ReadInv(r)
  BY DEF EngineInv, ReadsInv
<1>2. ReadsTyped' /\ SegmentsAreNumbered'
  BY <1>1, NumberedStep DEF ReadsTyped
<1>3. NoReadsWhenDown'
  BY DEF ReadsInv, NoReadsWhenDown, Reading
<1>4. CASE status = "down"
  <2>1. ~Serving'
    BY <1>4 DEF Serving
  <2>2. ASSUME NEW r \in Readers PROVE ReadInv(r)'
    BY <1>4, <2>1 DEF ReadsInv, NoReadsWhenDown, ReadInv, Refers, Reading, Answered
  <2> QED
    BY <1>2, <1>3, <2>1, <2>2 DEF ReadsInv
<1>5. CASE status # "down"
  <2>1. ASSUME NEW r \in Readers PROVE ReadInv(r)'
    BY <1>1, <1>5, ReadCarried
  <2>2. Serving' => Serving
    BY <1>1, <1>5, StillClosed DEF Serving, TypeOK, MemoryTypeOK
  <2>3. Serving' => seen' \subseteq Visible'
    BY <1>1, <2>2, VisibleGrows DEF ReadsInv
  <2> QED
    BY <1>2, <1>3, <2>1, <2>3 DEF ReadsInv
<1> QED
  BY <1>4, <1>5

\* Reads find calls and nothing else.
LEMMA VisibleType == TypeOK => Visible \subseteq Calls
  BY FrozenType DEF Visible, FrozenRecords, TypeOK, MemoryTypeOK, DiskTypeOK

LEMMA VisibleTypeNext == TypeOK' => Visible' \subseteq Calls
<1>1. (TypeOK => Visible \subseteq Calls)'
  BY VisibleType, PTL
<1> QED
  BY <1>1

LEMMA ReadsStep == EngineInv /\ HttpInv /\ ReadsInv /\ [ServerNext]_serverVars => ReadsInv'
<1> SUFFICES ASSUME EngineInv, HttpInv, ReadsInv, [ServerNext]_serverVars PROVE ReadsInv'
  OBVIOUS
<1>0. [Next]_vars /\ TypeOK /\ OrderInv
  BY ServerStepIsEngineStep DEF EngineInv
<1>1. ASSUME NEW r \in Readers, AcceptRead(r) \/ ReadStep(r), KeepReferenced PROVE ReadsInv'
  <2>1. ReadsTyped' /\ Others(r) /\ ReadInv(r)' /\ (Serving' => seen' \subseteq Visible')
    BY <1>1, ReadMoves
  <2>2. status' = status /\ status # "down"
    <3>1. status' = status
      BY <1>1, ReadIsStill DEF vars, memory
    <3>2. CASE AcceptRead(r)
      BY <3>1, <3>2 DEF AcceptRead, HttpInv
    <3>3. CASE ReadStep(r)
      BY <3>1, <3>3 DEF ReadsInv, NoReadsWhenDown, Reading, ReadStep, CheckClosed, Snapshot,
           LookMemory, AnswerGet, OpenTables, ExhaustMemory, AnswerQuery
    <3> QED
      BY <1>1, <3>2, <3>3
  <2>3. ASSUME NEW q \in Readers PROVE ReadInv(q)'
    <3>1. CASE q = r
      BY <2>1, <3>1
    <3>2. CASE q # r
      BY <1>0, <1>1, <2>1, <2>2, <3>2, ReadCarried DEF ReadsInv, Others
    <3> QED
      BY <3>1, <3>2
  <2>4. SegmentsAreNumbered'
    BY <1>0, NumberedStep DEF ReadsInv
  <2> QED
    BY <2>1, <2>2, <2>3, <2>4 DEF ReadsInv, NoReadsWhenDown
<1>2. CASE (\E c \in Calls : Ingest(c)) /\ KeepReferenced
  <2>1. status' = status /\ rd' = rd /\ seen' = seen
    BY <1>2, StatusKept DEF Ingest, IngestStep, IngestTimeout
  <2> QED
    BY <1>0, <1>2, <2>1, ReadsUndisturbed
<1>3. CASE Worker /\ KeepReferenced
  <2>1. status' = status /\ rd' = rd /\ seen' = seen
    BY <1>3, StatusKept DEF Worker, Same
  <2> QED
    BY <1>0, <1>3, <2>1, ReadsUndisturbed
<1>4. CASE CloseEngine /\ KeepReferenced
  <2>1. /\ rd' = rd /\ seen' = seen
        /\ (status = "down") <=> (status' = "down")
    BY <1>4 DEF CloseEngine, CloseBegin, CloseFinish, Same
  <2> QED
    BY <1>0, <1>4, <2>1, ReadsUndisturbed
<1>5. CASE Passive /\ KeepReferenced
  <2>1. status' = status /\ rd' = rd /\ seen' = seen
    BY <1>5, PassiveIsStill DEF vars, memory
  <2> QED
    BY <1>0, <1>5, <2>1, ReadsUndisturbed
<1>6. CASE Start
  <2>1. status = "down" /\ status' = "running" /\ rd' = rd /\ seen' = Visible'
    BY <1>6 DEF Start, Open
  <2>2. ASSUME NEW r \in Readers PROVE ReadInv(r)'
    BY <2>1 DEF ReadsInv, NoReadsWhenDown, ReadInv, Refers, Reading, Answered
  <2>3. SegmentsAreNumbered'
    BY <1>0, NumberedStep DEF ReadsInv
  <2>4. Visible' \subseteq Calls
    BY <1>0, OrderStep, VisibleTypeNext
  <2> QED
    BY <2>1, <2>2, <2>3, <2>4 DEF ReadsInv, ReadsTyped, NoReadsWhenDown
<1>7. CASE Exit
  <2>1. /\ status' = "down" /\ seen' = {}
        /\ rd' = [r \in Readers |-> IF rd[r].pc = "idle" THEN Unread
                                    ELSE [Unread EXCEPT !.pc = "dead"]]
    BY <1>7 DEF Exit, Stop
  <2>2. ASSUME NEW r \in Readers
        PROVE  /\ rd'[r] \in ReadRecords /\ rd'[r].pc \in {"idle", "dead"}
               /\ rd'[r].own = 0 /\ rd'[r].tabs = {} /\ rd'[r].code = "none"
    BY <2>1 DEF Unread, ReadRecords
  <2>3. ReadsTyped'
    BY <2>1, <2>2 DEF ReadsTyped
  <2>4. NoReadsWhenDown'
    BY <2>1, <2>2 DEF NoReadsWhenDown, Reading
  <2>5. ASSUME NEW r \in Readers PROVE ReadInv(r)'
    BY <2>2 DEF ReadInv, Refers, Reading, Answered
  <2>6. SegmentsAreNumbered' /\ ~Serving'
    BY <1>0, <2>1, NumberedStep DEF ReadsInv, Serving
  <2> QED
    BY <2>3, <2>4, <2>5, <2>6 DEF ReadsInv
<1>8. CASE UNCHANGED serverVars
  <2> USE <1>8 DEF serverVars, requests, vars, disk, memory
  <2>1. \A m : RecordsOf(m)' = RecordsOf(m)
    BY DEF RecordsOf
  <2>2. /\ Visible' = Visible /\ Serving' = Serving /\ Excused' = Excused
    BY DEF Visible, FrozenRecords, Serving, Excused
  <2>3. ASSUME NEW r \in Readers PROVE ReadInv(r)'
    <3>1. ReadInv(r)
      BY DEF ReadsInv
    <3>2. Held(r)' = Held(r)
      BY <2>1 DEF Held, InMemory, InTables
    <3>3. Refers(r)' /\ Shape(r)' = Shape(r) /\ Reading(r)' = Reading(r)
      BY <3>1 DEF ReadInv, Refers, Shape, Reading
    <3>4. Answered(r)'
      BY <2>2, <3>1 DEF ReadInv, Answered, Owed, OwnOnly
    <3>5. Finds(r)' = Finds(r)
      BY <2>2, <3>2 DEF Finds
    <3> QED
      BY <2>2, <3>1, <3>3, <3>4, <3>5 DEF ReadInv
  <2> QED
    BY <2>2, <2>3 DEF ReadsInv, ReadsTyped, SegmentsAreNumbered, NoReadsWhenDown, Reading
<1> QED
  BY <1>1, <1>2, <1>3, <1>4, <1>5, <1>6, <1>7, <1>8 DEF ServerNext, Passive

LEMMA ReadsAlways == ServerSpec => []ReadsInv
<1>1. ServerInit => ReadsInv
  <2> SUFFICES ASSUME ServerInit PROVE ReadsInv
    OBVIOUS
  <2>1. /\ wal = <<>> /\ status = "down" /\ seen = {}
        /\ rd = [r \in Readers |-> Unread]
    BY DEF ServerInit, Init
  <2>2. SegmentsAreNumbered
    BY <2>1, EmptyIsSeq DEF SegmentsAreNumbered
  <2>3. Unread \in ReadRecords
    BY DEF Unread, ReadRecords
  <2>4. ReadsTyped
    BY <2>1, <2>3 DEF ReadsTyped
  <2>5. ASSUME NEW r \in Readers
        PROVE  rd[r].pc = "idle" /\ rd[r].own = 0 /\ rd[r].tabs = {} /\ rd[r].code = "none"
    BY <2>1 DEF Unread
  <2>6. NoReadsWhenDown /\ \A r \in Readers : ReadInv(r)
    BY <2>1, <2>5 DEF NoReadsWhenDown, Reading, ReadInv, Refers, Answered
  <2> QED
    BY <2>1, <2>2, <2>4, <2>6 DEF ReadsInv, Serving
<1> QED
  BY <1>1, ReadsStep, EngineAlways, HttpAlways, PTL DEF ServerSpec

\* Requests stay in the states the handlers have, and what a read refers to
\* exists as long as the read does.
THEOREM ServerTypeCorrect == ServerSpec => []ServerTypeOK
<1>1. HttpInv /\ ReadsInv => ServerTypeOK
  <2> SUFFICES ASSUME HttpInv, ReadsInv PROVE ServerTypeOK
    OBVIOUS
  <2>1. \A r \in Readers : rd[r] \in ReadRecords
    BY DEF ReadsInv, ReadsTyped
  <2>2. \A r \in Readers : ReadTypeOK(r)
    BY <2>1 DEF ReadRecords, ReadTypeOK
  <2>3. \A r \in Readers : Refers(r)
    BY DEF ReadsInv, ReadInv
  <2>4. reply \in [Calls -> {"none", "pending", "200", "429", "500", "503", "dropped"}]
    BY DEF HttpInv, Replies
  <2> QED
    BY <2>2, <2>3, <2>4 DEF HttpInv, ReadsInv, ReadsTyped, Refers, ServerTypeOK
<1> QED
  BY <1>1, HttpAlways, ReadsAlways, PTL

\* A point read answers 404 for none of its tenant's records that this run of
\* the process had recovered, acknowledged or returned when it began.
THEOREM GetMissesNothing == ServerSpec => []GetFindsAcked
<1>1. ReadsInv => GetFindsAcked
  BY DEF ReadsInv, ReadInv, Answered, GetFindsAcked, Excused
<1> QED
  BY <1>1, ReadsAlways, PTL

\* A query returns every record of its tenant that this run of the process had
\* recovered, acknowledged or returned when it began, and none of another tenant.
THEOREM QueryMissesNothing == ServerSpec => []QueryAnswersOwn
<1>1. ReadsInv => QueryAnswersOwn
  BY DEF ReadsInv, ReadInv, Answered, QueryAnswersOwn, Excused
<1> QED
  BY <1>1, ReadsAlways, PTL

-----------------------------------------------------------------------------
(* What earlier runs acknowledged                                          *)

\* Open serves all that a crash had left to recover.
LEMMA StartServes == ASSUME TypeOK, OrderInv, Start PROVE Recoverable \subseteq seen'
<1>1. /\ seen' = Visible' /\ active' = Replayed
      /\ sst' = Without(sst, bad) /\ tables' = DOMAIN sst \ bad
  BY DEF Start, Open
<1>2. \A i \in tables' : sst'[i] = sst[i]
  BY <1>1 DEF Without
<1> QED
  BY <1>1, <1>2 DEF Recoverable, Persisted, Visible

\* Only the end of a process makes an acknowledged record a past one.
LEMMA NoPastInWrite ==
    ASSUME TypeOK, NEW c \in Calls, WriteCall(c) \/ GateTimeout(c) \/ WriteStep(c),
           NEW d \in Calls, pc'[d] = "past"
    PROVE  pc[d] = "past"
<1> USE DEF TypeOK, CallTypeOK, Goto
<1>1. CASE WriteCall(c) \/ GateTimeout(c) \/ GatePass(c) \/ GateStall(c) \/ GateRefuse(c)
  BY <1>1 DEF WriteCall, GateTimeout, GatePass, GateStall, GateRefuse
<1>2. CASE Allocate(c) \/ Bind(c)
  BY <1>2 DEF Allocate, Bind
<1>3. CASE AppendRecord(c) \/ AppendFail(c) \/ Put(c) \/ WriteReturn(c)
  BY <1>3 DEF AppendRecord, AppendFail, Put, WriteReturn
<1> QED
  BY <1>1, <1>2, <1>3 DEF WriteStep

LEMMA WorkersLeaveCalls == Worker => pc' = pc
<1>1. CASE FreezeStep
  BY <1>1, FreezeFrame DEF FreezeRotate
<1>2. CASE FlushStep
  BY <1>2 DEF FlushStep, FlushReceive, FlushNothing, FlushSnapshot, FlushWrite, FlushFail,
       FlushRetry, FlushSwap, FlushDelete, FlushSignal, FlushFatal, FlushExit
<1> QED
  BY <1>1, <1>2, WorkerIsWorker

LEMMA ReadsSeeMore ==
    ASSUME ReadsTyped, NEW r \in Readers, AcceptRead(r) \/ ReadStep(r)
    PROVE  seen \subseteq seen'
  BY DEF AcceptRead, ReadStep, CheckClosed, Snapshot, LookMemory, AnswerGet, OpenTables,
         ExhaustMemory, AnswerQuery, Finish

\* While the process is up, the records earlier runs acknowledged are among
\* those its Open recovered.
PastServed == status # "down" => \A c \in Calls : pc[c] = "past" => c \in seen

LEMMA PastServedStep ==
    /\ EngineInv /\ AckedRecoverable /\ ReadsInv /\ PastServed
    /\ [ServerNext]_serverVars
    => PastServed'
<1> SUFFICES ASSUME EngineInv, AckedRecoverable, ReadsInv, PastServed, [ServerNext]_serverVars,
                    status' # "down", NEW c \in Calls, pc'[c] = "past"
             PROVE  c \in seen'
  BY DEF PastServed
<1> USE DEF PastServed
<1>0. TypeOK /\ OrderInv
  BY DEF EngineInv
<1>1. ASSUME NEW d \in Calls, Ingest(d) PROVE c \in seen'
  <2>1. status' = status /\ seen' = seen
    BY <1>1, StatusKept DEF Ingest, IngestStep, IngestTimeout
  <2>2. pc[c] = "past"
    BY <1>0, <1>1, IngestIsWrite, NoPastInWrite
  <2> QED
    BY <2>1, <2>2
<1>2. CASE Worker
  BY <1>2, StatusKept, WorkersLeaveCalls DEF Worker, Same
<1>3. CASE Start
  <2>1. pc[c] = "past"
    BY <1>3 DEF Start, Open
  <2> QED
    BY <1>0, <1>3, <2>1, StartServes DEF AckedRecoverable, Acked
<1>4. CASE CloseEngine
  BY <1>4 DEF CloseEngine, CloseBegin, CloseFinish, Same
<1>5. ~Exit
  BY DEF Exit, Stop
<1>6. CASE Passive
  BY <1>6, PassiveIsStill DEF vars, memory
<1>7. ASSUME NEW r \in Readers, AcceptRead(r) \/ ReadStep(r) PROVE c \in seen'
  <2>1. status' = status /\ pc' = pc
    BY <1>7, ReadIsStill DEF vars, memory
  <2>2. seen \subseteq seen'
    BY <1>7, ReadsSeeMore DEF ReadsInv
  <2> QED
    BY <2>1, <2>2
<1>8. CASE UNCHANGED serverVars
  BY <1>8 DEF serverVars, requests, vars, memory
<1> QED
  BY <1>1, <1>2, <1>3, <1>4, <1>5, <1>6, <1>7, <1>8 DEF ServerNext, Passive

\* Where clients write one record at a time and appends fail cleanly, what a
\* read of a running process may not miss is every record ever acknowledged,
\* in this run of the process or in an earlier one.
THEOREM EveryAckIsExpected ==
    ASSUME OneClient
    PROVE  ServerSpec => [](status # "down" => Acked \subseteq Expected)
<1>1. ServerInit => PastServed
  BY DEF ServerInit, Init, PastServed
<1>2. ServerSpec => []AckedRecoverable
  BY ServerRunsEngine, AckedSurvive, PTL
<1>3. PastServed => (status # "down" => Acked \subseteq Expected)
  BY DEF PastServed, Acked, Expected
<1> QED
  BY <1>1, <1>2, <1>3, PastServedStep, EngineAlways, ReadsAlways, PTL DEF ServerSpec

-----------------------------------------------------------------------------
(* A refused record is nowhere                                             *)

Refused(c) == reply[c] \in {"429", "503"}

\* A call leaves no trace before its append, and a refused call none at all.
Untraced ==
    \A c \in Calls :
        /\ pc[c] \in Early => ~Stored(c)
        /\ Refused(c) => pc[c] = "err" /\ ~Stored(c)

\* Only a call that has not passed the gate is refused.
LEMMA RefusedAtTheGate ==
    ASSUME TypeOK, HttpInv, [ServerNext]_serverVars, NEW c \in Calls, Refused(c)'
    PROVE  Refused(c) \/ (pc[c] \in {"idle", "gate", "stalled"} /\ pc'[c] = "err")
<1> USE DEF Refused
<1>1. ASSUME NEW d \in Calls, Ingest(d), ~Refused(c)
      PROVE  pc[c] \in {"idle", "gate", "stalled"} /\ pc'[c] = "err"
  <2>1. c = d /\ reply'[c] # reply[c]
    BY <1>1, IngestAnswers DEF Answer, HttpInv
  <2>2. /\ ErrorCode("append") = "500"
        /\ \A code : Answer(c, code) => reply'[c] = code
    BY DEF ErrorCode, Answer, HttpInv
  <2>3. \/ WriteCall(c) /\ pc'[c] = "err"
        \/ GateRefuse(c) \/ GateTimeout(c)
        \/ reply' = reply
        \/ \E code \in {"500", "dropped", "200"} : Answer(c, code)
    BY <1>1, <2>1, <2>2 DEF Ingest, IngestStep, IngestTimeout
  <2>4. (WriteCall(c) /\ pc'[c] = "err") \/ GateRefuse(c) \/ GateTimeout(c)
    BY <2>1, <2>2, <2>3
  <2> QED
    BY <2>4 DEF WriteCall, GateRefuse, GateTimeout, Goto, TypeOK, CallTypeOK
<1>2. CASE Worker \/ CloseEngine \/ Start
  BY <1>2 DEF Worker, CloseEngine, Start, Same
<1>3. CASE Exit
  BY <1>3 DEF Exit
<1>4. CASE Passive
  BY <1>4 DEF Passive, AcceptIngest, Answer, Signal, Drained, DrainTimeout, ServeError, HttpInv
<1>5. ASSUME NEW r \in Readers, AcceptRead(r) \/ ReadStep(r) PROVE Refused(c)
  BY <1>5, ReadIsStill
<1>6. CASE UNCHANGED serverVars
  BY <1>6 DEF serverVars, requests
<1> QED
  BY <1>1, <1>2, <1>3, <1>4, <1>5, <1>6 DEF ServerNext, Passive

LEMMA UntracedStep ==
    EngineInv /\ HttpInv /\ Untraced /\ [ServerNext]_serverVars => Untraced'
<1> SUFFICES ASSUME EngineInv, HttpInv, Untraced, [ServerNext]_serverVars, NEW c \in Calls
             PROVE  /\ pc'[c] \in Early => ~Stored(c)'
                    /\ Refused(c)' => pc'[c] = "err" /\ ~Stored(c)'
  BY DEF Untraced
<1>1. TypeOK /\ OrderInv /\ [Next]_vars
  BY ServerStepIsEngineStep DEF EngineInv
<1>2. ASSUME ~Stored(c), Stored(c)'
      PROVE  pc[c] \in {"bound", "appended"} /\ pc'[c] \in {"appended", "err", "put"}
  BY <1>1, <1>2, StoredGrows
<1>3. pc'[c] \in Early => ~Stored(c)'
  BY <1>1, <1>2, CallsAdvance DEF Untraced, Early
<1>4. ASSUME Refused(c)' PROVE pc'[c] = "err" /\ ~Stored(c)'
  <2>1. CASE Refused(c)
    BY <1>1, <1>2, <2>1, CallsAdvance DEF Untraced
  <2>2. CASE ~Refused(c)
    <3>1. pc[c] \in {"idle", "gate", "stalled"} /\ pc'[c] = "err"
      BY <1>1, <1>4, <2>2, RefusedAtTheGate
    <3> QED
      BY <1>2, <3>1 DEF Untraced, Early
  <2> QED
    BY <2>1, <2>2
<1> QED
  BY <1>3, <1>4

\* A client that is told 429 or 503 may send its record again: nothing of it
\* is in memory or on disk.
THEOREM RefusalLeavesNoTrace == ServerSpec => []RefusedNotStored
<1>1. ServerInit => Untraced
  <2> SUFFICES ASSUME ServerInit, NEW c \in Calls PROVE ~Refused(c) /\ ~Stored(c)
    BY DEF Untraced
  <2>1. ~Refused(c)
    BY DEF ServerInit, Refused
  <2> QED
    BY <2>1, InitUntraced DEF ServerInit
<1>2. Untraced => RefusedNotStored
  <2> SUFFICES ASSUME Untraced, NEW c \in Calls, Refused(c)
               PROVE  c \notin UNION {active, FrozenRecords, Logged, Persisted}
    BY DEF RefusedNotStored, Refused
  <2>1. ~Stored(c)
    BY DEF Untraced
  <2>2. c \notin FrozenRecords
    BY <2>1 DEF FrozenRecords, Stored, InQueue
  <2>3. c \notin Logged
    BY <2>1 DEF Logged, Replay, Range, Stored, InLog
  <2>4. c \notin Persisted
    BY <2>1 DEF Persisted, Stored, InFile
  <2> QED
    BY <2>1, <2>2, <2>3, <2>4 DEF Stored
<1> QED
  BY <1>1, <1>2, UntracedStep, EngineAlways, HttpAlways, PTL DEF ServerSpec

-----------------------------------------------------------------------------
(* An answered record is on disk                                           *)

\* The MemTables and the files, whether a reader of the file is open or not.
Places(c) == c \in active \/ InQueue(c) \/ InFile(c)

\* A rotation moves records from the active MemTable to the queue.
LEMMA RotateKeepsPlaces ==
    ASSUME TypeOK, FreezeRotate, NEW c, Places(c) PROVE Places(c)'
<1>1. sst' = sst /\ InFile(c)' = InFile(c)
  BY DEF FreezeRotate, files, InFile
<1>2. CASE c \in active
  <2>1. Len(frozen) + 1 \in DOMAIN frozen' /\ frozen'[Len(frozen) + 1].mt = active
    BY RotateIs
  <2> QED
    BY <1>2, <2>1 DEF Places, InQueue
<1>3. CASE InQueue(c)
  <2>1. \A i \in DOMAIN frozen : i \in DOMAIN frozen' /\ frozen'[i] = frozen[i]
    BY RotateIs
  <2> QED
    BY <1>3, <2>1 DEF Places, InQueue
<1> QED
  BY <1>1, <1>2, <1>3 DEF Places

\* The swap takes a MemTable out of the queue whose file is written.
LEMMA SwapKeepsPlaces ==
    ASSUME TypeOK, OrderInv, FlushSwap, NEW c, Places(c) PROVE Places(c)'
<1>1. /\ UNCHANGED <<sst, active>> /\ fl.pc = "swap"
  BY DEF FlushSwap, disk
<1>2. /\ frozen # <<>> /\ Head(frozen) = [mt |-> fl.mt, seg |-> fl.seg]
      /\ fl.id \in DOMAIN sst /\ sst[fl.id] = fl.mt
  BY <1>1 DEF OrderInv, FlushOrder, FlushInProgress
<1>3. CASE c \in active \/ InFile(c)
  BY <1>1, <1>3 DEF Places, InFile
<1>4. CASE InQueue(c)
  <2>1. PICK i \in DOMAIN frozen : c \in frozen[i].mt
    BY <1>4 DEF InQueue
  <2>2. CASE i = 1
    <3>1. frozen[1].mt = fl.mt
      BY <1>2, SwapIs
    <3> QED
      BY <1>1, <1>2, <2>1, <2>2, <3>1 DEF Places, InFile
  <2>3. CASE i - 1 \in DOMAIN frozen' /\ frozen'[i - 1] = frozen[i]
    BY <2>1, <2>3 DEF Places, InQueue
  <2> QED
    BY <1>2, <2>2, <2>3, SwapIs
<1> QED
  BY <1>3, <1>4 DEF Places

LEMMA PlacesKept ==
    ASSUME TypeOK, OrderInv, [Next]_vars, status # "down", status' # "down", NEW c, Places(c)
    PROVE  Places(c)'
<1>1. InFile(c) => InFile(c)'
  BY WhileUp DEF InFile
<1>2. ASSUME NEW d \in Calls, WriteCall(d) \/ GateTimeout(d) \/ WriteStep(d)
      PROVE  frozen' = frozen /\ active \subseteq active'
  BY <1>2, WriteFrame, WriteEffect
<1>3. CASE FreezeRotate
  BY <1>3, RotateKeepsPlaces
<1>4. CASE FreezeStep /\ ~FreezeRotate
  BY <1>1, <1>4, FreezeFrame DEF Places, InQueue
<1>5. CASE FlushSwap
  BY <1>5, SwapKeepsPlaces
<1>6. CASE FlushStep /\ ~FlushSwap
  <2>1. UNCHANGED <<active, frozen>>
    BY <1>6 DEF FlushStep, FlushReceive, FlushNothing, FlushSnapshot, FlushWrite, FlushFail,
         FlushRetry, FlushDelete, FlushSignal, FlushFatal, FlushExit, memory
  <2> QED
    BY <1>1, <2>1 DEF Places, InQueue
<1>7. CASE CloseBegin \/ CloseFinish
  BY <1>1, <1>7 DEF CloseBegin, CloseFinish, Places, InQueue
<1>8. ~Open /\ ~Stop /\ ~ \E i \in DOMAIN sst : Damage(i)
  BY DEF Open, Stop, Damage
<1>9. CASE UNCHANGED vars
  BY <1>1, <1>9 DEF vars, memory, Places, InQueue
<1> QED
  BY <1>1, <1>2, <1>3, <1>4, <1>5, <1>6, <1>7, <1>8, <1>9 DEF Next, Places, InQueue

\* From its Put on, a record of this run is in a MemTable or in a file.
PutPlaced == \A c \in Calls : pc[c] \in {"put", "ok"} => Places(c)

LEMMA PutPlacedStep == TypeOK /\ OrderInv /\ PutPlaced /\ [Next]_vars => PutPlaced'
<1> SUFFICES ASSUME TypeOK, OrderInv, PutPlaced, [Next]_vars,
                    NEW c \in Calls, pc'[c] \in {"put", "ok"}
             PROVE  Places(c)'
  BY DEF PutPlaced
<1>1. ASSUME pc[c] \in {"put", "ok"}, status # "down", status' # "down" PROVE Places(c)'
  BY <1>1, PlacesKept DEF PutPlaced
<1>2. ASSUME NEW d \in Calls, WriteCall(d) \/ GateTimeout(d) \/ WriteStep(d)
      PROVE  Places(c)'
  <2>1. status # "down" /\ status' # "down"
    BY <1>2, DownIsStill, WriteFrame DEF OrderInv
  <2>2. CASE c = d /\ pc'[c] = "put"
    BY <1>2, <2>2, WriteEffect DEF Places
  <2>3. CASE ~(c = d /\ pc'[c] = "put")
    <3>1. pc[c] \in {"put", "ok"}
      BY <1>2, <2>3, WriteEffect
    <3> QED
      BY <1>1, <2>1, <3>1
  <2> QED
    BY <2>2, <2>3
<1>3. CASE FreezeStep \/ FlushStep
  <2>1. pc' = pc /\ status' = status
    <3>1. CASE FreezeStep
      BY <3>1, FreezeFrame DEF FreezeRotate
    <3>2. CASE FlushStep
      BY <3>2 DEF FlushStep, FlushReceive, FlushNothing, FlushSnapshot, FlushWrite, FlushFail,
           FlushRetry, FlushSwap, FlushDelete, FlushSignal, FlushFatal, FlushExit, memory
    <3> QED
      BY <1>3, <3>1, <3>2
  <2>2. status # "down"
    BY <1>3, DownIsStill DEF OrderInv
  <2> QED
    BY <1>1, <2>1, <2>2
<1>4. CASE CloseBegin \/ CloseFinish
  BY <1>1, <1>4 DEF CloseBegin, CloseFinish
<1>5. ~Stop
  BY DEF Stop, InFlight
<1>6. ~Open /\ ~ \E i \in DOMAIN sst : Damage(i)
  BY DEF Open, Damage, OrderInv, QuietWhenDown, InFlight
<1>7. CASE UNCHANGED vars
  BY <1>7 DEF vars, disk, memory, PutPlaced, Places, InQueue, InFile
<1> QED
  BY <1>2, <1>3, <1>4, <1>5, <1>6, <1>7 DEF Next

\* Whatever fails, whoever else writes, and when Close does not wait for the
\* request: 200 is answered for nothing a recovery would not find on disk.
THEOREM AnswersAreOnDisk == ServerSpec => []AnsweredOnDisk
<1>1. Init => PutPlaced
  BY DEF Init, PutPlaced
<1>2. Spec => []PutPlaced
  BY <1>1, PutPlacedStep, OrderInvariant, PTL DEF Spec
<1>3. PutPlaced /\ MemTableSubsetOfWAL => AnsweredOnDisk
  BY DEF PutPlaced, Places, InQueue, InFile, FrozenRecords, MemTableSubsetOfWAL, AnsweredOnDisk
<1> QED
  BY <1>2, <1>3, ServerRunsEngine, MemTablesAreLogged, PTL
=============================================================================
