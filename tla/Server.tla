------------------------------- MODULE Server -------------------------------
(***************************************************************************)
(* The process around the engine (internal/server, cmd/distlog): ingest,   *)
(* point reads and queries as requests in flight, graceful shutdown with   *)
(* its timeout, then Engine.Close.  Composes module Engine: every step of  *)
(* a running engine is a step here, and reads are added to it, as seen by  *)
(* the handlers that run them.                                             *)
(*                                                                         *)
(* A read works on the references it copied under the read lock of e.mu.   *)
(* MemTables of the frozen queue and SSTables are immutable, so what it    *)
(* copied stands for what is in them; the active MemTable goes on changing *)
(* until the read looks, so the read keeps its identity (its segment).     *)
(* An iterator holds the active MemTable's own lock while the scan runs.   *)
(***************************************************************************)
EXTENDS EngineProps

CONSTANTS
    Tenants,    \* the tenants the tokens resolve to
    Owner,      \* the tenant handleIngest stamps on each record
    Readers,    \* the requests that read, each made at most once
    Kinds,      \* what they may be: "get", "query"
    Endings     \* how Serve may end besides draining: "timeout", "error"

ASSUME OwnerAssumption == Owner \in [Calls -> Tenants]
ASSUME KindsAssumption == Kinds \subseteq {"get", "query"}
ASSUME EndingsAssumption == Endings \subseteq {"timeout", "error"}

VARIABLES
    http,      \* "off", "serving", "draining", "returned"
    reply,     \* ingest request -> "none", "pending", or its HTTP status
    rd,        \* reading request -> where it is, what it copied and found
    rotated,   \* MemTables some read still refers to, active no more
    seen       \* records this run of the process has served: those its Open
               \* recovered and those some read returned

requests == <<http, reply, rd, rotated, seen>>
serverVars == <<vars, requests>>

Unread ==
    [pc |-> "idle", kind |-> "get", tenant |-> "none", want |-> {}, must |-> {},
     own |-> 0, frozen |-> {}, tabs |-> {}, got |-> {}, code |-> "none"]

ServerInit ==
    /\ Init
    /\ http = "off"
    /\ reply = [c \in Calls |-> "none"]
    /\ rd = [r \in Readers |-> Unread]
    /\ rotated = <<>> /\ seen = {}

Reading(r) == rd[r].pc \notin {"idle", "done", "dead"}
Pending == {c \in Calls : reply[c] = "pending"}
Idle == Pending = {} /\ \A r \in Readers : ~Reading(r)

\* A scan is between opening the active MemTable's iterator and closing it.
Iterating(m) ==
    \E r \in Readers : rd[r].pc \in {"tables", "merge"} /\ rd[r].own = m

\* The records of MemTable m, active or not.
RecordsOf(m) == IF m = seg THEN active ELSE rotated[m]

\* Go keeps an object alive while somebody refers to it.
KeepReferenced ==
    rotated' = [m \in {rd'[r].own : r \in Readers} \ {0, seg'} |-> RecordsOf(m)]

Answer(c, code) == reply' = [reply EXCEPT ![c] = code]
Same == UNCHANGED <<http, reply, rd, seen>>

-----------------------------------------------------------------------------
(* POST /ingest                                                            *)

\* The request gets past authMiddleware and its body decodes.
AcceptIngest(c) ==
    /\ http = "serving" /\ reply[c] = "none"
    /\ Answer(c, "pending")
    /\ UNCHANGED <<vars, http, rd, seen>>

\* Mutation: every error but backpressure is answered with 503.
ErrorCodeUnavailable(e) == IF e = "backpressure" THEN "429" ELSE "503"

\* writeEngineError
ErrorCode(e) ==
    CASE e = "backpressure" -> "429"
      [] e = "closed" -> "503"
      [] OTHER -> "500"

Refusal == IF status # "running" THEN "closed" ELSE "fatal"

\* The call of Engine.Write and its answer.  A panic is recovered by
\* net/http, which drops the connection without one.
IngestStep(c) ==
    /\ \/ /\ reply[c] = "pending" /\ WriteCall(c)
          /\ IF pc'[c] = "err" THEN Answer(c, ErrorCode(Refusal)) ELSE UNCHANGED reply
       \/ GateRefuse(c) /\ Answer(c, ErrorCode(Refusal))
       \/ AppendFail(c) /\ Answer(c, ErrorCode("append"))
       \/ Bind(c) /\ IF pc'[c] = "panic" THEN Answer(c, "dropped") ELSE UNCHANGED reply
       \/ Put(c) /\ ~Iterating(seg) /\ UNCHANGED reply
       \/ WriteReturn(c) /\ Answer(c, "200")
       \/ /\ GatePass(c) \/ GateStall(c) \/ Allocate(c) \/ AppendRecord(c)
          /\ UNCHANGED reply
    /\ UNCHANGED <<http, rd, seen>>

\* The request's context expires while it is stalled.
IngestTimeout(c) ==
    /\ GateTimeout(c) /\ Answer(c, ErrorCode("backpressure"))
    /\ UNCHANGED <<http, rd, seen>>

Ingest(c) == IngestStep(c) \/ IngestTimeout(c)

-----------------------------------------------------------------------------
(* GET /logs/{docID} and POST /query                                       *)

\* What a read that starts now may not miss: acknowledged by this run of the
\* process, or recovered or returned by it.  What an earlier run acknowledged
\* is in it if Open recovered it.
Expected == {c \in Calls : pc[c] = "ok"} \cup seen

\* A query asks for every record, a point read for one by its DocID.
AcceptRead(r) ==
    /\ http = "serving" /\ rd[r].pc = "idle"
    /\ \E t \in Tenants, kind \in Kinds :
         \E want \in {Calls} \cup {{c} : c \in {d \in Calls : docID[d] # 0}} :
            /\ (kind = "query") <=> (want = Calls)
            /\ rd' = [rd EXCEPT ![r] =
                       [Unread EXCEPT !.pc = IF kind = "get" THEN "locking" ELSE "check",
                                      !.kind = kind, !.tenant = t, !.want = want,
                                      !.must = Expected \cap want]]
    /\ UNCHANGED <<vars, http, reply, seen>>

\* Mutation: the tenant of the record is not compared.
OwnOnlyUnchecked(r, records) == records

\* handleGet's comparison, and the tenant term handleQuery adds.
OwnOnly(r, records) == {c \in records : Owner[c] = rd[r].tenant}

Finish(r, code, got) ==
    /\ rd' = [rd EXCEPT ![r] =
               [Unread EXCEPT !.pc = "done", !.tenant = rd[r].tenant,
                              !.must = OwnOnly(r, rd[r].must),
                              !.got = got, !.code = code]]
    /\ seen' = seen \cup got

\* ScanWithOptions checks closed once, before it looks at anything.
CheckClosed(r) ==
    /\ rd[r].pc = "check"
    /\ \/ /\ status = "running"
          /\ rd' = [rd EXCEPT ![r].pc = "locking"] /\ UNCHANGED seen
       \/ status # "running" /\ Finish(r, "503", {})
    /\ UNCHANGED <<vars, http, reply>>

\* Mutation: the frozen MemTables are not part of the snapshot.
SnapshotUnfrozen(r) ==
    /\ rd[r].pc = "locking"
    /\ rd' = [rd EXCEPT ![r].pc = "memory", ![r].own = seg, ![r].tabs = tables]
    /\ UNCHANGED <<vars, http, reply, seen>>

\* Under the read lock: copy active, frozen and sstables.
Snapshot(r) ==
    /\ rd[r].pc = "locking"
    /\ rd' = [rd EXCEPT ![r].pc = "memory", ![r].own = seg,
                        ![r].frozen = FrozenRecords, ![r].tabs = tables]
    /\ UNCHANGED <<vars, http, reply, seen>>

\* Engine.Get: active, then frozen.  A scan opens an iterator on each; one
\* that finds nothing is closed at once, the others keep their MemTables.
LookMemory(r) ==
    /\ rd[r].pc = "memory"
    /\ LET own == RecordsOf(rd[r].own)
           found == rd[r].want \cap (own \cup rd[r].frozen)
           scan == rd[r].kind = "query"
       IN rd' = [rd EXCEPT ![r].pc = IF scan THEN "tables" ELSE "files",
                           ![r].own = IF scan /\ own # {} THEN @ ELSE 0,
                           ![r].frozen = {}, ![r].got = found]
    /\ UNCHANGED <<vars, http, reply, seen>>

\* The copied readers are still open: Close has not released them.
FilesOpen == status # "closed"

Holding(r) == {t \in rd[r].tabs : sst[t] \cap rd[r].want # {}}

\* Engine.Get reads an SSTable only if memory has nothing; a reader that was
\* closed meanwhile fails.  A record of another tenant is "not found".
AnswerGet(r) ==
    /\ rd[r].pc = "files"
    /\ LET inFiles == rd[r].want \cap UNION {sst[t] : t \in Holding(r)}
           found == IF rd[r].got # {} THEN rd[r].got ELSE inFiles
       IN IF rd[r].got = {} /\ Holding(r) # {} /\ ~FilesOpen
            THEN Finish(r, "500", {})
            ELSE IF OwnOnly(r, found) = {} THEN Finish(r, "404", {})
            ELSE Finish(r, "200", OwnOnly(r, found))
    /\ UNCHANGED <<vars, http, reply>>

\* Every SSTable's first block is read when its cursor is added; a cursor
\* that fails there is dropped without a trace.
OpenTables(r) ==
    /\ rd[r].pc = "tables"
    /\ rd' = [rd EXCEPT ![r].pc = "merge", ![r].tabs = IF FilesOpen THEN @ ELSE {}]
    /\ UNCHANGED <<vars, http, reply, seen>>

\* The MemTable cursors reach their end before the SSTables' do.
ExhaustMemory(r) ==
    /\ rd[r].pc = "merge" /\ rd[r].own # 0
    /\ rd' = [rd EXCEPT ![r].own = 0]
    /\ UNCHANGED <<vars, http, reply, seen>>

\* The merge ends: with the rows, or with the error of a block that was
\* still to be read when its file was closed.
AnswerQuery(r) ==
    /\ rd[r].pc = "merge"
    /\ \/ Finish(r, "200", OwnOnly(r, rd[r].got \cup UNION {sst[t] : t \in rd[r].tabs}))
       \/ /\ ~FilesOpen /\ \E t \in rd[r].tabs : Cardinality(sst[t]) > 1
          /\ Finish(r, "400", {})
    /\ UNCHANGED <<vars, http, reply>>

ReadStep(r) ==
    \/ CheckClosed(r) \/ Snapshot(r) \/ LookMemory(r) \/ AnswerGet(r)
    \/ OpenTables(r) \/ ExhaustMemory(r) \/ AnswerQuery(r)

-----------------------------------------------------------------------------
(* The background workers: rotation takes the MemTable's lock (Freeze).    *)

Freezing == (FreezeRotate \/ SealFail) /\ ~Iterating(seg)

Worker ==
    /\ \/ Freezing \/ FreezeReceive \/ FreezeSkip \/ FreezeFatal \/ FreezeSignal
       \/ FreezeExit \/ FlushStep
    /\ Same

-----------------------------------------------------------------------------
(* run() and Server.Serve                                                  *)

Start ==
    /\ Open
    /\ http' = "serving" /\ seen' = Visible'
    /\ UNCHANGED <<reply, rd>>

\* SIGINT or SIGTERM: the listener is closed, Shutdown waits.
Signal ==
    /\ http = "serving" /\ http' = "draining"
    /\ UNCHANGED <<vars, reply, rd, seen>>

Drained ==
    /\ http = "draining" /\ Idle
    /\ http' = "returned"
    /\ UNCHANGED <<vars, reply, rd, seen>>

\* ShutdownTimeout passes: Shutdown returns, the requests go on.
DrainTimeout ==
    /\ "timeout" \in Endings /\ http = "draining"
    /\ http' = "returned"
    /\ UNCHANGED <<vars, reply, rd, seen>>

\* The listener fails: Serve returns at once.
ServeError ==
    /\ "error" \in Endings /\ http = "serving"
    /\ http' = "returned"
    /\ UNCHANGED <<vars, reply, rd, seen>>

\* run closes the engine after Serve, whatever Serve returned.
CloseEngine ==
    /\ \/ http = "returned" /\ CloseBegin
       \/ CloseFinish
    /\ Same

\* The process exits or is killed.
Exit ==
    /\ Stop
    /\ http' = "off"
    /\ reply' = [c \in Calls |-> IF reply[c] = "pending" THEN "dropped" ELSE reply[c]]
    /\ rd' = [r \in Readers |-> IF rd[r].pc = "idle" THEN Unread
                                ELSE [Unread EXCEPT !.pc = "dead"]]
    /\ seen' = {}

ServerNext ==
    /\ \/ \E c \in Calls : AcceptIngest(c) \/ Ingest(c)
       \/ \E r \in Readers : AcceptRead(r) \/ ReadStep(r)
       \/ Worker
       \/ Start \/ Signal \/ Drained \/ DrainTimeout \/ ServeError \/ CloseEngine \/ Exit
    /\ KeepReferenced

ServerSpec == ServerInit /\ [][ServerNext]_serverVars

-----------------------------------------------------------------------------
(* Properties                                                              *)

ReadTypeOK(r) ==
    /\ rd[r].pc \in {"idle", "check", "locking", "memory", "files", "tables",
                     "merge", "done", "dead"}
    /\ rd[r].kind \in {"get", "query"} /\ rd[r].tenant \in Tenants \cup {"none"}
    /\ rd[r].code \in {"none", "200", "400", "404", "500", "503"}
    /\ rd[r].own \in Nat /\ rd[r].tabs \subseteq Nat
    /\ UNION {rd[r].want, rd[r].must, rd[r].frozen, rd[r].got} \subseteq Calls

\* Requests and the process around the engine stay in the states the code
\* has, and what a read refers to exists as long as the read does.
ServerTypeOK ==
    /\ http \in {"off", "serving", "draining", "returned"}
    /\ (http = "off") <=> (status = "down")
    /\ reply \in [Calls -> {"none", "pending", "200", "429", "500", "503", "dropped"}]
    /\ \A r \in Readers : ReadTypeOK(r)
    /\ \A r \in Readers :
         rd[r].own # 0 => rd[r].own = seg \/ rd[r].own \in DOMAIN rotated
    /\ \A r \in Readers : rd[r].tabs \subseteq DOMAIN sst
    /\ seen \subseteq Calls

\* The records of its tenant that request r may not miss.
Owed(r) == OwnOnly(r, rd[r].must)

\* GET /logs/{docID} answers 404 for a record of the caller's tenant only if,
\* when the request began, this run of the process had neither recovered,
\* nor acknowledged, nor returned it: the lookup in active, frozen and
\* SSTables, over copies taken under one lock, falls into no gap of rotation
\* or of a flush.  Once Close has released the readers (ShutdownTimeout
\* passed) this is no longer so.
GetFindsAcked ==
    \A r \in Readers :
        rd[r].code = "404" => Owed(r) = {} \/ status \in {"closed", "down"}

\* POST /query answers with every record of the caller's tenant that this run
\* of the process had recovered, acknowledged or returned when the request
\* began, and with none of another tenant ("clients cannot forge tenancy").
QueryAnswersOwn ==
    \A r \in Readers :
        rd[r].code = "200" =>
            /\ Owed(r) \subseteq rd[r].got \/ status \in {"closed", "down"}
            /\ \A c \in rd[r].got : Owner[c] = rd[r].tenant

\* 429 and 503 tell a client that it may send the record again: it is in no
\* segment, no MemTable and no SSTable, and no recovery will produce it.
RefusedNotStored ==
    \A c \in Calls :
        reply[c] \in {"429", "503"} =>
            c \notin UNION {active, FrozenRecords, Logged, Persisted}

\* As long as the process lives a record answered with 200 is in a segment or
\* an SSTable: through rotation, flush and deletion of segments, when the
\* segment could not be sealed, and when ShutdownTimeout passed and Close
\* releases the log under the request that appends to it.
AnsweredOnDisk ==
    \A c \in Calls :
        (reply[c] = "200" /\ pc[c] = "ok") =>
            \/ \E s \in DOMAIN wal : c \in Range(wal[s])
            \/ \E i \in DOMAIN sst : c \in sst[i]

\* cmd/distlog/main.go:66: the engine is closed after the server "so no
\* in-flight write hits a half-closed engine".
NoWriteHitsHalfClosed ==
    status = "closed" =>
        \A c \in Pending : pc[c] \notin {"bound", "panic"}

\* A shutdown ends: a stalled write is answered, whether retried flushes make
\* room for it or give up, or the drain times out over it; the workers exit
\* and Close returns.
ShutdownEnds == (http = "draining") ~> (status \in {"closed", "down"})

-----------------------------------------------------------------------------
(* Goroutines that can run do run, and run calls Close; clients send       *)
(* nothing, no signal arrives and no time limit passes by necessity.       *)
(* Requests are finitely many with finitely many steps, and so is what the *)
(* workers find to do, so fairness for one step at a time is enough.       *)
Progress ==
    /\ \/ \E c \in Calls : IngestStep(c)
       \/ \E r \in Readers : ReadStep(r)
       \/ Worker \/ Drained \/ CloseEngine
    /\ KeepReferenced

FairServerSpec == ServerSpec /\ WF_serverVars(Progress)
=============================================================================
