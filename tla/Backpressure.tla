---------------------------- MODULE Backpressure ----------------------------
(***************************************************************************)
(* The write stall of ADR-009: waitForStallClear with its condition        *)
(* variable, the per-call watchdog that turns context expiry into a        *)
(* broadcast, and the steps of freeze, flush and shutdown that change the  *)
(* predicate or broadcast.  The rest of Engine.Write is one action; sizes  *)
(* are counts of records.                                                  *)
(*                                                                         *)
(* stallMu is only ever held for a section without another blocking call,  *)
(* and the flags read inside are set once and never cleared, so a section  *)
(* is one action and the mutex needs no variable.  What is NOT atomic is   *)
(* the predicate: it is read under e.mu with stallMu released.             *)
(***************************************************************************)
EXTENDS Integers, FiniteSets

CONSTANTS
    Writers,     \* calls of Engine.Write
    SoftLimit,   \* Config.MemTableSizeLimit
    HardLimit,   \* Config.MemTableHardLimit
    MaxFrozen,   \* Config.MaxFrozenMemTables
    Halts        \* how the engine may stop: a subset of {"closed", "fatal"}

ASSUME WritersAssumption == IsFiniteSet(Writers)
ASSUME LimitsAssumption ==
    SoftLimit \in Nat \ {0} /\ HardLimit \in Nat \ {0} /\ MaxFrozen \in Nat \ {0}
ASSUME HaltsAssumption == Halts \subseteq {"closed", "fatal"}

VARIABLES
    active,      \* size of the active MemTable
    frozen,      \* length of the frozen queue
    freezer,     \* freezeLoop: "idle", "notify", "exit"
    flusher,     \* flushLoop: "idle", "flushing", "notify", "exit"
    halt,        \* "no", or which of e.closed and e.fatal is set
    halter,      \* the goroutine in signalShutdown
    shutdown,    \* shutdownCh is closed
    waiting,     \* the writers asleep in stallCond.Wait
    pc,          \* each writer's place in waitForStallClear
    clear,       \* what it last read of the predicate
    watchdog,    \* "none", "select", "broadcast", "done"
    stop,        \* its stop channel is closed
    expired,     \* its context is done
    outcome      \* "none", "ok", "err"

engine == <<active, frozen, freezer, flusher, halt, halter, shutdown>>
calls == <<pc, clear, watchdog, stop, expired, outcome>>
vars == <<engine, waiting, calls>>

\* Mutation: the hard limit compared with > instead of >=.
StalledPastLimit == active > HardLimit /\ frozen >= MaxFrozen

Stalled == active >= HardLimit /\ frozen >= MaxFrozen
InLoop == {"check", "read", "relock", "wait"}
Goto(w, label) == pc' = [pc EXCEPT ![w] = label]

\* Mutation: the broadcast reaches nobody.
BroadcastLost == UNCHANGED waiting

Broadcast == waiting' = {}

\* Earlier writes left any mix of active and frozen records behind.
Init ==
    /\ active \in 0..HardLimit /\ frozen \in 0..MaxFrozen
    /\ freezer = "idle" /\ flusher = "idle"
    /\ halt = "no" /\ halter = "idle" /\ shutdown = FALSE
    /\ waiting = {}
    /\ pc = [w \in Writers |-> "start"]
    /\ clear = [w \in Writers |-> FALSE]
    /\ watchdog = [w \in Writers |-> "none"]
    /\ stop = [w \in Writers |-> FALSE]
    /\ expired = [w \in Writers |-> FALSE]
    /\ outcome = [w \in Writers |-> "none"]

-----------------------------------------------------------------------------
(* The writer                                                              *)

\* ErrClosed or ErrEngineFatal, or on to the gate
Enter(w) ==
    /\ pc[w] = "start"
    /\ \/ halt = "no" /\ Goto(w, "gate") /\ UNCHANGED outcome
       \/ /\ halt # "no"
          /\ Goto(w, "returned") /\ outcome' = [outcome EXCEPT ![w] = "err"]
    /\ UNCHANGED <<engine, waiting, clear, watchdog, stop, expired>>

FastPath(w) ==
    /\ pc[w] = "gate" /\ ~Stalled
    /\ Goto(w, "write") /\ outcome' = [outcome EXCEPT ![w] = "ok"]
    /\ UNCHANGED <<engine, waiting, clear, watchdog, stop, expired>>

StartWatchdog(w) ==
    /\ pc[w] = "gate" /\ Stalled
    /\ Goto(w, "check") /\ watchdog' = [watchdog EXCEPT ![w] = "select"]
    /\ UNCHANGED <<engine, waiting, clear, stop, expired, outcome>>

\* Return from the loop: the deferred unlock, then close(stop).
Leave(w, result) ==
    /\ Goto(w, "join") /\ outcome' = [outcome EXCEPT ![w] = result]
    /\ stop' = [stop EXCEPT ![w] = TRUE]
    /\ UNCHANGED <<engine, waiting, clear, watchdog, expired>>

LoopTop(w) ==
    /\ pc[w] = "check"
    /\ \/ (expired[w] \/ halt # "no") /\ Leave(w, "err")
       \/ /\ ~expired[w] /\ halt = "no"
          /\ Goto(w, "read")
          /\ UNCHANGED <<engine, waiting, clear, watchdog, stop, expired, outcome>>

\* The predicate is read under e.mu, without stallMu.
ReadPredicate(w) ==
    /\ pc[w] = "read"
    /\ clear' = [clear EXCEPT ![w] = ~Stalled]
    /\ Goto(w, "relock")
    /\ UNCHANGED <<engine, waiting, watchdog, stop, expired, outcome>>

\* Mutation: the context is not checked again before Wait.
RelockUnchecked(w) ==
    /\ pc[w] = "relock"
    /\ \/ clear[w] /\ Leave(w, "ok")
       \/ /\ ~clear[w]
          /\ waiting' = waiting \cup {w}
          /\ Goto(w, "wait")
          /\ UNCHANGED <<engine, clear, watchdog, stop, expired, outcome>>

\* With stallMu held again: leave, or give the mutex up inside Wait.
Relock(w) ==
    /\ pc[w] = "relock"
    /\ \/ clear[w] /\ Leave(w, "ok")
       \/ ~clear[w] /\ expired[w] /\ Leave(w, "err")
       \/ /\ ~clear[w] /\ ~expired[w]
          /\ waiting' = waiting \cup {w}
          /\ Goto(w, "wait")
          /\ UNCHANGED <<engine, clear, watchdog, stop, expired, outcome>>

Wake(w) ==
    /\ pc[w] = "wait" /\ w \notin waiting
    /\ Goto(w, "check")
    /\ UNCHANGED <<engine, waiting, clear, watchdog, stop, expired, outcome>>

\* Mutation: the watchdog is told to stop but not waited for.
JoinUnwaited(w) ==
    /\ pc[w] = "join"
    /\ Goto(w, IF outcome[w] = "ok" THEN "write" ELSE "returned")
    /\ UNCHANGED <<engine, waiting, clear, watchdog, stop, expired, outcome>>

\* <-watchdogDone, then the caller goes on or returns the error.
Join(w) ==
    /\ pc[w] = "join" /\ watchdog[w] = "done"
    /\ Goto(w, IF outcome[w] = "ok" THEN "write" ELSE "returned")
    /\ UNCHANGED <<engine, waiting, clear, watchdog, stop, expired, outcome>>

\* The rest of Engine.Write.
Write(w) ==
    /\ pc[w] = "write"
    /\ active' = active + 1
    /\ Goto(w, "returned")
    /\ UNCHANGED <<frozen, freezer, flusher, halt, halter, shutdown, waiting,
                   clear, watchdog, stop, expired, outcome>>

WriterStep(w) ==
    \/ Enter(w) \/ FastPath(w) \/ StartWatchdog(w) \/ LoopTop(w)
    \/ ReadPredicate(w) \/ Relock(w) \/ Wake(w) \/ Join(w) \/ Write(w)

-----------------------------------------------------------------------------
(* Its watchdog: one select, one broadcast.                                *)

WatchdogSelect(w) ==
    /\ watchdog[w] = "select"
    /\ \/ /\ expired[w] \/ shutdown
          /\ watchdog' = [watchdog EXCEPT ![w] = "broadcast"]
       \/ stop[w] /\ watchdog' = [watchdog EXCEPT ![w] = "done"]
    /\ UNCHANGED <<engine, waiting, pc, clear, stop, expired, outcome>>

WatchdogBroadcast(w) ==
    /\ watchdog[w] = "broadcast"
    /\ Broadcast
    /\ watchdog' = [watchdog EXCEPT ![w] = "done"]
    /\ UNCHANGED <<engine, pc, clear, stop, expired, outcome>>

WatchdogStep(w) == WatchdogSelect(w) \/ WatchdogBroadcast(w)

Expire(w) ==
    /\ ~expired[w] /\ pc[w] # "returned"
    /\ expired' = [expired EXCEPT ![w] = TRUE]
    /\ UNCHANGED <<engine, waiting, pc, clear, watchdog, stop, outcome>>

-----------------------------------------------------------------------------
(* Freeze, flush, shutdown                                                 *)

Rotate ==
    /\ freezer = "idle" /\ halt # "fatal"
    /\ active >= SoftLimit /\ frozen < MaxFrozen
    /\ active' = 0 /\ frozen' = frozen + 1 /\ freezer' = "notify"
    /\ UNCHANGED <<flusher, halt, halter, shutdown, waiting, calls>>

FreezerNotify ==
    /\ freezer = "notify"
    /\ Broadcast /\ freezer' = "idle"
    /\ UNCHANGED <<active, frozen, flusher, halt, halter, shutdown, calls>>

FreezerExit ==
    /\ freezer = "idle" /\ shutdown
    /\ freezer' = "exit"
    /\ UNCHANGED <<active, frozen, flusher, halt, halter, shutdown, waiting, calls>>

FlushStart ==
    /\ flusher = "idle" /\ halt # "fatal" /\ frozen > 0
    /\ flusher' = "flushing"
    /\ UNCHANGED <<active, frozen, freezer, halt, halter, shutdown, waiting, calls>>

\* The SSTable is in place and replaces frozen[0].
FlushSwap ==
    /\ flusher = "flushing"
    /\ frozen' = frozen - 1 /\ flusher' = "notify"
    /\ UNCHANGED <<active, freezer, halt, halter, shutdown, waiting, calls>>

FlusherNotify ==
    /\ flusher = "notify"
    /\ Broadcast /\ flusher' = "idle"
    /\ UNCHANGED <<active, frozen, freezer, halt, halter, shutdown, calls>>

FlusherExit ==
    /\ flusher = "idle" /\ shutdown
    /\ flusher' = "exit"
    /\ UNCHANGED <<active, frozen, freezer, halt, halter, shutdown, waiting, calls>>

\* Close, or onFatalError: set the flag, then signalShutdown.
HaltBegin ==
    /\ halt = "no"
    /\ halt' \in Halts /\ halter' = "signal"
    /\ UNCHANGED <<active, frozen, freezer, flusher, shutdown, waiting, calls>>

SignalShutdown ==
    /\ halter = "signal"
    /\ shutdown' = TRUE /\ halter' = "notify"
    /\ UNCHANGED <<active, frozen, freezer, flusher, halt, waiting, calls>>

HaltNotify ==
    /\ halter = "notify"
    /\ Broadcast /\ halter' = "idle"
    /\ UNCHANGED <<active, frozen, freezer, flusher, halt, shutdown, calls>>

FreezerStep == Rotate \/ FreezerNotify \/ FreezerExit
FlusherStep == FlushStart \/ FlushSwap \/ FlusherNotify \/ FlusherExit
HalterStep == SignalShutdown \/ HaltNotify

Next ==
    \/ \E w \in Writers : WriterStep(w) \/ WatchdogStep(w) \/ Expire(w)
    \/ FreezerStep \/ FlusherStep
    \/ HaltBegin \/ HalterStep

Spec == Init /\ [][Next]_vars

\* Every goroutine that can run does; a disk may stall a flush for ever, so
\* the flusher is fair only where a property needs it to be.
Fairness ==
    /\ \A w \in Writers : WF_vars(WriterStep(w)) /\ WF_vars(WatchdogStep(w))
    /\ WF_vars(FreezerStep) /\ WF_vars(HalterStep)

FairSpec == Spec /\ Fairness
DrainingSpec == FairSpec /\ WF_vars(FlusherStep)

-----------------------------------------------------------------------------
TypeOK ==
    /\ active \in Nat /\ frozen \in 0..MaxFrozen
    /\ freezer \in {"idle", "notify", "exit"}
    /\ flusher \in {"idle", "flushing", "notify", "exit"}
    /\ halt \in {"no", "closed", "fatal"}
    /\ halter \in {"idle", "signal", "notify"} /\ shutdown \in BOOLEAN
    /\ waiting \subseteq Writers
    /\ pc \in [Writers -> InLoop \cup {"start", "gate", "join", "write", "returned"}]
    /\ clear \in [Writers -> BOOLEAN] /\ expired \in [Writers -> BOOLEAN]
    /\ watchdog \in [Writers -> {"none", "select", "broadcast", "done"}]
    /\ stop \in [Writers -> BOOLEAN]
    /\ outcome \in [Writers -> {"none", "ok", "err"}]

\* A writer asleep with an expired context has a broadcast still to come
\* from its own watchdog, as long as the engine is not shutting down: the
\* one select of the watchdog is not wasted on an earlier wake.
WakeupPending ==
    \A w \in waiting :
        expired[w] /\ ~shutdown => watchdog[w] \in {"select", "broadcast"}

\* waitForStallClear joins its watchdog before it returns: no goroutine
\* leaks "regardless of which side wins the race".
NoWatchdogLeak ==
    \A w \in Writers :
        pc[w] \in {"write", "returned"} => watchdog[w] \in {"none", "done"}

\* ADR-009: with the frozen queue full the active MemTable exceeds the hard
\* limit by no more than the calls that got past the gate together, although
\* each of them read the predicate without the others' appends.
StallBound ==
    frozen >= MaxFrozen => active <= HardLimit - 1 + Cardinality(Writers)

\* A writer asleep in a stall does not need its context: if flushes go on,
\* the one that drains a slot wakes it.
SleeperWoken ==
    WF_vars(FlusherStep) =>
        \A w \in Writers :
            (w \in waiting /\ Stalled) ~> (w \notin waiting \/ halt # "no")

\* While the engine neither closes nor fails an expired context ends the
\* call, even if no flush ever finishes.
TimeoutEndsCall ==
    \A w \in Writers : expired[w] ~> (pc[w] = "returned" \/ halt # "no")

\* Write's comment: "Blocking is bounded by ctx".
BlockingBoundedByCtx ==
    \A w \in Writers : expired[w] ~> pc[w] = "returned"

\* MemTableHardLimit's comment: Write blocks "until ctx expiry or until
\* flush drains a slot"; nobody sleeps on while there is room.
DrainWakesWriters ==
    \A w \in Writers :
        (pc[w] = "wait" /\ ~Stalled) ~> (pc[w] # "wait" \/ Stalled)
=============================================================================
