------------------------- MODULE BackpressureProofs -------------------------
(***************************************************************************)
(* Proofs about module Backpressure, for any number of writers and any     *)
(* limits.                                                                 *)
(***************************************************************************)
EXTENDS Backpressure, FiniteSetTheorems, TLAPS

\* The watchdog runs exactly while its writer is in the wait loop, and ends
\* before its writer does only by way of its one broadcast.
WatchdogInv ==
    \A w \in Writers :
        /\ pc[w] \in {"start", "gate"} => watchdog[w] = "none" /\ ~stop[w]
        /\ pc[w] \in InLoop => watchdog[w] # "none" /\ ~stop[w]
        /\ pc[w] \in InLoop /\ watchdog[w] \in {"broadcast", "done"} =>
             expired[w] \/ shutdown
        /\ w \in waiting => pc[w] = "wait"

\* A flush is only in progress while something is queued.
FlushHasWork == flusher = "flushing" => frozen > 0

StallInv == TypeOK /\ FlushHasWork /\ WatchdogInv /\ WakeupPending /\ NoWatchdogLeak

\* It holds before any call.
LEMMA InitStall == Init => StallInv
<1> SUFFICES ASSUME Init PROVE StallInv
  OBVIOUS
<1>1. TypeOK
  <2>1. active \in Nat /\ frozen \in 0..MaxFrozen
    BY LimitsAssumption DEF Init
  <2>2. /\ pc \in [Writers -> InLoop \cup {"start", "gate", "join", "write", "returned"}]
        /\ clear \in [Writers -> BOOLEAN] /\ expired \in [Writers -> BOOLEAN]
        /\ watchdog \in [Writers -> {"none", "select", "broadcast", "done"}]
        /\ stop \in [Writers -> BOOLEAN]
        /\ outcome \in [Writers -> {"none", "ok", "err"}]
    BY DEF Init
  <2> QED
    BY <2>1, <2>2 DEF Init, TypeOK
<1>2. FlushHasWork
  BY DEF Init, FlushHasWork
<1>3. WatchdogInv /\ WakeupPending /\ NoWatchdogLeak
  BY DEF Init, WatchdogInv, WakeupPending, NoWatchdogLeak, InLoop
<1> QED
  BY <1>1, <1>2, <1>3 DEF StallInv

\* The engine's own steps move no writer and no watchdog, and wake sleepers
\* or leave them.
LEMMA EngineFrame ==
    ASSUME FreezerStep \/ FlusherStep \/ HaltBegin \/ HalterStep
    PROVE  /\ UNCHANGED calls /\ waiting' \subseteq waiting
           /\ shutdown' = shutdown \/ shutdown' = TRUE
  BY DEF FreezerStep, FlusherStep, HalterStep, Rotate, FreezerNotify, FreezerExit, FlushStart,
         FlushSwap, FlusherNotify, FlusherExit, HaltBegin, SignalShutdown, HaltNotify, Broadcast

\* The steps of the freezer, the flusher, Close and fatal state keep the types.
LEMMA EngineType ==
    ASSUME TypeOK, FlushHasWork, FreezerStep \/ FlusherStep \/ HaltBegin \/ HalterStep
    PROVE  TypeOK' /\ FlushHasWork'
<1> USE LimitsAssumption, HaltsAssumption DEF TypeOK, FlushHasWork, calls
<1>1. CASE Rotate
  BY <1>1 DEF Rotate
<1>2. CASE FreezerNotify \/ FreezerExit
  BY <1>2 DEF FreezerNotify, FreezerExit, Broadcast
<1>3. CASE FlushStart
  BY <1>3 DEF FlushStart
<1>4. CASE FlushSwap
  BY <1>4 DEF FlushSwap
<1>5. CASE FlusherNotify \/ FlusherExit
  BY <1>5 DEF FlusherNotify, FlusherExit, Broadcast
<1>6. CASE HaltBegin \/ HalterStep
  BY <1>6 DEF HaltBegin, HalterStep, SignalShutdown, HaltNotify, Broadcast
<1> QED
  BY <1>1, <1>2, <1>3, <1>4, <1>5, <1>6 DEF FreezerStep, FlusherStep

\* They keep a broadcast owed to every writer that sleeps with an expired context.
LEMMA EngineStall ==
    ASSUME StallInv, FreezerStep \/ FlusherStep \/ HaltBegin \/ HalterStep
    PROVE  StallInv'
<1>1. /\ UNCHANGED calls /\ waiting' \subseteq waiting
      /\ shutdown' = shutdown \/ shutdown' = TRUE
  BY EngineFrame
<1>2. TypeOK' /\ FlushHasWork'
  BY EngineType DEF StallInv
<1>3. WatchdogInv' /\ WakeupPending' /\ NoWatchdogLeak'
  BY <1>1 DEF StallInv, WatchdogInv, WakeupPending, NoWatchdogLeak, InLoop, calls
<1> QED
  BY <1>2, <1>3 DEF StallInv

\* A writer, its watchdog and its context keep the types.
LEMMA WriterType ==
    ASSUME StallInv, NEW w \in Writers, WriterStep(w) \/ WatchdogStep(w) \/ Expire(w)
    PROVE  TypeOK' /\ FlushHasWork'
<1> USE DEF StallInv, TypeOK, FlushHasWork, InLoop, engine, Goto
<1>1. CASE Enter(w)
  BY <1>1 DEF Enter
<1>2. CASE FastPath(w)
  BY <1>2 DEF FastPath
<1>3. CASE StartWatchdog(w)
  BY <1>3 DEF StartWatchdog
<1>4. CASE LoopTop(w)
  BY <1>4 DEF LoopTop, Leave
<1>5. CASE ReadPredicate(w)
  BY <1>5 DEF ReadPredicate
<1>6. CASE Relock(w)
  BY <1>6 DEF Relock, Leave
<1>7. CASE Wake(w)
  BY <1>7 DEF Wake
<1>8. CASE Join(w)
  BY <1>8 DEF Join
<1>9. CASE Write(w)
  BY <1>9 DEF Write
<1>10. CASE WatchdogSelect(w)
  BY <1>10 DEF WatchdogSelect
<1>11. CASE WatchdogBroadcast(w)
  BY <1>11 DEF WatchdogBroadcast, Broadcast
<1>12. CASE Expire(w)
  BY <1>12 DEF Expire
<1> QED
  BY <1>1, <1>2, <1>3, <1>4, <1>5, <1>6, <1>7, <1>8, <1>9, <1>10, <1>11, <1>12
     DEF WriterStep, WatchdogStep

\* They keep each writer's watchdog alive for as long as it is needed.
LEMMA WriterStall ==
    ASSUME StallInv, NEW w \in Writers, WriterStep(w) \/ WatchdogStep(w) \/ Expire(w)
    PROVE  WatchdogInv' /\ WakeupPending' /\ NoWatchdogLeak'
<1> USE DEF StallInv, TypeOK, WatchdogInv, WakeupPending, NoWatchdogLeak, InLoop, engine,
            Goto
<1>1. CASE Enter(w)
  <2>1. /\ UNCHANGED <<waiting, watchdog, stop, expired, shutdown>>
        /\ pc[w] = "start"
        /\ Goto(w, "gate") \/ Goto(w, "returned")
    BY <1>1 DEF Enter
  <2> QED
    BY <2>1
<1>2. CASE FastPath(w)
  BY <1>2 DEF FastPath
<1>3. CASE StartWatchdog(w)
  <2>1. /\ UNCHANGED <<waiting, stop, expired, shutdown>> /\ pc[w] = "gate"
        /\ Goto(w, "check") /\ watchdog' = [watchdog EXCEPT ![w] = "select"]
    BY <1>3 DEF StartWatchdog
  <2>2. w \notin waiting /\ ~stop[w]
    BY <2>1
  <2> QED
    BY <2>1, <2>2
<1>4. CASE LoopTop(w)
  BY <1>4 DEF LoopTop, Leave
<1>5. CASE ReadPredicate(w)
  BY <1>5 DEF ReadPredicate
<1>6. CASE Relock(w)
  BY <1>6 DEF Relock, Leave
<1>7. CASE Wake(w)
  BY <1>7 DEF Wake
<1>8. CASE Join(w)
  BY <1>8 DEF Join
<1>9. CASE Write(w)
  <2>1. /\ UNCHANGED <<waiting, watchdog, stop, expired, shutdown>>
        /\ pc[w] = "write" /\ Goto(w, "returned")
    BY <1>9 DEF Write
  <2> QED
    BY <2>1
<1>10. CASE WatchdogSelect(w)
  <2>1. UNCHANGED <<waiting, pc, stop, expired, shutdown>> /\ watchdog[w] = "select"
    BY <1>10 DEF WatchdogSelect
  <2>2. CASE (expired[w] \/ shutdown) /\ watchdog' = [watchdog EXCEPT ![w] = "broadcast"]
    BY <2>1, <2>2
  <2>3. CASE stop[w] /\ watchdog' = [watchdog EXCEPT ![w] = "done"]
    <3>1. pc[w] \notin InLoop
      BY <2>3
    <3> QED
      BY <2>1, <2>3, <3>1
  <2> QED
    BY <1>10, <2>2, <2>3 DEF WatchdogSelect
<1>11. CASE WatchdogBroadcast(w)
  BY <1>11 DEF WatchdogBroadcast, Broadcast
<1>12. CASE Expire(w)
  BY <1>12 DEF Expire
<1> QED
  BY <1>1, <1>2, <1>3, <1>4, <1>5, <1>6, <1>7, <1>8, <1>9, <1>10, <1>11, <1>12
     DEF WriterStep, WatchdogStep

\* The invariant holds in every reachable state.
THEOREM StallInvariant == Spec => []StallInv
<1>1. StallInv /\ [Next]_vars => StallInv'
  <2> SUFFICES ASSUME StallInv, [Next]_vars PROVE StallInv'
    OBVIOUS
  <2>1. CASE UNCHANGED vars
    BY <2>1 DEF vars, engine, calls, StallInv, TypeOK, FlushHasWork, WatchdogInv,
                WakeupPending, NoWatchdogLeak
  <2>2. ASSUME NEW w \in Writers, WriterStep(w) \/ WatchdogStep(w) \/ Expire(w)
        PROVE  StallInv'
    BY <2>2, WriterType, WriterStall DEF StallInv
  <2> QED
    BY <2>1, <2>2, EngineStall DEF Next
<1> QED
  BY <1>1, InitStall, PTL DEF Spec

\* A writer asleep with an expired context still has its watchdog's
\* broadcast to come, or the engine is shutting down: the watchdog's single
\* select cannot be used up by an earlier wake.
THEOREM NoLostTimeout == Spec => []WakeupPending
<1>1. StallInv => WakeupPending
  BY DEF StallInv
<1> QED
  BY <1>1, StallInvariant, PTL

\* No writer leaves waitForStallClear before its watchdog has ended.
THEOREM WatchdogJoined == Spec => []NoWatchdogLeak
<1>1. StallInv => NoWatchdogLeak
  BY DEF StallInv
<1> QED
  BY <1>1, StallInvariant, PTL

-----------------------------------------------------------------------------
(* The overshoot.                                                          *)

\* The calls that have read the predicate as clear and not written yet.
Passed(w) ==
    \/ pc[w] = "relock" /\ clear[w]
    \/ pc[w] = "join" /\ outcome[w] = "ok"
    \/ pc[w] = "write"
AllPassed == {w \in Writers : Passed(w)}

\* While the queue is full, what is active and what is about to be written
\* stay within the bound together: a call passes only below the hard limit,
\* and a full queue begins with an empty MemTable.
Overshoot ==
    frozen >= MaxFrozen =>
        active + Cardinality(AllPassed) <= HardLimit - 1 + Cardinality(Writers)

\* Counting.
LEMMA PassedCount ==
    /\ IsFiniteSet(Writers) /\ IsFiniteSet(AllPassed)
    /\ Cardinality(Writers) \in Nat /\ Cardinality(AllPassed) \in Nat
    /\ Cardinality(AllPassed) <= Cardinality(Writers)
  BY WritersAssumption, FS_Subset, FS_CardinalityType DEF AllPassed

\* And after a step.
LEMMA PassedCountNext ==
    /\ IsFiniteSet(AllPassed') /\ Cardinality(AllPassed') \in Nat
    /\ Cardinality(AllPassed') <= Cardinality(Writers)
  BY WritersAssumption, FS_Subset, FS_CardinalityType DEF AllPassed

\* A step that lets nobody pass and adds no record.
LEMMA NobodyPasses ==
    ASSUME TypeOK, Overshoot, AllPassed' \subseteq AllPassed, active' = active,
           frozen' <= frozen, frozen' \in Nat
    PROVE  Overshoot'
<1>1. Cardinality(AllPassed') <= Cardinality(AllPassed)
  BY PassedCount, FS_Subset
<1> QED
  BY <1>1, PassedCount, PassedCountNext, LimitsAssumption DEF Overshoot, TypeOK

\* A call passes when the active MemTable is below the limit or the queue is
\* not full.
LEMMA OnePasses ==
    ASSUME TypeOK, ~Stalled, UNCHANGED <<active, frozen>>
    PROVE  Overshoot'
  BY PassedCount, PassedCountNext, LimitsAssumption DEF Overshoot, Stalled, TypeOK

LEMMA WriterOvershoot ==
    ASSUME TypeOK, Overshoot, NEW w \in Writers,
           WriterStep(w) \/ WatchdogStep(w) \/ Expire(w)
    PROVE  Overshoot'
<1> USE DEF TypeOK, InLoop, engine, Goto
<1>0. frozen \in Nat
  BY LimitsAssumption
<1>1. CASE FastPath(w) \/ (ReadPredicate(w) /\ ~Stalled)
  BY <1>1, OnePasses DEF FastPath, ReadPredicate
<1>2. CASE Write(w)
  <2>1. /\ UNCHANGED <<frozen, clear, outcome>> /\ active' = active + 1
        /\ pc[w] = "write" /\ pc' = [pc EXCEPT ![w] = "returned"]
    BY <1>2 DEF Write
  <2>2. w \in AllPassed /\ AllPassed' = AllPassed \ {w}
    BY <2>1 DEF AllPassed, Passed
  <2>3. Cardinality(AllPassed') = Cardinality(AllPassed) - 1
    BY <2>2, PassedCount, FS_RemoveElement
  <2> QED
    BY <1>0, <2>1, <2>3, PassedCount, LimitsAssumption DEF Overshoot
<1>3. CASE ~FastPath(w) /\ ~Write(w) /\ ~(ReadPredicate(w) /\ ~Stalled)
  <2>1. UNCHANGED <<active, frozen>>
    BY <1>3 DEF WriterStep, WatchdogStep, Expire, Enter, StartWatchdog, LoopTop, Leave,
         ReadPredicate, Relock, Wake, Join, WatchdogSelect, WatchdogBroadcast
  <2>2. \A v \in Writers : Passed(v)' => Passed(v)
    <3> USE DEF Passed
    <3>1. CASE Enter(w) \/ StartWatchdog(w) \/ LoopTop(w) \/ Wake(w)
      BY <3>1 DEF Enter, StartWatchdog, LoopTop, Leave, Wake
    <3>2. CASE ReadPredicate(w) /\ Stalled
      BY <3>2 DEF ReadPredicate
    <3>3. CASE Relock(w)
      BY <3>3 DEF Relock, Leave
    <3>4. CASE Join(w)
      BY <3>4 DEF Join
    <3>5. CASE WatchdogStep(w) \/ Expire(w)
      BY <3>5 DEF WatchdogStep, WatchdogSelect, WatchdogBroadcast, Expire
    <3> QED
      BY <1>3, <3>1, <3>2, <3>3, <3>4, <3>5 DEF WriterStep
  <2>3. AllPassed' \subseteq AllPassed
    BY <2>2 DEF AllPassed
  <2> QED
    BY <1>0, <2>1, <2>3, NobodyPasses
<1> QED
  BY <1>1, <1>2, <1>3

LEMMA EngineOvershoot ==
    ASSUME TypeOK, FlushHasWork, Overshoot,
           FreezerStep \/ FlusherStep \/ HaltBegin \/ HalterStep
    PROVE  Overshoot'
<1>1. AllPassed' = AllPassed
  BY EngineFrame DEF AllPassed, Passed, calls
<1>2. CASE Rotate
  <2>1. active' = 0
    BY <1>2 DEF Rotate
  <2> QED
    BY <2>1, PassedCount, PassedCountNext, LimitsAssumption DEF Overshoot
<1>3. CASE ~Rotate
  <2>1. active' = active /\ frozen' <= frozen /\ frozen' \in Nat
    BY <1>3, LimitsAssumption DEF FreezerStep, FlusherStep, HalterStep, FreezerNotify,
       FreezerExit, FlushStart, FlushSwap, FlusherNotify, FlusherExit, HaltBegin,
       SignalShutdown, HaltNotify, TypeOK, FlushHasWork
  <2> QED
    BY <1>1, <2>1, NobodyPasses
<1> QED
  BY <1>2, <1>3

\* With the queue full the active MemTable exceeds the hard limit by less
\* than the number of callers, whatever number that is.
THEOREM OvershootIsBounded == ASSUME Writers # {} PROVE Spec => []StallBound
<1>1. Init => Overshoot
  <2> SUFFICES ASSUME Init PROVE Overshoot
    OBVIOUS
  <2>1. AllPassed = {}
    BY DEF Init, AllPassed, Passed
  <2>2. Cardinality(AllPassed) = 0 /\ Cardinality(Writers) # 0
    BY <2>1, PassedCount, FS_EmptySet
  <2> QED
    BY <2>2, PassedCount, LimitsAssumption DEF Init, Overshoot
<1>2. StallInv /\ Overshoot /\ [Next]_vars => Overshoot'
  <2> SUFFICES ASSUME StallInv, Overshoot, [Next]_vars PROVE Overshoot'
    OBVIOUS
  <2>1. TypeOK /\ FlushHasWork
    BY DEF StallInv
  <2>2. CASE UNCHANGED vars
    <3>1. AllPassed' = AllPassed /\ UNCHANGED <<active, frozen>>
      BY <2>2 DEF vars, engine, calls, AllPassed, Passed
    <3> QED
      BY <3>1 DEF Overshoot
  <2> QED
    BY <2>1, <2>2, WriterOvershoot, EngineOvershoot DEF Next
<1>3. StallInv /\ Overshoot => StallBound
  BY PassedCount, LimitsAssumption DEF StallInv, TypeOK, Overshoot, StallBound
<1> QED
  BY <1>1, <1>2, <1>3, StallInvariant, PTL DEF Spec
=============================================================================
