---------------------------- MODULE DurableStore ----------------------------
(***************************************************************************)
(* What the engine promises its clients (the package comment of            *)
(* internal/engine, the comment of Engine.Write, README "What's in it"):   *)
(* an append-only store.  A record becomes durable, then visible, and is   *)
(* acknowledged once it is durable.  Freezing, flushing and deleting WAL   *)
(* segments are not observable.  When the process stops, reads stop and    *)
(* nothing durable is lost; recovery serves exactly what is durable.       *)
(***************************************************************************)
EXTENDS FiniteSets

CONSTANT Calls

VARIABLES
    contents,   \* the durable records
    view,       \* the records reads return
    acked       \* the records whose Write returned success

vars == <<contents, view, acked>>

Init == contents = {} /\ view = {} /\ acked = {}

Persist(c) ==
    /\ contents' = contents \cup {c}
    /\ UNCHANGED <<view, acked>>

Expose(c) ==
    /\ c \in contents
    /\ view' = view \cup {c}
    /\ UNCHANGED <<contents, acked>>

Acknowledge(c) ==
    /\ c \in contents
    /\ acked' = acked \cup {c}
    /\ UNCHANGED <<contents, view>>

\* The process stops, or Close releases the readers.
Hide == view' = {} /\ UNCHANGED <<contents, acked>>

Recover == view' = contents /\ UNCHANGED <<contents, acked>>

Next ==
    \/ \E c \in Calls : Persist(c) \/ Expose(c) \/ Acknowledge(c)
    \/ Hide
    \/ Recover

Spec == Init /\ [][Next]_vars
=============================================================================
