------------------------------ MODULE MCServer ------------------------------
(* Small instances of Server for TLC. *)
EXTENDS Server, TLC
LOCAL INSTANCE SequencesExt

CONSTANT t1

\* One tenant owns every record; other tenants have none.
MCOwner == [c \in Calls |-> t1]

\* Ingest requests are then interchangeable.
CallSymmetry == Permutations(Calls)

\* The same where a run has a liveness property: requests are accepted, and
\* call Write, in the order of a fixed list.  Any other order is one of these
\* with the requests renamed, as accepted requests that have not called Write
\* do not differ.
CallList == SetToSeq(Calls)
InOrder ==
    \A i, j \in DOMAIN CallList : i < j =>
        /\ reply'[CallList[i]] = "none" => reply'[CallList[j]] = "none"
        /\ pc'[CallList[i]] = "idle" => pc'[CallList[j]] = "idle"

\* A bound: shutdown times out only while a request is stalled.
TimeoutWhenStalled ==
    (http = "draining" /\ http' = "returned") =>
        Pending = {} \/ \E c \in Calls : pc[c] = "stalled"

\* What a failed append leaves besides a whole record, whether a failed flush
\* leaves an orphan and whether a covered segment is deleted is nothing a
\* running process looks at: a run without a restart follows one outcome of
\* each.
NoLeftovers ==
    /\ \A s \in DOMAIN wal' : Torn \notin Range(wal'[s])
    /\ fl'.fails > fl.fails => sst' = sst
    /\ (fl.pc = "delete" /\ fl'.pc = "signal") => fl.seg \notin DOMAIN wal'
LiveConstraint == InOrder /\ TimeoutWhenStalled /\ NoLeftovers
=============================================================================
