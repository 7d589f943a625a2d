------------------------------ MODULE MCLocks -------------------------------
(* Small instances of Locks for TLC. *)
EXTENDS Locks

\* What NoDeadlock calls going on is that a step can be taken.
GuardsExact ==
    /\ \A w \in Writers : WriterCan(w) <=> ENABLED WriteStep(w)
    /\ \A p \in Readers : ReaderCan(p) <=> ENABLED ReadStep(p)
    /\ FreezerCan <=> ENABLED FreezeStep
    /\ FlusherCan <=> ENABLED FlushStep
=============================================================================
