--------------------------- MODULE MCBackpressure ---------------------------
(* Small instances of Backpressure for TLC. *)
EXTENDS Backpressure, TLC

\* Writers are interchangeable in the invariants.
WriterSymmetry == Permutations(Writers)
=============================================================================
