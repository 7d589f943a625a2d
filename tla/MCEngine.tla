------------------------------ MODULE MCEngine ------------------------------
(* Small instances of EngineProps for TLC. *)
EXTENDS EngineProps, TLC

\* Write calls are interchangeable: no definition names one of them.
CallSymmetry == Permutations(Calls)
=============================================================================
