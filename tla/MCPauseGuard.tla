------------------------------ MODULE MCPauseGuard ------------------------------
(* Instances of PauseGuard for TLC. *)
EXTENDS PauseGuard, TLC

\* The coroutines are interchangeable.
MCSymmetry == Permutations(Coroutines)
==============================================================================
