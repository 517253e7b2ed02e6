---------------------------- MODULE MCNodeMotion ----------------------------
(* Instances of NodeMotion for TLC. *)
EXTENDS NodeMotion
=============================================================================
