---------------------------- MODULE MCStateActions ----------------------------
(* Instances of StateActions for TLC. *)
EXTENDS StateActions
==============================================================================
