---------------------------- MODULE MCSeerConnection ----------------------------
(* Instances of SeerConnection for TLC. *)
EXTENDS SeerConnection, TLC

\* The requests are interchangeable.
MCSymmetry == Permutations(Requests)
=============================================================================
