------------------------------- MODULE RemoteCall -------------------------------
(***************************************************************************)
(* What a request to the SEER controller promises its caller, without the  *)
(* connection it travels on: it is performed at most once, is answered     *)
(* only when it has been performed, and is never performed when the caller *)
(* is told that the port is not connected.  A request that fails in any    *)
(* other way may have been performed, and may still be.                    *)
(***************************************************************************)
EXTENDS Naturals

CONSTANT Requests

VARIABLES
  call,       \* where each request is for its caller
  performed   \* how often the controller has performed each request

vars == <<call, performed>>

Outcomes == {"answered", "failed", "refused"}

Init ==
  /\ call = [r \in Requests |-> "idle"]
  /\ performed = [r \in Requests |-> 0]

Request(r) ==
  /\ call[r] = "idle"
  /\ call' = [call EXCEPT ![r] = "pending"]
  /\ UNCHANGED performed

Perform(r) ==
  /\ call[r] \in {"pending", "failed"} /\ performed[r] = 0
  /\ performed' = [performed EXCEPT ![r] = 1]
  /\ UNCHANGED call

Return(r, outcome) ==
  /\ call[r] = "pending"
  /\ outcome = "answered" => performed[r] = 1
  /\ outcome = "refused" => performed[r] = 0
  /\ call' = [call EXCEPT ![r] = outcome]
  /\ UNCHANGED performed

Next ==
  \E r \in Requests : Request(r) \/ Perform(r) \/ \E outcome \in Outcomes : Return(r, outcome)

Spec == Init /\ [][Next]_vars

=============================================================================
