----------------------------- MODULE MCOrderEngine -----------------------------
(* Instances of OrderEngine for TLC: two orders over three or four places. *)
EXTENDS OrderEngine

CONSTANTS A, B, P0, P1, P2, P3

\* B starts where A ends, and leaves the places of A.
MCRoute ==
  [o \in Orders |->
     IF o = A THEN [s \in NodeSeqs |-> CASE s = 0 -> P0 [] s = 2 -> P1 [] OTHER -> P2]
              ELSE [s \in NodeSeqs |-> CASE s = 0 -> P2 [] s = 2 -> P3 [] OTHER -> P0]]

\* Two places, and each order goes from one to the other.
MCShuttle ==
  [o \in Orders |-> [s \in NodeSeqs |-> IF (o = A) = (s = 0) THEN P0 ELSE P1]]

\* The start node owes a background action, the next node a blocking one.
MCBlocking == [s \in Seqs |-> CASE s = 0 -> "PAR" [] s = 2 -> "STOP" [] OTHER -> "none"]

\* The same with an action on the edge between the nodes.
MCEdgeBlocking == [s \in Seqs |-> CASE s = 1 -> "STOP" [] s = 2 -> "PAR" [] OTHER -> "none"]

\* A robot that was placed at its first node, or has just been switched on there.
MCInit == Init /\ pos = P0 /\ worker = CHOOSE t \in Tasks : TRUE
MCSpec == MCInit /\ [][Next]_vars
MCFairSpec == MCSpec /\ Fairness
==============================================================================
