------------------------------ MODULE ActionTask ------------------------------
(* What the task of a lifecycle action or of an order action promises to the
   one who owns and may cancel it: a body, then its cleanup if it has one.  A cancel
   of the body only hastens the cleanup; one of the cleanup tears the task out of it. *)

CONSTANT HasCleanup  \* whether the action has steps to clean up with

VARIABLE stage  \* where the task is

\* A task goes through its body and its cleanup; one cancelled before it began has neither.
Moves ==
  {<<"queued", "body">>}
  \cup IF HasCleanup THEN {<<"body", "cleanup">>, <<"cleanup", "done">>} ELSE {<<"body", "done">>}
CancelMoves == {<<"queued", "dropped">>, <<"cleanup", "torn">>}

Init == stage = "queued"
Step == <<stage, stage'>> \in Moves
Cancel == <<stage, stage'>> \in CancelMoves
Next == Step \/ Cancel

Spec == Init /\ [][Next]_stage
==============================================================================
