---------------------------- MODULE MCActionScheduler ----------------------------
(* Instances of ActionScheduler for TLC. *)
EXTENDS ActionScheduler

\* Lists in which each pair of types meets, within a point or across points
MCLists ==
  {<<"NONE", "SOFT">>, <<"NONE", "SINGLE">>, <<"SINGLE", "NONE">>, <<"HARD", "NONE">>}
=============================================================================
