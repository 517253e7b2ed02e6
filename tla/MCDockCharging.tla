----------------------------- MODULE MCDockCharging -----------------------------
(* Instances of DockCharging for TLC. *)
EXTENDS DockCharging

\* To the charger, away from it, to it and away within one order, and back.
MCRoutes == {<<"dock">>, <<"go">>, <<"dock", "go">>, <<"go", "dock">>}
=============================================================================
