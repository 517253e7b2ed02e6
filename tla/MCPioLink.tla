------------------------------ MODULE MCPioLink ------------------------------
(* Instances of PioLink for TLC. *)
EXTENDS PioLink

Step(type) == [type |-> type]
DoorOpen ==
  [type |-> "if", then |-> <<Step("on"), Step("delay"), Step("off")>>, otherwise |-> <<>>]
MCSteps == {DoorOpen} \cup {Step(type) : type \in {"on", "off", "in", "delay", "blink"}}

Exchanging(pair, disconnect, script) ==
  [kind |-> "scenario", pair |-> pair, disconnect |-> disconnect, clear |-> FALSE, script |-> script]

Alone(kind, clear) ==
  [kind |-> kind, pair |-> FALSE, disconnect |-> FALSE, clear |-> clear, script |-> <<>>]

\* The elevator's recipe branches and waits for the door. The air shower's three open
\* and keep the link, work on it, and close and release it. The last is pioWriteOut.
MCActions == {
  Alone("init", FALSE), Alone("disconnect", FALSE), Alone("disconnect", TRUE), Alone("ping", FALSE),
  Exchanging(TRUE, TRUE, <<DoorOpen, Step("in")>>),
  Exchanging(TRUE, FALSE, <<Step("on")>>),
  Exchanging(FALSE, TRUE, <<Step("blink"), Step("off")>>),
  Exchanging(FALSE, FALSE, <<Step("on")>>)}
=============================================================================
