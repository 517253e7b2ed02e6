------------------------------ MODULE DockCharging ------------------------------
(* Docking at the charger, the handover of the charge to the relay hold, the   *)
(* stop of the charge before an order moves on, and startCharging,             *)
(* chargeInPlace and stopCharging (adaptor/adapter_jibot.py,                   *)
(* adaptor/extensions/charge.py, adaptor/utils/charge_circuit.py).             *)
(*                                                                             *)
(* The robot charges in two ways: in its ModeCharge, which UmDock enters and   *)
(* UmStop leaves, or parked, while the adapter keeps asserting the relay. The  *)
(* adapter sees neither: it has the charging flag of the last status.          *)
(*                                                                             *)
(* Definitions whose name ends in Fault are the faults that the properties are *)
(* tried on: no action uses them.                                              *)
EXTENDS Naturals, Sequences

CONSTANTS
  Routes,       \* the sequences of "dock" and "go" steps an order may have
  DockBudget,   \* polls of a dock that do not see a brake, until it fails
  BrakeBudget,  \* polls in a row that see a brake, until it fails
  MaxMessages,  \* bound on orders and updates
  MaxInstants,  \* bound on instant actions
  May           \* liberties: "otherFrames", "fullBattery", "staleStatus",
                \* "dockAtCharger", "updateDuringDock", "instantDuringOrder"

ASSUME DockChargingAssumption ==
  /\ Routes \subseteq Seq({"dock", "go"})
  /\ <<>> \notin Routes
  /\ DockBudget \in Nat \ {0}
  /\ BrakeBudget \in Nat \ {0}
  /\ MaxMessages \in Nat
  /\ MaxInstants \in Nat

VARIABLES
  mode,      \* the robot: "away", "approach", "charge" (ModeCharge) or "seated"
  relay,     \* the charge relay is closed and the robot at the contacts
  deaf,      \* ModeCharge has ignored one UmStop and will obey the next
  seen,      \* _charging, from the last status
  fresh,     \* a frame has arrived since the wait for the relay looked last
  sampled,   \* a status has arrived since the last command or approach
  hold,      \* _charge_in_place_active: the relay hold is asserted
  pc,        \* where the order worker and the instant action are
  todo,      \* the steps of the order, the current one first
  polls,     \* what the wait of the worker has counted
  promised,  \* a dock step or a charge in place ended well, and nothing ended it
  messages,  \* orders and updates so far
  instants   \* instant actions so far

robot == <<mode, relay, deaf>>
status == <<seen, fresh, sampled>>
adapter == <<hold, pc, todo, polls, promised>>
bounds == <<messages, instants>>
vars == <<robot, status, adapter, bounds>>

NoPolls == [budget |-> 0, braked |-> 0, streak |-> 0, heard |-> FALSE]

Actors == {"worker", "instant"}

\* the worker is between two awaits of _run_dock
Docking == {"dockWait", "settle", "secondStop", "verify", "redockWait"}
HandingOver == {"settle", "secondStop", "verify"}
WorkerPlaces ==
  Docking \cup {"rest", "halted", "next", "gap", "clearWait", "moveSettle", "travel",
                "cancelling"}
InstantPlaces == {"none", "startWait", "placeWait", "gap", "clearWait"}

Goes(a, place) == pc' = [pc EXCEPT ![a] = place]

-------------------------------------------------------------------------------
(* The commands *)

\* UmDock starts the approach, from wherever the robot is.
UmDock ==
  /\ mode' = "approach"
  /\ relay' = FALSE
  /\ deaf' = FALSE
  /\ sampled' = FALSE

\* UmStop: ModeCharge may ignore the first; leaving it opens the relay.
UmStop ==
  /\ sampled' = FALSE
  /\ \/ /\ mode = "charge" /\ ~deaf
        /\ deaf' = TRUE
        /\ UNCHANGED <<mode, relay>>
     \/ /\ mode = "charge"
        /\ mode' = "seated" /\ relay' = FALSE /\ deaf' = FALSE
     \/ /\ mode = "approach"
        /\ mode' = "away"
        /\ UNCHANGED <<relay, deaf>>
     \/ /\ mode \in {"away", "seated"}
        /\ UNCHANGED robot

UmGoto ==
  /\ mode' = "away"
  /\ relay' = FALSE
  /\ deaf' = FALSE
  /\ sampled' = FALSE

Unsent == UNCHANGED <<robot, sampled>>

\* stop_hold: the publisher is ended and the relay opened once
StopHold == hold' = FALSE /\ relay' = FALSE

\* release_charge_in_place does nothing when no charge in place is active.
Release == IF hold THEN StopHold ELSE UNCHANGED <<hold, relay>>

-------------------------------------------------------------------------------
(* The robot and its status *)

Seat ==
  /\ mode = "approach"
  /\ mode' = "charge"
  /\ relay' = TRUE
  /\ UNCHANGED <<deaf, status, adapter, bounds>>

\* The robot finds no charger; an approach outlasts the period of the status.
GiveUp ==
  /\ mode = "approach" /\ sampled
  /\ mode' = "away"
  /\ UNCHANGED <<relay, deaf, status, adapter, bounds>>

\* The asserted hold closes the relay under a robot at the contacts; a full
\* battery drops it.
RelayMoves ==
  /\ IF relay THEN "fullBattery" \in May ELSE hold /\ mode \in {"charge", "seated"}
  /\ relay' = ~relay
  /\ UNCHANGED <<mode, deaf, status, adapter, bounds>>

\* In ModeCharge without a charge the robot approaches the charger again.
Reapproach ==
  /\ mode = "charge" /\ ~relay /\ ~hold
  /\ mode' = "approach"
  /\ deaf' = FALSE
  /\ sampled' = FALSE
  /\ UNCHANGED <<relay, seen, fresh, adapter, bounds>>

\* A response to UmGetRobotInfo brings the charging flag; any other frame counts
\* as received all the same.
Frame ==
  /\ \E info \in BOOLEAN :
       /\ info \/ "otherFrames" \in May
       /\ seen' = IF info THEN relay ELSE seen
       /\ sampled' = (info \/ sampled)
  /\ fresh' = TRUE
  /\ UNCHANGED <<robot, adapter, bounds>>

-------------------------------------------------------------------------------
(* _run_dock *)

\* A charge that is seen is not from before the last command; nothing in the
\* code says so, the flag is some seconds old.
Current == sampled \/ "staleStatus" \in May

\* The step is done: it is left, and the charge is promised.
Docked ==
  /\ Goes("worker", "next")
  /\ todo' = Tail(todo)
  /\ polls' = NoPolls
  /\ promised' = TRUE

\* The step goes back to the tail of the queue and the worker returns.
StepFails ==
  /\ Goes("worker", "halted")
  /\ todo' = Append(Tail(todo), Head(todo))
  /\ polls' = NoPolls

BeginDock ==
  /\ pc["worker"] = "next" /\ todo # <<>> /\ Head(todo) = "dock"
  /\ \/ /\ seen /\ Current /\ Docked
        /\ UNCHANGED <<robot, sampled>>
     \/ /\ ~seen /\ UmDock
        /\ Goes("worker", "dockWait")
        /\ polls' = NoPolls
        /\ UNCHANGED <<todo, promised>>
     \/ ~seen /\ Unsent /\ StepFails /\ UNCHANGED promised
  /\ UNCHANGED <<seen, fresh, hold, bounds>>

\* A brake begins the budget anew.
PollDockFault ==
  /\ pc["worker"] \in {"dockWait", "redockWait"} /\ ~seen
  /\ \/ /\ polls.braked + 1 < BrakeBudget
        /\ polls' = [polls EXCEPT !.braked = @ + 1, !.budget = 0]
        /\ UNCHANGED <<pc, todo>>
     \/ /\ polls.budget + 1 < DockBudget
        /\ polls' = [polls EXCEPT !.budget = @ + 1, !.braked = 0]
        /\ UNCHANGED <<pc, todo>>
     \/ /\ polls.budget + 1 >= DockBudget
        /\ StepFails
  /\ UNCHANGED <<robot, status, hold, promised, bounds>>

\* _wait_until_dock_charge_or_timeout has not seen a charge: a poll that sees a
\* brake does not use the budget, and one brake has a budget of its own.
PollDock ==
  /\ pc["worker"] \in {"dockWait", "redockWait"} /\ ~seen
  /\ \/ /\ polls.braked + 1 < BrakeBudget
        /\ polls' = [polls EXCEPT !.braked = @ + 1]
        /\ UNCHANGED <<pc, todo>>
     \/ /\ polls.braked + 1 >= BrakeBudget
        /\ StepFails
     \/ /\ polls.budget + 1 < DockBudget
        /\ polls' = [polls EXCEPT !.budget = @ + 1, !.braked = 0]
        /\ UNCHANGED <<pc, todo>>
     \/ /\ polls.budget + 1 >= DockBudget
        /\ StepFails
  /\ UNCHANGED <<robot, status, hold, promised, bounds>>

\* The charge has begun: the hold is asserted, and given time to be heard.
SeeCharge ==
  /\ pc["worker"] = "dockWait" /\ seen
  /\ hold' = TRUE
  /\ Goes("worker", "settle")
  /\ UNCHANGED <<robot, status, todo, polls, promised, bounds>>

\* The hold is not released before the fallback.
RedockFault ==
  /\ UNCHANGED <<hold, promised>>
  /\ \/ /\ UmDock
        /\ Goes("worker", "redockWait")
        /\ polls' = NoPolls
        /\ UNCHANGED todo
     \/ UNCHANGED robot /\ UNCHANGED sampled /\ StepFails

\* The fallback: the hold is released and UmDock sent, or not even that.
Redock ==
  /\ hold' = FALSE
  /\ UNCHANGED promised
  /\ \/ /\ UmDock
        /\ Goes("worker", "redockWait")
        /\ polls' = NoPolls
        /\ UNCHANGED todo
     \/ /\ relay' = (relay /\ ~hold)
        /\ UNCHANGED <<mode, deaf, sampled>>
        /\ StepFails

\* since is taken, and the first of the two UmStops sent.
FirstStop ==
  /\ pc["worker"] = "settle"
  /\ fresh' = FALSE
  /\ \/ /\ UmStop
        /\ Goes("worker", "secondStop")
        /\ UNCHANGED <<hold, todo, polls, promised>>
     \/ Redock
  /\ UNCHANGED <<seen, bounds>>

\* The second is sent whatever the status says.
SecondStop ==
  /\ pc["worker"] = "secondStop"
  /\ \/ /\ UmStop
        /\ Goes("worker", "verify")
        /\ polls' = NoPolls
        /\ UNCHANGED <<hold, todo, promised>>
     \/ Redock
  /\ UNCHANGED <<seen, fresh, bounds>>

\* Two frames in a row with the charging flag up end the wait.
Verify ==
  /\ pc["worker"] = "verify" /\ fresh
  /\ fresh' = FALSE
  /\ \/ /\ ~seen
        /\ polls' = [polls EXCEPT !.streak = 0, !.heard = TRUE]
        /\ UNCHANGED <<pc, todo, promised>>
     \/ /\ seen /\ polls.streak = 0
        /\ polls' = [polls EXCEPT !.streak = 1, !.heard = TRUE]
        /\ UNCHANGED <<pc, todo, promised>>
     \/ seen /\ polls.streak = 1 /\ Docked
  /\ UNCHANGED <<robot, seen, sampled, hold, bounds>>

\* The window of the wait ends: a silent link is not docked again.
VerifyEnds ==
  /\ pc["worker"] = "verify"
  /\ \/ polls.heard /\ Redock
     \/ ~polls.heard /\ Release /\ StepFails /\ UNCHANGED <<mode, deaf, sampled, promised>>
  /\ UNCHANGED <<seen, fresh, bounds>>

\* The fallback is taken for a charge.
RedockedFault ==
  /\ pc["worker"] = "redockWait"
  /\ Docked
  /\ UNCHANGED <<robot, status, hold, bounds>>

\* The robot charges again in ModeCharge.
Redocked ==
  /\ pc["worker"] = "redockWait" /\ seen
  /\ Current
  /\ Docked
  /\ UNCHANGED <<robot, status, hold, bounds>>

-------------------------------------------------------------------------------
(* _run_stop_charging, by the worker before it moves and by stopCharging *)

\* What the caller does when the charge has ended: send the goto after a while,
\* or report FINISHED.
Stopped(a) == Goes(a, IF a = "worker" THEN "moveSettle" ELSE "none")

\* A hold is released, and nothing else done; otherwise a charge is stopped.
StopCharging(a) ==
  \/ /\ hold /\ Release /\ Stopped(a)
     /\ UNCHANGED <<mode, deaf, sampled>>
  \/ /\ ~hold /\ seen
     /\ UmStop
     /\ Goes(a, "gap")
     /\ UNCHANGED hold

\* The second UmStop is sent only to a robot that still reports a charge.
EndGap(a) ==
  /\ pc[a] = "gap"
  /\ IF seen THEN UmStop ELSE Unsent
  /\ Goes(a, "clearWait")
  /\ UNCHANGED <<seen, fresh, hold, todo, polls, promised, bounds>>

Cleared(a) ==
  /\ pc[a] = "clearWait" /\ ~seen
  /\ Stopped(a)
  /\ UNCHANGED <<robot, status, hold, todo, polls, promised, bounds>>

\* The robot still reports a charge at the end of the window, or the second
\* UmStop of the action failed.
NotCleared(a) ==
  /\ pc[a] = "clearWait" \/ (pc[a] = "gap" /\ a = "instant")
  /\ seen
  /\ IF a = "worker" THEN StepFails ELSE Goes(a, "none") /\ UNCHANGED <<todo, polls>>
  /\ UNCHANGED <<robot, status, hold, promised, bounds>>

-------------------------------------------------------------------------------
(* A step that moves the robot on *)

\* The goto is sent, or it is rejected or the motor not enabled.
SendGoto ==
  \/ UmGoto /\ Goes("worker", "travel") /\ UNCHANGED <<todo, polls>>
  \/ Unsent /\ StepFails

\* _ensure_not_charging_before_order_motion: only the status is asked.
BeginGo ==
  /\ pc["worker"] = "next" /\ todo # <<>> /\ Head(todo) = "go"
  /\ promised' = FALSE
  /\ \/ ~seen /\ SendGoto /\ UNCHANGED hold
     \/ seen /\ StopCharging("worker") /\ UNCHANGED <<todo, polls>>
  /\ UNCHANGED <<seen, fresh, bounds>>

EndMoveSettle ==
  /\ pc["worker"] = "moveSettle"
  /\ SendGoto
  /\ UNCHANGED <<seen, fresh, hold, promised, bounds>>

\* A journey outlasts the period of the status.
Arrive ==
  /\ pc["worker"] = "travel" /\ sampled
  /\ Goes("worker", "next")
  /\ todo' = Tail(todo)
  /\ UNCHANGED <<robot, status, hold, polls, promised, bounds>>

\* The order is complete.
Finish ==
  /\ pc["worker"] = "next" /\ todo = <<>>
  /\ Goes("worker", "rest")
  /\ UNCHANGED <<robot, status, hold, todo, polls, promised, bounds>>

-------------------------------------------------------------------------------
(* Orders *)

\* A new order, or an update while no step is under way: _clear_order_queue
\* releases the hold.
Receive(route) ==
  /\ messages < MaxMessages /\ messages' = messages + 1
  /\ pc["worker"] \in {"rest", "halted"}
  /\ pc["instant"] = "none" \/ "instantDuringOrder" \in May
  /\ Head(route) = "dock" /\ mode # "away" => "dockAtCharger" \in May
  /\ Release
  /\ promised' = FALSE
  /\ todo' = route
  /\ Goes("worker", "next")
  /\ UNCHANGED <<mode, deaf, status, polls, instants>>

\* An update while a step is under way leaves the step and the hold alone, or
\* finds the step obsolete, cancels the worker and starts another.
Update(route) ==
  /\ messages < MaxMessages /\ messages' = messages + 1
  /\ pc["worker"] \in Docking \cup {"gap", "clearWait", "moveSettle", "travel"}
  /\ todo' = route
  /\ Head(route) = Head(todo) \/ "updateDuringDock" \in May
  /\ IF Head(route) = Head(todo)
       THEN UNCHANGED <<pc, polls, promised>>
       ELSE Goes("worker", "next") /\ polls' = NoPolls /\ promised' = FALSE
  /\ UNCHANGED <<robot, status, hold, instants>>

\* cancelOrder: the worker is cancelled where it waits, and the hold released.
CancelOrder ==
  /\ pc["worker"] \notin {"rest", "cancelling"}
  /\ Goes("worker", "cancelling")
  /\ todo' = <<>>
  /\ polls' = NoPolls
  /\ promised' = FALSE
  /\ Release
  /\ UNCHANGED <<mode, deaf, status, bounds>>

\* stop_motion is one UmStop; it may not get through.
CancelStops ==
  /\ pc["worker"] = "cancelling"
  /\ UmStop \/ Unsent
  /\ Goes("worker", "rest")
  /\ UNCHANGED <<seen, fresh, hold, todo, polls, promised, bounds>>

\* A goto or an UmStop that raises ends the worker, and the order with it.
WorkerCrashes ==
  /\ \/ pc["worker"] \in {"moveSettle", "gap"}
     \/ pc["worker"] = "next" /\ todo # <<>> /\ Head(todo) = "go" /\ ~hold
  /\ Goes("worker", "rest")
  /\ todo' = <<>>
  /\ polls' = NoPolls
  /\ promised' = FALSE
  /\ Release
  /\ UNCHANGED <<mode, deaf, status, bounds>>

-------------------------------------------------------------------------------
(* Instant actions *)

Instant ==
  /\ instants < MaxInstants /\ instants' = instants + 1
  /\ pc["instant"] = "none"
  /\ pc["worker"] = "rest" \/ "instantDuringOrder" \in May
  /\ UNCHANGED <<seen, fresh, todo, polls, messages>>

\* startCharging away from the charger: UmDock, and a wait for the flag. The
\* charge of an earlier step ends, a hold does not.
StartCharging ==
  /\ Instant
  /\ UmDock
  /\ Goes("instant", "startWait")
  /\ promised' = (promised /\ hold)
  /\ UNCHANGED hold

\* It reports FINISHED or FAILED, and nothing is undone.
EndStart ==
  /\ pc["instant"] = "startWait"
  /\ Goes("instant", "none")
  /\ UNCHANGED <<robot, status, hold, todo, polls, promised, bounds>>

\* chargeInPlace, and startCharging at the charger
ChargeInPlace ==
  /\ Instant
  /\ hold' = TRUE
  /\ Goes("instant", "placeWait")
  /\ UNCHANGED <<robot, sampled, promised>>

ChargedInPlace ==
  /\ pc["instant"] = "placeWait" /\ seen
  /\ Goes("instant", "none")
  /\ promised' = TRUE
  /\ UNCHANGED <<robot, status, hold, todo, polls, bounds>>

\* No charge is seen in time: the hold is given up, whoever else may need it.
NotInPlace ==
  /\ pc["instant"] = "placeWait" /\ ~seen
  /\ StopHold
  /\ Goes("instant", "none")
  /\ promised' = FALSE
  /\ UNCHANGED <<mode, deaf, status, todo, polls, bounds>>

\* There may be nothing to stop, or the first UmStop fail.
StopChargingAction ==
  /\ Instant
  /\ promised' = FALSE
  /\ \/ StopCharging("instant")
     \/ ~hold /\ Unsent /\ Goes("instant", "none") /\ UNCHANGED hold

-------------------------------------------------------------------------------
Init ==
  /\ mode = "away"
  /\ relay = FALSE
  /\ deaf = FALSE
  /\ seen = FALSE
  /\ fresh = FALSE
  /\ sampled = TRUE
  /\ hold = FALSE
  /\ pc = [a \in Actors |-> IF a = "worker" THEN "rest" ELSE "none"]
  /\ todo = <<>>
  /\ polls = NoPolls
  /\ promised = FALSE
  /\ messages = 0
  /\ instants = 0

Robot == Seat \/ GiveUp \/ RelayMoves \/ Reapproach

Dock ==
  \/ BeginDock \/ PollDock \/ SeeCharge \/ FirstStop \/ SecondStop
  \/ Verify \/ VerifyEnds \/ Redocked

Stop == \E a \in Actors : EndGap(a) \/ Cleared(a) \/ NotCleared(a)

Go == BeginGo \/ EndMoveSettle \/ Arrive \/ Finish

Messages ==
  \/ \E route \in Routes : Receive(route) \/ Update(route)
  \/ CancelOrder \/ CancelStops \/ WorkerCrashes

InstantActions ==
  \/ StartCharging \/ EndStart \/ ChargeInPlace \/ ChargedInPlace \/ NotInPlace
  \/ StopChargingAction

Next == Robot \/ Frame \/ Dock \/ Stop \/ Go \/ Messages \/ InstantActions

Spec == Init /\ [][Next]_vars

\* The loop runs what is ready, and every wait of it is polled; the robot is
\* polled for its status.
Fairness ==
  /\ WF_vars(Frame)
  /\ WF_vars(Dock)
  /\ WF_vars(Go)
  /\ WF_vars(Stop)
  /\ WF_vars(VerifyEnds)
  /\ WF_vars(CancelStops)

FairSpec == Spec /\ Fairness

-------------------------------------------------------------------------------
(* Properties *)

\* The state has the shape the adapter gives it.
TypeOK ==
  /\ mode \in {"away", "approach", "charge", "seated"}
  /\ relay \in BOOLEAN
  /\ deaf \in BOOLEAN
  /\ seen \in BOOLEAN
  /\ fresh \in BOOLEAN
  /\ sampled \in BOOLEAN
  /\ hold \in BOOLEAN
  /\ pc \in [Actors -> WorkerPlaces \cup InstantPlaces]
  /\ pc["worker"] \in WorkerPlaces
  /\ pc["instant"] \in InstantPlaces
  /\ todo \in Seq({"dock", "go"})
  /\ polls \in [budget : 0..DockBudget, braked : 0..BrakeBudget, streak : 0..1,
                heard : BOOLEAN]
  /\ promised \in BOOLEAN
  /\ messages \in 0..MaxMessages
  /\ instants \in 0..MaxInstants

\* The relay is held only for somebody: a handover or a charge in place that is
\* under way, or one that ended well and that no order, cancel or stop has
\* ended since. So a robot that is sent to its next node, or whose docking
\* failed, was cancelled or crashed, is not left with the relay asserted.
HoldHasOwner ==
  hold => \/ pc["worker"] \in HandingOver
          \/ pc["instant"] = "placeWait"
          \/ promised

\* After a dock step or a charge in place that ended well something answers for
\* the charge, until an order, a cancel or a stop ends it: the hold, or
\* ModeCharge, which approaches the charger again when the charge drops.
PromisedIsCharged ==
  promised => hold \/ mode \in {"charge", "approach"}

\* A handover ends well only on a status that was taken after its last UmStop:
\* the flag from before it says nothing of the relay (docstring of
\* _wait_until_charge_relay_holds).  The code does not keep this beside "otherFrames".
HeldIsObserved ==
  [][(pc["worker"] = "verify" /\ pc'["worker"] = "next") => sampled]_vars

\* A dock step ends, well or not: neither a missing charger, a failed handover
\* nor a path that is blocked again and again keeps the worker docking for good.
DockEnds == pc["worker"] \in Docking ~> pc["worker"] \notin Docking
=============================================================================
