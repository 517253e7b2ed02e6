--------------------------- MODULE DockChargingProofs ---------------------------
(***************************************************************************)
(* Theorems of DockCharging, for any routes, budgets, messages and instant *)
(* actions.                                                                *)
(***************************************************************************)
EXTENDS DockCharging, TLAPS

-----------------------------------------------------------------------------
(* The types *)

\* The robot and its status
RobotOK ==
  /\ mode \in {"away", "approach", "charge", "seated"}
  /\ relay \in BOOLEAN
  /\ deaf \in BOOLEAN
  /\ seen \in BOOLEAN
  /\ fresh \in BOOLEAN
  /\ sampled \in BOOLEAN

PlacesOK ==
  /\ pc \in [Actors -> WorkerPlaces \cup InstantPlaces]
  /\ pc["worker"] \in WorkerPlaces
  /\ pc["instant"] \in InstantPlaces

FlagsOK == hold \in BOOLEAN /\ promised \in BOOLEAN

Polls ==
  [budget : 0..DockBudget, braked : 0..BrakeBudget, streak : 0..1, heard : BOOLEAN]

\* A worker that is within a step has it at the head of its steps.
StepsOK ==
  /\ todo \in Seq({"dock", "go"})
  /\ pc["worker"] \in Docking \cup {"gap", "clearWait", "moveSettle", "travel"}
       => todo # <<>>
  /\ polls \in Polls

BoundsOK == messages \in 0..MaxMessages /\ instants \in 0..MaxInstants

TypeInv == RobotOK /\ PlacesOK /\ FlagsOK /\ StepsOK /\ BoundsOK

\* A move of one of the two leaves the other where it is.
LEMMA WorkerGoes ==
  ASSUME PlacesOK, NEW place \in WorkerPlaces, Goes("worker", place)
  PROVE  /\ PlacesOK'
         /\ pc'["worker"] = place
         /\ pc'["instant"] = pc["instant"]
BY DEF PlacesOK, Goes, Actors

\* The instant action moves and the worker does not.
LEMMA InstantGoes ==
  ASSUME PlacesOK, NEW place \in InstantPlaces, Goes("instant", place)
  PROVE  /\ PlacesOK'
         /\ pc'["instant"] = place
         /\ pc'["worker"] = pc["worker"]
BY DEF PlacesOK, Goes, Actors

\* Whatever is sent to the robot, its state stays one.
LEMMA SendKeepsRobot ==
  ASSUME RobotOK, UNCHANGED <<seen, fresh>>, UmDock \/ UmStop \/ UmGoto \/ Unsent
  PROVE  RobotOK'
BY DEF RobotOK, UmDock, UmStop, UmGoto, Unsent, robot

\* A release of the hold leaves Booleans.
LEMMA ReleaseKeeps ==
  ASSUME RobotOK, FlagsOK, Release
  PROVE  relay' \in BOOLEAN /\ hold' \in BOOLEAN
BY DEF RobotOK, FlagsOK, Release, StopHold

\* A wait that begins has no polls behind it.
LEMMA NoPollsType == NoPolls \in Polls
BY DockChargingAssumption DEF NoPolls, Polls

\* How a step ends
LEMMA DockedKeeps ==
  ASSUME PlacesOK, StepsOK, todo # <<>>, Docked
  PROVE  PlacesOK' /\ StepsOK' /\ promised' \in BOOLEAN
<1>1. PlacesOK' /\ pc'["worker"] = "next"
  BY WorkerGoes DEF Docked, WorkerPlaces
<1>2. QED
  BY <1>1, NoPollsType DEF StepsOK, Docked, Docking

\* A step that fails leaves the worker at a place it has.
LEMMA StepFailsKeeps ==
  ASSUME PlacesOK, StepsOK, todo # <<>>, StepFails
  PROVE  PlacesOK' /\ StepsOK'
<1>1. PlacesOK' /\ pc'["worker"] = "halted"
  BY WorkerGoes DEF StepFails, WorkerPlaces
<1>2. QED
  BY <1>1, NoPollsType DEF StepsOK, StepFails, Docking

\* Every step of the worker within a dock keeps the types.
LEMMA DockKeepsTypes ==
  ASSUME TypeInv, Dock
  PROVE  TypeInv'
<1> USE DEF TypeInv
<1> SUFFICES RobotOK' /\ PlacesOK' /\ FlagsOK' /\ StepsOK'
  BY DEF Dock, BeginDock, PollDock, SeeCharge, FirstStop, SecondStop, Verify, VerifyEnds, Redocked, BoundsOK, bounds
<1>1. CASE BeginDock
  <2>1. todo # <<>> /\ UNCHANGED <<seen, fresh, hold>>
    BY <1>1 DEF BeginDock
  <2>2. CASE Docked /\ UNCHANGED <<robot, sampled>>
    BY <2>1, <2>2, DockedKeeps DEF RobotOK, FlagsOK, robot
  <2>3. CASE UmDock /\ Goes("worker", "dockWait") /\ polls' = NoPolls /\ UNCHANGED <<todo, promised>>
    BY <2>1, <2>3, WorkerGoes, SendKeepsRobot, NoPollsType DEF FlagsOK, StepsOK, WorkerPlaces, Docking
  <2>4. CASE Unsent /\ StepFails /\ UNCHANGED promised
    BY <2>1, <2>4, StepFailsKeeps, SendKeepsRobot DEF FlagsOK
  <2>5. QED
    BY <1>1, <2>2, <2>3, <2>4 DEF BeginDock
<1>2. CASE PollDock
  <2>1. todo # <<>> /\ RobotOK' /\ FlagsOK'
    BY <1>2 DEF PollDock, StepsOK, Docking, RobotOK, FlagsOK, robot, status
  <2>2. CASE StepFails
    BY <2>1, <2>2, StepFailsKeeps
  <2>3. CASE ~StepFails
    <3>1. PlacesOK' /\ UNCHANGED <<pc, todo>>
      BY <1>2, <2>3 DEF PollDock, PlacesOK
    <3>2. polls \in Polls /\ polls.budget \in 0..DockBudget /\ polls.braked \in 0..BrakeBudget
      BY DEF StepsOK, Polls
    <3>3. polls' \in Polls
      <4>1. CASE polls.braked + 1 < BrakeBudget /\ polls' = [polls EXCEPT !.braked = @ + 1]
        <5>1. polls.braked + 1 \in 0..BrakeBudget
          BY <3>2, <4>1, DockChargingAssumption
        <5>2. QED
          BY <3>2, <4>1, <5>1, Zenon DEF Polls
      <4>2. CASE /\ polls.budget + 1 < DockBudget
                 /\ polls' = [polls EXCEPT !.budget = @ + 1, !.braked = 0]
        <5>1. polls.budget + 1 \in 0..DockBudget /\ 0 \in 0..BrakeBudget
          BY <3>2, <4>2, DockChargingAssumption
        <5>2. QED
          BY <3>2, <4>2, <5>1, Zenon DEF Polls
      <4>3. QED
        BY <1>2, <2>3, <4>1, <4>2 DEF PollDock
    <3>4. QED
      BY <2>1, <3>1, <3>3 DEF StepsOK
  <2>4. QED
    BY <2>2, <2>3
<1>3. CASE SeeCharge
  <2>1. PlacesOK' /\ pc'["worker"] = "settle"
    BY <1>3, WorkerGoes DEF SeeCharge, WorkerPlaces, Docking
  <2>2. QED
    BY <1>3, <2>1 DEF SeeCharge, RobotOK, FlagsOK, StepsOK, robot, status, Docking
<1>4. ASSUME Redock, todo # <<>>, UNCHANGED seen, fresh' \in BOOLEAN
      PROVE  RobotOK' /\ PlacesOK' /\ FlagsOK' /\ StepsOK'
  <2>1. FlagsOK'
    BY <1>4 DEF Redock, FlagsOK
  <2>2. CASE UmDock /\ Goes("worker", "redockWait") /\ polls' = NoPolls /\ UNCHANGED todo
    <3>1. PlacesOK'
      BY <2>2, WorkerGoes DEF WorkerPlaces, Docking
    <3>2. RobotOK'
      BY <1>4, <2>2 DEF UmDock, RobotOK
    <3>3. QED
      BY <1>4, <2>1, <2>2, <3>1, <3>2, NoPollsType DEF StepsOK
  <2>3. CASE relay' = (relay /\ ~hold) /\ UNCHANGED <<mode, deaf, sampled>> /\ StepFails
    <3>1. RobotOK'
      BY <1>4, <2>3 DEF RobotOK, FlagsOK
    <3>2. QED
      BY <1>4, <2>1, <2>3, <3>1, StepFailsKeeps
  <2>4. QED
    BY <1>4, <2>2, <2>3 DEF Redock
<1>5. CASE FirstStop
  <2>1. todo # <<>> /\ fresh' \in BOOLEAN /\ UNCHANGED seen
    BY <1>5 DEF FirstStop, StepsOK, Docking
  <2>2. CASE UmStop /\ Goes("worker", "secondStop") /\ UNCHANGED <<hold, todo, polls, promised>>
    <3>1. PlacesOK'
      BY <2>2, WorkerGoes DEF WorkerPlaces, Docking
    <3>2. RobotOK'
      BY <2>1, <2>2 DEF UmStop, RobotOK, robot
    <3>3. QED
      BY <2>1, <2>2, <3>1, <3>2 DEF StepsOK, FlagsOK
  <2>3. QED
    BY <1>5, <2>1, <2>2, <1>4 DEF FirstStop
<1>6. CASE SecondStop
  <2>1. todo # <<>> /\ fresh' \in BOOLEAN /\ UNCHANGED <<seen, fresh>>
    BY <1>6 DEF SecondStop, StepsOK, Docking, RobotOK
  <2>2. CASE UmStop /\ Goes("worker", "verify") /\ polls' = NoPolls /\ UNCHANGED <<hold, todo, promised>>
    <3>1. PlacesOK'
      BY <2>2, WorkerGoes DEF WorkerPlaces, Docking
    <3>2. RobotOK'
      BY <2>1, <2>2, SendKeepsRobot
    <3>3. QED
      BY <2>1, <2>2, <3>1, <3>2, NoPollsType DEF StepsOK, FlagsOK
  <2>3. QED
    BY <1>6, <2>1, <2>2, <1>4 DEF SecondStop
<1>7. CASE Verify
  <2>1. todo # <<>> /\ RobotOK' /\ hold' \in BOOLEAN
    BY <1>7 DEF Verify, StepsOK, Docking, RobotOK, FlagsOK, robot
  <2>2. CASE Docked
    BY <2>1, <2>2, DockedKeeps DEF FlagsOK
  <2>3. CASE \E n \in 0..1 : polls' = [polls EXCEPT !.streak = n, !.heard = TRUE] /\ UNCHANGED <<pc, todo, promised>>
    <3>1. polls' \in Polls
      BY <2>3 DEF StepsOK, Polls
    <3>2. QED
      BY <2>1, <2>3, <3>1 DEF StepsOK, PlacesOK, FlagsOK
  <2>4. QED
    BY <1>7, <2>2, <2>3 DEF Verify
<1>8. CASE VerifyEnds
  <2>1. todo # <<>> /\ UNCHANGED <<seen, fresh>> /\ fresh' \in BOOLEAN
    BY <1>8 DEF VerifyEnds, StepsOK, Docking, RobotOK
  <2>2. CASE Release /\ StepFails /\ UNCHANGED <<mode, deaf, sampled, promised>>
    <3>1. RobotOK' /\ FlagsOK'
      BY <2>1, <2>2, ReleaseKeeps DEF RobotOK, FlagsOK
    <3>2. QED
      BY <2>1, <2>2, <3>1, StepFailsKeeps
  <2>3. QED
    BY <1>8, <2>1, <2>2, <1>4 DEF VerifyEnds
<1>9. CASE Redocked
  <2>1. todo # <<>> /\ RobotOK' /\ hold' \in BOOLEAN
    BY <1>9 DEF Redocked, StepsOK, Docking, RobotOK, FlagsOK, robot, status
  <2>2. QED
    BY <1>9, <2>1, DockedKeeps DEF Redocked, FlagsOK
<1>10. QED
  BY <1>1, <1>2, <1>3, <1>5, <1>6, <1>7, <1>8, <1>9 DEF Dock

\* So does every step of a stop of the charge, by either of the two,
LEMMA StopKeepsTypes ==
  ASSUME TypeInv, Stop
  PROVE  TypeInv'
<1> USE DEF TypeInv
<1>1. PICK a \in Actors : EndGap(a) \/ Cleared(a) \/ NotCleared(a)
  BY DEF Stop
<1>2. a = "worker" \/ a = "instant"
  BY DEF Actors
<1>3. BoundsOK' /\ FlagsOK' /\ RobotOK'
  <2>1. UNCHANGED <<seen, fresh, hold, promised, messages, instants>>
    BY <1>1 DEF EndGap, Cleared, NotCleared, status, bounds
  <2>2. UNCHANGED <<robot, sampled>> \/ UmStop \/ Unsent
    BY <1>1 DEF EndGap, Cleared, NotCleared, status
  <2>3. RobotOK'
    BY <2>1, <2>2, SendKeepsRobot DEF Unsent
  <2>4. QED
    BY <2>1, <2>3 DEF BoundsOK, FlagsOK
<1>4. CASE StepFails /\ a = "worker"
  <2>1. todo # <<>>
    BY <1>1, <1>4 DEF EndGap, Cleared, NotCleared, StepsOK, Actors
  <2>2. QED
    BY <2>1, <1>3, <1>4, StepFailsKeeps
<1>5. CASE ~(StepFails /\ a = "worker")
  <2> UNCHANGED <<todo, polls>>
    BY <1>1, <1>2, <1>5 DEF EndGap, Cleared, NotCleared
  <2>1. CASE a = "worker"
    <3>1. todo # <<>>
      BY <1>1, <2>1 DEF EndGap, Cleared, NotCleared, StepsOK, Actors
    <3>2. PICK place \in {"clearWait", "moveSettle"} : Goes("worker", place)
      BY <1>1, <1>5, <2>1 DEF EndGap, Cleared, NotCleared, Stopped
    <3>3. PlacesOK'
      BY <3>2, WorkerGoes DEF WorkerPlaces
    <3>4. QED
      BY <1>3, <1>5, <3>1, <3>3 DEF StepsOK
  <2>2. CASE a = "instant"
    <3>1. PICK place \in {"clearWait", "none"} : Goes("instant", place)
      BY <1>1, <1>5, <2>2 DEF EndGap, Cleared, NotCleared, Stopped
    <3>2. PlacesOK' /\ pc'["worker"] = pc["worker"]
      BY <3>1, InstantGoes DEF InstantPlaces
    <3>3. QED
      BY <1>3, <1>5, <3>2 DEF StepsOK
  <2>3. QED
    BY <1>2, <2>1, <2>2
<1>6. QED
  BY <1>4, <1>5

\* and every step of a move.
LEMMA GoKeepsTypes ==
  ASSUME TypeInv, Go
  PROVE  TypeInv'
<1> USE DEF TypeInv
<1>1. BoundsOK' /\ promised' \in BOOLEAN
  BY DEF Go, BeginGo, EndMoveSettle, Arrive, Finish, BoundsOK, bounds, FlagsOK
<1>2. ASSUME SendGoto, todo # <<>>, UNCHANGED <<seen, fresh, hold>>
      PROVE  TypeInv'
  <2>1. RobotOK' /\ FlagsOK'
    BY <1>1, <1>2, SendKeepsRobot DEF SendGoto, FlagsOK
  <2>2. CASE Goes("worker", "travel") /\ UNCHANGED <<todo, polls>>
    <3>1. PlacesOK'
      BY <2>2, WorkerGoes DEF WorkerPlaces
    <3>2. QED
      BY <1>1, <1>2, <2>1, <2>2, <3>1 DEF StepsOK
  <2>3. CASE StepFails
    BY <1>1, <1>2, <2>1, <2>3, StepFailsKeeps
  <2>4. QED
    BY <1>2, <2>2, <2>3 DEF SendGoto
<1>3. CASE BeginGo
  <2>1. todo # <<>> /\ UNCHANGED <<seen, fresh>>
    BY <1>3 DEF BeginGo
  <2>2. CASE SendGoto /\ UNCHANGED hold
    BY <1>2, <2>1, <2>2
  <2>3. CASE StopCharging("worker") /\ UNCHANGED <<todo, polls>>
    <3>1. RobotOK' /\ FlagsOK'
      <4>1. CASE hold /\ Release /\ UNCHANGED <<mode, deaf, sampled>>
        BY <1>1, <2>1, <4>1, ReleaseKeeps DEF RobotOK, FlagsOK
      <4>2. CASE UmStop /\ UNCHANGED hold
        BY <1>1, <2>1, <4>2, SendKeepsRobot DEF FlagsOK
      <4>3. QED
        BY <2>3, <4>1, <4>2 DEF StopCharging
    <3>2. PICK place \in {"moveSettle", "gap"} : Goes("worker", place)
      BY <2>3 DEF StopCharging, Stopped
    <3>3. PlacesOK'
      BY <3>2, WorkerGoes DEF WorkerPlaces
    <3>4. QED
      BY <1>1, <2>1, <2>3, <3>1, <3>3 DEF StepsOK
  <2>4. QED
    BY <1>3, <2>2, <2>3 DEF BeginGo
<1>4. CASE EndMoveSettle
  <2>1. todo # <<>> /\ UNCHANGED <<seen, fresh, hold>> /\ SendGoto
    BY <1>4 DEF EndMoveSettle, StepsOK
  <2>2. QED
    BY <1>2, <2>1
<1>5. CASE Arrive
  <2>1. PlacesOK' /\ pc'["worker"] = "next"
    BY <1>5, WorkerGoes DEF Arrive, WorkerPlaces
  <2>2. RobotOK' /\ FlagsOK'
    BY <1>5 DEF Arrive, RobotOK, FlagsOK, robot, status
  <2>3. todo' \in Seq({"dock", "go"})
    BY <1>5 DEF Arrive, StepsOK
  <2>4. QED
    BY <1>1, <1>5, <2>1, <2>2, <2>3 DEF Arrive, StepsOK, Docking
<1>6. CASE Finish
  <2>1. PlacesOK' /\ pc'["worker"] = "rest"
    BY <1>6, WorkerGoes DEF Finish, WorkerPlaces
  <2>2. QED
    BY <1>1, <1>6, <2>1 DEF Finish, StepsOK, Docking, RobotOK, FlagsOK, robot, status
<1>7. QED
  BY <1>3, <1>4, <1>5, <1>6 DEF Go

\* A message makes the worker begin, or ends it.
LEMMA MessagesKeepTypes ==
  ASSUME TypeInv, Messages
  PROVE  TypeInv'
<1> USE DEF TypeInv
<1>1. ASSUME NEW route \in Routes, Receive(route)
      PROVE  TypeInv'
  <2>1. PlacesOK' /\ pc'["worker"] = "next"
    BY <1>1, WorkerGoes DEF Receive, WorkerPlaces
  <2>2. RobotOK' /\ FlagsOK'
    BY <1>1, ReleaseKeeps DEF Receive, RobotOK, FlagsOK, status
  <2>3. StepsOK'
    BY <1>1, <2>1, DockChargingAssumption DEF Receive, StepsOK, Docking
  <2>4. BoundsOK'
    BY <1>1, DockChargingAssumption DEF Receive, BoundsOK
  <2>5. QED
    BY <2>1, <2>2, <2>3, <2>4
<1>2. ASSUME NEW route \in Routes, Update(route)
      PROVE  TypeInv'
  <2>1. PlacesOK'
    BY <1>2, WorkerGoes DEF Update, WorkerPlaces, PlacesOK
  <2>2. RobotOK' /\ FlagsOK'
    BY <1>2 DEF Update, RobotOK, FlagsOK, robot, status
  <2>3. StepsOK'
    <3>1. todo' \in Seq({"dock", "go"}) /\ todo' # <<>>
      BY <1>2, DockChargingAssumption DEF Update
    <3>2. polls' \in Polls
      BY <1>2, NoPollsType DEF Update, StepsOK
    <3>3. QED
      BY <3>1, <3>2 DEF StepsOK
  <2>4. BoundsOK'
    BY <1>2, DockChargingAssumption DEF Update, BoundsOK
  <2>5. QED
    BY <2>1, <2>2, <2>3, <2>4
<1>3. ASSUME NEW place \in {"cancelling", "rest"}, Goes("worker", place),
             todo' = <<>>, polls' = NoPolls, promised' = FALSE, Release,
             UNCHANGED <<mode, deaf, status, bounds>>
      PROVE  TypeInv'
  <2>1. PlacesOK' /\ pc'["worker"] = place
    BY <1>3, WorkerGoes DEF WorkerPlaces
  <2>2. RobotOK' /\ FlagsOK' /\ BoundsOK'
    BY <1>3, ReleaseKeeps DEF RobotOK, FlagsOK, BoundsOK, status, bounds
  <2>3. todo' \in Seq({"dock", "go"})
    <3>1. <<>> \in Seq({"dock", "go"})
      OBVIOUS
    <3>2. QED
      BY <1>3, <3>1
  <2>4. QED
    BY <1>3, <2>1, <2>2, <2>3, NoPollsType DEF StepsOK, Docking
<1>4. CASE CancelOrder
  BY <1>3, <1>4 DEF CancelOrder
<1>5. CASE WorkerCrashes
  BY <1>3, <1>5 DEF WorkerCrashes
<1>6. CASE CancelStops
  <2>1. PlacesOK' /\ pc'["worker"] = "rest"
    BY <1>6, WorkerGoes DEF CancelStops, WorkerPlaces
  <2>2. RobotOK'
    BY <1>6, SendKeepsRobot DEF CancelStops
  <2>3. QED
    BY <1>6, <2>1, <2>2 DEF CancelStops, FlagsOK, StepsOK, BoundsOK, bounds, Docking
<1>7. QED
  BY <1>1, <1>2, <1>4, <1>5, <1>6 DEF Messages

\* An instant action leaves the steps of the worker alone.
LEMMA InstantActionsKeepTypes ==
  ASSUME TypeInv, InstantActions
  PROVE  TypeInv'
<1> USE DEF TypeInv
<1>1. BoundsOK'
  BY DockChargingAssumption DEF InstantActions, StartCharging, EndStart, ChargeInPlace, ChargedInPlace, NotInPlace,
       StopChargingAction, Instant, BoundsOK, bounds
<1>2. UNCHANGED <<seen, fresh, todo, polls>>
  BY DEF InstantActions, StartCharging, EndStart, ChargeInPlace, ChargedInPlace, NotInPlace,
       StopChargingAction, Instant, status
<1>3. PlacesOK' /\ StepsOK'
  <2>1. PICK place \in {"startWait", "none", "placeWait", "gap"} : Goes("instant", place)
    BY DEF InstantActions, StartCharging, EndStart, ChargeInPlace, ChargedInPlace, NotInPlace,
         StopChargingAction, StopCharging, Stopped
  <2>2. PlacesOK' /\ pc'["worker"] = pc["worker"]
    BY <2>1, InstantGoes DEF InstantPlaces
  <2>3. QED
    BY <1>2, <2>2 DEF StepsOK
<1>4. CASE StartCharging
  BY <1>1, <1>2, <1>3, <1>4, SendKeepsRobot DEF StartCharging, FlagsOK
<1>5. CASE EndStart \/ ChargedInPlace
  BY <1>1, <1>2, <1>3, <1>5 DEF EndStart, ChargedInPlace, RobotOK, FlagsOK, robot, status
<1>6. CASE ChargeInPlace
  BY <1>1, <1>2, <1>3, <1>6 DEF ChargeInPlace, RobotOK, FlagsOK, robot
<1>7. CASE NotInPlace
  BY <1>1, <1>2, <1>3, <1>7 DEF NotInPlace, StopHold, RobotOK, FlagsOK, status
<1>8. CASE StopChargingAction
  <2>1. CASE StopCharging("instant")
    <3>1. CASE hold /\ Release /\ UNCHANGED <<mode, deaf, sampled>>
      BY <1>1, <1>2, <1>3, <1>8, <3>1, ReleaseKeeps DEF StopChargingAction, RobotOK, FlagsOK
    <3>2. CASE UmStop /\ UNCHANGED hold
      BY <1>1, <1>2, <1>3, <1>8, <3>2, SendKeepsRobot DEF StopChargingAction, FlagsOK
    <3>3. QED
      BY <2>1, <3>1, <3>2 DEF StopCharging
  <2>2. CASE Unsent /\ UNCHANGED hold
    BY <1>1, <1>2, <1>3, <1>8, <2>2, SendKeepsRobot DEF StopChargingAction, FlagsOK
  <2>3. QED
    BY <1>8, <2>1, <2>2 DEF StopChargingAction
<1>9. QED
  BY <1>4, <1>5, <1>6, <1>7, <1>8 DEF InstantActions

\* The invariant is inductive.
LEMMA InitTypes == Init => TypeInv
<1> SUFFICES ASSUME Init PROVE TypeInv
  OBVIOUS
<1>1. <<>> \in Seq({"dock", "go"})
  OBVIOUS
<1>2. PlacesOK /\ pc["worker"] = "rest"
  BY DEF Init, PlacesOK, Actors, WorkerPlaces, InstantPlaces
<1>3. RobotOK /\ FlagsOK /\ BoundsOK
  <2>1. RobotOK
    BY DEF Init, RobotOK
  <2>2. FlagsOK
    BY DEF Init, FlagsOK
  <2>3. BoundsOK
    BY DockChargingAssumption DEF Init, BoundsOK
  <2>4. QED
    BY <2>1, <2>2, <2>3
<1>4. StepsOK
  BY <1>1, <1>2, NoPollsType DEF Init, StepsOK, Docking
<1>5. QED
  BY <1>2, <1>3, <1>4 DEF TypeInv

\* Every step keeps the types.
LEMMA NextKeepsTypes == TypeInv /\ [Next]_vars => TypeInv'
<1> SUFFICES ASSUME TypeInv, [Next]_vars PROVE TypeInv'
  OBVIOUS
<1>1. CASE Robot \/ Frame
  <2>1. RobotOK'
    BY <1>1 DEF Robot, Seat, GiveUp, RelayMoves, Reapproach, Frame, TypeInv, RobotOK, status, robot
  <2>2. UNCHANGED <<adapter, bounds>>
    BY <1>1 DEF Robot, Seat, GiveUp, RelayMoves, Reapproach, Frame
  <2>3. QED
    BY <2>1, <2>2 DEF TypeInv, PlacesOK, FlagsOK, StepsOK, BoundsOK, adapter, bounds
<1>2. CASE UNCHANGED vars
  BY <1>2 DEF vars, robot, status, adapter, bounds, TypeInv, RobotOK, PlacesOK, FlagsOK, StepsOK, BoundsOK
<1>3. QED
  BY <1>1, <1>2, DockKeepsTypes, StopKeepsTypes, GoKeepsTypes, MessagesKeepTypes,
     InstantActionsKeepTypes DEF Next

\* The state of the docking and of the charge has the shape the adapter gives it,
\* under every liberty.
THEOREM TypeCorrect == Spec => []TypeOK
<1>1. TypeInv => TypeOK
  BY DEF TypeInv, RobotOK, PlacesOK, FlagsOK, StepsOK, BoundsOK, Polls, TypeOK
<1>2. QED
  BY <1>1, InitTypes, NextKeepsTypes, PTL DEF Spec

-----------------------------------------------------------------------------
(* The relay is held only for somebody *)

\* The hold survives neither a frame that is taken for a status, nor a charge
\* that ends of itself, nor a dock step that is cancelled by an update or finds
\* an instant action beside it: TLC shows each of them.
Calm ==
  /\ "otherFrames" \notin May
  /\ "fullBattery" \notin May
  /\ "updateDuringDock" \notin May
  /\ "instantDuringOrder" \notin May

\* No instant action is under way while an order is.
Alone == pc["instant"] # "none" => pc["worker"] = "rest"

Released ==
  {"dockWait", "redockWait", "halted", "gap", "clearWait", "moveSettle", "travel",
   "cancelling"}

\* Where the hold is up, and what is known of the charge there.
Holders ==
  /\ pc["worker"] \in Released => ~hold
  /\ pc["worker"] \in HandingOver => hold
  /\ pc["worker"] = "next" /\ hold => seen /\ relay /\ promised
  /\ pc["worker"] = "rest" /\ hold => promised \/ pc["instant"] = "placeWait"

\* What a wait for the relay has seen: a flag from after the last UmStop is
\* true only of a relay that is closed, and the second frame brings one.
Verified ==
  pc["worker"] = "verify" =>
    /\ sampled => (seen => relay)
    /\ polls.streak = 1 /\ fresh => sampled

Hands == Alone /\ Holders /\ Verified

\* A dock step that ends leaves a hold with a charge that was seen, or none.
LEMMA DockedHands ==
  ASSUME TypeInv, Hands, Docked, pc["instant"] = "none", UNCHANGED <<seen, relay, hold>>,
         hold => seen /\ relay
  PROVE  Hands'
<1>1. pc'["worker"] = "next" /\ pc'["instant"] = "none" /\ promised'
  BY WorkerGoes DEF Docked, WorkerPlaces, TypeInv
<1>2. QED
  BY <1>1 DEF Hands, Alone, Holders, Verified, Released, HandingOver

\* A step that fails leaves no hold.
LEMMA FailedHands ==
  ASSUME TypeInv, StepFails, pc["instant"] = "none", ~hold'
  PROVE  Hands'
<1>1. pc'["worker"] = "halted" /\ pc'["instant"] = "none"
  BY WorkerGoes DEF StepFails, WorkerPlaces, TypeInv
<1>2. QED
  BY <1>1 DEF Hands, Alone, Holders, Verified, Released, HandingOver

\* The dock and its handover keep the hold in good hands.
LEMMA DockKeepsHands ==
  ASSUME TypeInv, Hands, Dock
  PROVE  Hands'
<1>1. pc["instant"] = "none" /\ PlacesOK
  BY DEF Hands, Alone, Dock, BeginDock, PollDock, SeeCharge, FirstStop, SecondStop, Verify,
         VerifyEnds, Redocked, TypeInv
<1>2. CASE BeginDock
  <2>1. (hold => seen /\ relay) /\ UNCHANGED <<seen, hold>>
    BY <1>2 DEF BeginDock, Hands, Holders
  <2>2. CASE Docked /\ UNCHANGED <<robot, sampled>>
    BY <1>1, <2>1, <2>2, DockedHands DEF robot
  <2>3. CASE ~seen /\ Goes("worker", "dockWait")
    <3>1. pc'["worker"] = "dockWait" /\ pc'["instant"] = "none"
      BY <1>1, <2>3, WorkerGoes DEF WorkerPlaces, Docking
    <3>2. QED
      BY <2>1, <2>3, <3>1 DEF Hands, Alone, Holders, Verified, Released, HandingOver
  <2>4. CASE ~seen /\ StepFails
    BY <1>1, <2>1, <2>4, FailedHands
  <2>5. QED
    BY <1>2, <2>2, <2>3, <2>4 DEF BeginDock
<1>3. CASE PollDock
  <2>1. ~hold /\ ~hold'
    BY <1>3 DEF PollDock, Hands, Holders, Released
  <2>2. CASE StepFails
    BY <1>1, <2>1, <2>2, FailedHands
  <2>3. CASE UNCHANGED pc
    BY <1>1, <1>3, <2>1, <2>3 DEF PollDock, Hands, Alone, Holders, Verified, HandingOver
  <2>4. QED
    BY <1>3, <2>2, <2>3 DEF PollDock
<1>4. CASE SeeCharge
  <2>1. pc'["worker"] = "settle" /\ pc'["instant"] = "none" /\ hold'
    BY <1>1, <1>4, WorkerGoes DEF SeeCharge, WorkerPlaces, Docking
  <2>2. QED
    BY <2>1 DEF Hands, Alone, Holders, Verified, Released, HandingOver
<1>5. CASE Redock
  <2>1. CASE Goes("worker", "redockWait")
    <3>1. pc'["worker"] = "redockWait" /\ pc'["instant"] = "none" /\ ~hold'
      BY <1>1, <1>5, <2>1, WorkerGoes DEF Redock, WorkerPlaces, Docking
    <3>2. QED
      BY <3>1 DEF Hands, Alone, Holders, Verified, Released, HandingOver
  <2>2. CASE StepFails
    BY <1>1, <1>5, <2>2, FailedHands DEF Redock
  <2>3. QED
    BY <1>5, <2>1, <2>2 DEF Redock
<1>6. CASE FirstStop
  <2>1. CASE Goes("worker", "secondStop") /\ UNCHANGED hold
    <3>1. pc'["worker"] = "secondStop" /\ pc'["instant"] = "none" /\ hold'
      BY <1>1, <1>6, <2>1, WorkerGoes
        DEF FirstStop, Hands, Holders, HandingOver, WorkerPlaces, Docking
    <3>2. QED
      BY <3>1 DEF Hands, Alone, Holders, Verified, Released, HandingOver
  <2>2. QED
    BY <1>5, <1>6, <2>1 DEF FirstStop
<1>7. CASE SecondStop
  <2>1. CASE UmStop /\ Goes("worker", "verify") /\ polls' = NoPolls /\ UNCHANGED hold
    <3>1. pc'["worker"] = "verify" /\ pc'["instant"] = "none" /\ hold'
      BY <1>1, <1>7, <2>1, WorkerGoes
        DEF SecondStop, Hands, Holders, HandingOver, WorkerPlaces, Docking
    <3>2. ~sampled' /\ polls'.streak = 0
      BY <2>1 DEF UmStop, NoPolls
    <3>3. QED
      BY <3>1, <3>2 DEF Hands, Alone, Holders, Verified, Released, HandingOver
  <2>2. QED
    BY <1>5, <1>7, <2>1 DEF SecondStop
<1>8. CASE Verify
  <2>1. UNCHANGED <<seen, relay, sampled, hold>> /\ ~fresh'
    BY <1>8 DEF Verify, robot
  <2>2. CASE seen /\ polls.streak = 1 /\ Docked
    <3>1. relay
      BY <1>8, <2>2 DEF Verify, Hands, Verified
    <3>2. QED
      BY <1>1, <2>1, <2>2, <3>1, DockedHands
  <2>3. CASE UNCHANGED <<pc, promised>>
    BY <1>1, <1>8, <2>1, <2>3
      DEF Verify, Hands, Alone, Holders, Verified, Released, HandingOver
  <2>4. QED
    BY <1>8, <2>2, <2>3 DEF Verify
<1>9. CASE VerifyEnds
  <2>1. CASE Release /\ StepFails
    <3>1. ~hold'
      BY <1>9, <2>1 DEF VerifyEnds, Hands, Holders, HandingOver, Release, StopHold
    <3>2. QED
      BY <1>1, <2>1, <3>1, FailedHands
  <2>2. QED
    BY <1>5, <1>9, <2>1 DEF VerifyEnds
<1>10. CASE Redocked
  <2>1. ~hold /\ UNCHANGED <<seen, relay, hold>>
    BY <1>10 DEF Redocked, Hands, Holders, Released, robot, status
  <2>2. QED
    BY <1>1, <1>10, <2>1, DockedHands DEF Redocked
<1>11. QED
  BY <1>2, <1>3, <1>4, <1>6, <1>7, <1>8, <1>9, <1>10 DEF Dock

\* The worker goes on without a hold.
LEMMA WithoutHold ==
  ASSUME TypeInv, Hands, pc["instant"] = "none", ~hold',
         NEW place \in Released \cup {"next", "rest"}, Goes("worker", place)
  PROVE  Hands'
<1>1. pc'["worker"] = place /\ pc'["instant"] = "none"
  BY WorkerGoes DEF Released, WorkerPlaces, Docking, TypeInv
<1>2. QED
  BY <1>1 DEF Hands, Alone, Holders, Verified, Released, HandingOver

\* An instant action leaves a worker that rests to its rest.
LEMMA BesideRest ==
  ASSUME TypeInv, pc["worker"] = "rest", NEW place \in InstantPlaces,
         Goes("instant", place), hold' => promised' \/ place = "placeWait"
  PROVE  Hands'
<1>1. pc'["worker"] = "rest" /\ pc'["instant"] = place
  BY InstantGoes DEF TypeInv
<1>2. QED
  BY <1>1 DEF Hands, Alone, Holders, Verified, Released, HandingOver

\* So does the charge stop of the worker.
LEMMA StopKeepsHands ==
  ASSUME TypeInv, Hands, Stop
  PROVE  Hands'
<1>1. PICK a \in Actors : EndGap(a) \/ Cleared(a) \/ NotCleared(a)
  BY DEF Stop
<1>2. UNCHANGED <<hold, promised>>
  BY <1>1 DEF EndGap, Cleared, NotCleared
<1>3. CASE a = "worker"
  <2>1. pc["instant"] = "none" /\ ~hold
    BY <1>1, <1>3 DEF EndGap, Cleared, NotCleared, Hands, Alone, Holders, Released
  <2>2. CASE StepFails
    BY <1>2, <2>1, <2>2, FailedHands
  <2>3. CASE ~StepFails
    <3>1. PICK place \in {"clearWait", "moveSettle"} : Goes("worker", place)
      BY <1>1, <1>3, <2>3 DEF EndGap, Cleared, NotCleared, Stopped
    <3>2. QED
      BY <1>2, <2>1, <3>1, WithoutHold DEF Released
  <2>4. QED
    BY <2>2, <2>3
<1>4. CASE a = "instant"
  <2>1. pc["instant"] \in {"gap", "clearWait"} /\ pc["worker"] = "rest"
    BY <1>1, <1>4 DEF EndGap, Cleared, NotCleared, Hands, Alone
  <2>2. PICK place \in {"clearWait", "none"} : Goes("instant", place)
    BY <1>1, <1>4 DEF EndGap, Cleared, NotCleared, Stopped
  <2>3. hold' => promised'
    BY <1>2, <2>1 DEF Hands, Holders
  <2>4. QED
    BY <2>1, <2>2, <2>3, BesideRest DEF InstantPlaces
<1>5. QED
  BY <1>3, <1>4 DEF Actors

\* So do the steps that drive.
LEMMA GoKeepsHands ==
  ASSUME TypeInv, Hands, Go
  PROVE  Hands'
<1>1. pc["instant"] = "none"
  BY DEF Hands, Alone, Go, BeginGo, EndMoveSettle, Arrive, Finish
<1>2. ASSUME SendGoto, ~hold'
      PROVE  Hands'
  BY <1>1, <1>2, WithoutHold, FailedHands DEF SendGoto, Released
<1>3. CASE BeginGo
  <2>1. CASE SendGoto /\ ~seen /\ UNCHANGED hold
    BY <1>2, <1>3, <2>1 DEF BeginGo, Hands, Holders
  <2>2. CASE StopCharging("worker")
    <3>1. ~hold'
      BY <2>2 DEF StopCharging, Release, StopHold
    <3>2. PICK place \in {"moveSettle", "gap"} : Goes("worker", place)
      BY <2>2 DEF StopCharging, Stopped
    <3>3. QED
      BY <1>1, <3>1, <3>2, WithoutHold DEF Released
  <2>3. QED
    BY <1>3, <2>1, <2>2 DEF BeginGo
<1>4. CASE EndMoveSettle
  BY <1>2, <1>4 DEF EndMoveSettle, Hands, Holders, Released
<1>5. CASE Arrive
  <2>1. ~hold' /\ Goes("worker", "next")
    BY <1>5 DEF Arrive, Hands, Holders, Released
  <2>2. QED
    BY <1>1, <2>1, WithoutHold
<1>6. CASE Finish
  <2>1. pc'["worker"] = "rest" /\ pc'["instant"] = "none"
    BY <1>1, <1>6, WorkerGoes DEF Finish, WorkerPlaces, TypeInv
  <2>2. hold' => promised'
    BY <1>6 DEF Finish, Hands, Holders
  <2>3. QED
    BY <2>1, <2>2 DEF Hands, Alone, Holders, Verified, Released, HandingOver
<1>7. QED
  BY <1>3, <1>4, <1>5, <1>6 DEF Go

\* So do the messages of the fleet.
LEMMA MessagesKeepHands ==
  ASSUME Calm, TypeInv, Hands, Messages
  PROVE  Hands'
<1>1. ASSUME Release PROVE ~hold'
  BY <1>1 DEF Release, StopHold
<1>2. ASSUME NEW route \in Routes, Receive(route)
      PROVE  Hands'
  <2>1. pc["instant"] = "none" /\ ~hold' /\ Goes("worker", "next")
    BY <1>1, <1>2 DEF Receive, Calm
  <2>2. QED
    BY <2>1, WithoutHold
<1>3. ASSUME NEW route \in Routes, Update(route)
      PROVE  Hands'
  <2>1. UNCHANGED <<pc, polls, promised, relay, seen, fresh, sampled, hold>>
    BY <1>3 DEF Update, Calm, robot, status
  <2>2. QED
    BY <2>1 DEF Hands, Alone, Holders, Verified, Released, HandingOver
<1>4. CASE CancelOrder
  <2>1. pc["instant"] = "none" /\ ~hold' /\ Goes("worker", "cancelling")
    BY <1>1, <1>4 DEF CancelOrder, Hands, Alone
  <2>2. QED
    BY <2>1, WithoutHold DEF Released
<1>5. CASE CancelStops
  <2>1. pc["instant"] = "none" /\ ~hold' /\ Goes("worker", "rest")
    BY <1>5 DEF CancelStops, Hands, Alone, Holders, Released
  <2>2. QED
    BY <2>1, WithoutHold
<1>6. CASE WorkerCrashes
  <2>1. pc["instant"] = "none" /\ ~hold' /\ Goes("worker", "rest")
    BY <1>1, <1>6 DEF WorkerCrashes, Hands, Alone
  <2>2. QED
    BY <2>1, WithoutHold
<1>7. QED
  BY <1>2, <1>3, <1>4, <1>5, <1>6 DEF Messages

\* So does the instant action.
LEMMA InstantActionsKeepHands ==
  ASSUME Calm, TypeInv, Hands, InstantActions
  PROVE  Hands'
<1>1. pc["worker"] = "rest"
  BY DEF InstantActions, StartCharging, EndStart, ChargeInPlace, ChargedInPlace, NotInPlace,
       StopChargingAction, Instant, Calm, Hands, Alone
<1>2. pc["instant"] # "placeWait" /\ hold => promised
  BY <1>1 DEF Hands, Holders
<1>3. CASE StartCharging
  <2>1. Goes("instant", "startWait") /\ (hold' => promised')
    BY <1>2, <1>3 DEF StartCharging, Instant
  <2>2. QED
    BY <1>1, <2>1, BesideRest DEF InstantPlaces
<1>4. CASE EndStart
  <2>1. Goes("instant", "none") /\ (hold' => promised')
    BY <1>2, <1>4 DEF EndStart
  <2>2. QED
    BY <1>1, <2>1, BesideRest DEF InstantPlaces
<1>5. CASE ChargeInPlace
  BY <1>1, <1>5, BesideRest DEF ChargeInPlace, InstantPlaces
<1>6. CASE ChargedInPlace \/ NotInPlace
  <2>1. Goes("instant", "none") /\ (hold' => promised')
    BY <1>6 DEF ChargedInPlace, NotInPlace, StopHold
  <2>2. QED
    BY <1>1, <2>1, BesideRest DEF InstantPlaces
<1>7. CASE StopChargingAction
  <2>1. ~hold'
    BY <1>7 DEF StopChargingAction, StopCharging, Release, StopHold
  <2>2. PICK place \in {"gap", "none"} : Goes("instant", place)
    BY <1>7 DEF StopChargingAction, StopCharging, Stopped
  <2>3. QED
    BY <1>1, <2>1, <2>2, BesideRest DEF InstantPlaces
<1>8. QED
  BY <1>3, <1>4, <1>5, <1>6, <1>7 DEF InstantActions

\* The robot closes a relay and opens none; a frame brings what it finds.
LEMMA RobotKeepsHands ==
  ASSUME Calm, TypeInv, Hands, Robot \/ Frame
  PROVE  Hands'
<1>1. UNCHANGED <<hold, pc, polls, promised>>
  BY DEF Robot, Seat, GiveUp, RelayMoves, Reapproach, Frame, adapter
<1>2. CASE Robot
  <2>1. UNCHANGED <<seen, fresh>> /\ (sampled' => sampled) /\ (relay => relay')
    BY <1>2 DEF Robot, Seat, GiveUp, RelayMoves, Reapproach, status, Calm
  <2>2. fresh /\ sampled /\ pc["worker"] = "verify" => sampled'
    BY <1>2 DEF Robot, Seat, GiveUp, RelayMoves, Reapproach, status, Hands, Holders, HandingOver
  <2>3. QED
    BY <1>1, <2>1, <2>2 DEF Hands, Alone, Holders, Verified, Released, HandingOver
<1>3. CASE Frame
  <2>1. seen' = relay /\ sampled' /\ UNCHANGED relay
    BY <1>3 DEF Frame, Calm, robot
  <2>2. QED
    BY <1>1, <2>1 DEF Hands, Alone, Holders, Verified, Released, HandingOver
<1>4. QED
  BY <1>2, <1>3

\* Every step keeps the hold in good hands.
LEMMA NextKeepsHands ==
  ASSUME Calm, TypeInv, Hands, [Next]_vars
  PROVE  Hands'
<1>1. CASE UNCHANGED vars
  BY <1>1 DEF vars, robot, status, adapter, Hands, Alone, Holders, Verified
<1>2. QED
  BY <1>1, DockKeepsHands, StopKeepsHands, GoKeepsHands, MessagesKeepHands,
     InstantActionsKeepHands, RobotKeepsHands DEF Next

\* Nothing is held at first.
LEMMA InitHands == Init => Hands
BY DEF Init, Hands, Alone, Holders, Verified, Released, HandingOver, Actors

\* The relay is held only for a handover or a charge in place that is under way,
\* or for one that ended well and that nothing has ended since: no failure,
\* cancel or crash between the awaits of a dock step leaves the hold behind.
THEOREM HoldIsOwned == Calm => (Spec => []HoldHasOwner)
<1> SUFFICES ASSUME Calm PROVE Spec => []HoldHasOwner
  OBVIOUS
<1>1. Init => TypeInv /\ Hands
  BY InitTypes, InitHands
<1>2. TypeInv /\ Hands /\ [Next]_vars => (TypeInv /\ Hands)'
  BY NextKeepsTypes, NextKeepsHands
<1>3. TypeInv /\ Hands => HoldHasOwner
  BY DEF TypeInv, PlacesOK, WorkerPlaces, Docking, HandingOver, Hands, Holders, Released, HoldHasOwner
<1>4. QED
  BY <1>1, <1>2, <1>3, PTL DEF Spec

-----------------------------------------------------------------------------
(* Somebody answers for a charge that was promised *)

\* What is left when no liberty is taken at all.
Steady == May = {}

\* Where the robot is, by what it was sent and what it reported.
Placed ==
  /\ mode \in {"away", "approach"} => ~relay
  /\ mode \in {"away", "approach"} /\ sampled => ~seen
  /\ pc["worker"] = "travel" => mode = "away"
  /\ pc["worker"] = "redockWait" => mode # "seated" /\ (mode = "charge" => relay)

\* When a charge is promised, and what answers for it then.
Answered ==
  /\ promised /\ ~hold => mode = "charge" /\ relay
  /\ promised => pc["worker"] \in {"next", "rest"}
  /\ pc["worker"] = "next" /\ promised => seen /\ relay
  /\ pc["worker"] = "next" /\ todo # <<>> /\ Head(todo) = "dock"
       => mode = "away" \/ promised
  /\ pc["instant"] \in {"gap", "clearWait"} => ~promised
  /\ pc["instant"] = "placeWait" => hold

Promises == TypeInv /\ Hands /\ Placed /\ Answered

\* Nothing that is sent makes a status from before it one of now.
LEMMA SendKeepsPlaced ==
  ASSUME Placed, UNCHANGED seen, UmDock \/ UmStop \/ UmGoto \/ Unsent
  PROVE  /\ mode' \in {"away", "approach"} => ~relay'
         /\ mode' \in {"away", "approach"} /\ sampled' => ~seen'
BY DEF Placed, UmDock, UmStop, UmGoto, Unsent, robot

\* Where nothing is promised and no instant action waits, only the place counts.
LEMMA Unpromised ==
  ASSUME TypeInv, pc["instant"] = "none", ~promised',
         NEW place \in WorkerPlaces \ {"next"}, Goes("worker", place)
  PROVE  Answered' /\ pc'["worker"] = place
<1>1. pc'["worker"] = place /\ pc'["instant"] = "none"
  BY WorkerGoes DEF TypeInv
<1>2. QED
  BY <1>1 DEF Answered

\* A dock step that ends well: what answers is there already.
LEMMA DockedPromises ==
  ASSUME Promises, Docked, pc["instant"] = "none",
         UNCHANGED <<mode, relay, seen, sampled, hold>>,
         seen /\ relay, hold \/ mode = "charge"
  PROVE  Placed' /\ Answered'
<1>1. pc'["worker"] = "next" /\ pc'["instant"] = "none" /\ promised'
  BY WorkerGoes DEF Docked, WorkerPlaces, TypeInv, Promises
<1>2. QED
  BY <1>1 DEF Promises, Placed, Answered

\* The dock and its handover keep the promises.
LEMMA DockKeepsPromises ==
  ASSUME Steady, Promises, Dock
  PROVE  Placed' /\ Answered'
<1>1. pc["instant"] = "none" /\ TypeInv
  BY DEF Promises, Hands, Alone, Dock, BeginDock, PollDock, SeeCharge, FirstStop, SecondStop,
         Verify, VerifyEnds, Redocked
<1>2. ASSUME StepFails, ~promised', UNCHANGED <<mode, seen, sampled>>, relay' => relay
      PROVE  Placed' /\ Answered'
  <2>1. Answered' /\ pc'["worker"] = "halted"
    BY <1>1, <1>2, Unpromised DEF StepFails, WorkerPlaces
  <2>2. QED
    BY <1>2, <2>1 DEF Promises, Placed
<1>3. CASE BeginDock
  <2>1. CASE seen /\ Current /\ Docked /\ UNCHANGED <<robot, sampled>>
    <3>1. sampled /\ UNCHANGED <<seen, hold>>
      BY <1>3, <2>1 DEF BeginDock, Current, Steady
    <3>2. promised
      BY <1>3, <2>1, <3>1 DEF BeginDock, Promises, Placed, Answered
    <3>3. relay /\ (hold \/ mode = "charge")
      BY <1>3, <3>2 DEF BeginDock, Promises, Answered
    <3>4. QED
      BY <1>1, <2>1, <3>1, <3>3, DockedPromises DEF robot
  <2>2. CASE ~seen /\ UmDock /\ Goes("worker", "dockWait") /\ UNCHANGED promised
    <3>1. ~promised'
      BY <1>3, <2>2 DEF BeginDock, Promises, Answered
    <3>2. Answered' /\ pc'["worker"] = "dockWait"
      BY <1>1, <2>2, <3>1, Unpromised DEF WorkerPlaces, Docking
    <3>3. QED
      BY <1>3, <2>2, <3>2, SendKeepsPlaced DEF BeginDock, Promises, Placed
  <2>3. CASE ~seen /\ Unsent /\ StepFails /\ UNCHANGED promised
    <3>1. ~promised' /\ UNCHANGED <<mode, relay, seen, sampled>>
      BY <1>3, <2>3 DEF BeginDock, Promises, Answered, Unsent, robot
    <3>2. QED
      BY <1>2, <2>3, <3>1
  <2>4. QED
    BY <1>3, <2>1, <2>2, <2>3 DEF BeginDock
<1>4. CASE ~BeginDock
  <2>1. ~promised
    BY <1>4 DEF Promises, Answered, Dock, PollDock, SeeCharge, FirstStop, SecondStop,
         Verify, VerifyEnds, Redocked
  <2>2. CASE PollDock
    <3>1. UNCHANGED <<mode, relay, seen, sampled, hold, promised>>
      BY <2>2 DEF PollDock, robot, status
    <3>2. CASE StepFails
      BY <1>2, <2>1, <3>1, <3>2
    <3>3. CASE UNCHANGED <<pc, todo>>
      BY <2>1, <3>1, <3>3 DEF Promises, Placed, Answered
    <3>4. QED
      BY <2>2, <3>2, <3>3 DEF PollDock
  <2>3. CASE SeeCharge
    <3>1. Answered' /\ pc'["worker"] = "settle"
      BY <1>1, <2>1, <2>3, Unpromised DEF SeeCharge, WorkerPlaces, Docking
    <3>2. QED
      BY <2>3, <3>1 DEF SeeCharge, Promises, Placed, robot, status
  <2>4. ASSUME Redock, UNCHANGED seen
        PROVE  Placed' /\ Answered'
    <3>1. ~promised'
      BY <2>1, <2>4 DEF Redock
    <3>2. CASE UmDock /\ Goes("worker", "redockWait")
      <4>1. Answered' /\ pc'["worker"] = "redockWait"
        BY <1>1, <3>1, <3>2, Unpromised DEF WorkerPlaces, Docking
      <4>2. QED
        BY <2>4, <3>2, <4>1 DEF UmDock, Promises, Placed
    <3>3. CASE relay' = (relay /\ ~hold) /\ UNCHANGED <<mode, sampled>> /\ StepFails
      BY <1>2, <2>4, <3>1, <3>3
    <3>4. QED
      BY <2>4, <3>2, <3>3 DEF Redock
  <2>5. ASSUME UmStop, UNCHANGED <<seen, promised>>,
               NEW place \in {"secondStop", "verify"}, Goes("worker", place)
        PROVE  Placed' /\ Answered'
    <3>1. Answered' /\ pc'["worker"] = place
      BY <1>1, <2>1, <2>5, Unpromised DEF WorkerPlaces, Docking
    <3>2. QED
      BY <2>5, <3>1, SendKeepsPlaced DEF Promises, Placed
  <2>6. CASE FirstStop
    BY <2>4, <2>5, <2>6 DEF FirstStop
  <2>7. CASE SecondStop
    BY <2>4, <2>5, <2>7 DEF SecondStop
  <2>8. CASE Verify
    <3>1. UNCHANGED <<mode, relay, seen, sampled, hold>> /\ hold
      BY <2>8 DEF Verify, robot, Promises, Hands, Holders, HandingOver
    <3>2. CASE seen /\ polls.streak = 1 /\ Docked
      <4>1. relay
        BY <2>8, <3>2 DEF Verify, Promises, Hands, Verified
      <4>2. QED
        BY <1>1, <3>1, <3>2, <4>1, DockedPromises
    <3>3. CASE UNCHANGED <<pc, todo, promised>>
      BY <3>1, <3>3 DEF Promises, Placed, Answered
    <3>4. QED
      BY <2>8, <3>2, <3>3 DEF Verify
  <2>9. CASE VerifyEnds
    <3>1. CASE Release /\ StepFails /\ UNCHANGED <<mode, deaf, sampled, promised>>
      <4>1. relay' => relay
        BY <3>1 DEF Release, StopHold
      <4>2. QED
        BY <1>2, <2>1, <2>9, <3>1, <4>1 DEF VerifyEnds
    <3>2. QED
      BY <2>4, <2>9, <3>1 DEF VerifyEnds
  <2>10. CASE Redocked
    <3>1. sampled /\ seen /\ UNCHANGED <<mode, relay, seen, sampled, hold>>
      BY <2>10 DEF Redocked, Current, Steady, robot, status
    <3>2. mode = "charge" /\ relay
      BY <2>10, <3>1, <1>1 DEF Redocked, Promises, Placed, TypeInv, RobotOK
    <3>3. QED
      BY <1>1, <2>10, <3>1, <3>2, DockedPromises DEF Redocked
  <2>11. QED
    BY <1>4, <2>2, <2>3, <2>6, <2>7, <2>8, <2>9, <2>10 DEF Dock
<1>5. QED
  BY <1>3, <1>4

\* So does the charge stop of the worker.
LEMMA StopKeepsPromises ==
  ASSUME Promises, Stop
  PROVE  Placed' /\ Answered'
<1>1. PICK a \in Actors : EndGap(a) \/ Cleared(a) \/ NotCleared(a)
  BY DEF Stop
<1>2. ~promised /\ ~promised' /\ UNCHANGED <<hold, seen>>
  BY <1>1 DEF EndGap, Cleared, NotCleared, Promises, Answered, Actors, status
<1>3. UNCHANGED <<mode, relay, sampled>> \/ UmStop \/ Unsent
  BY <1>1 DEF EndGap, Cleared, NotCleared, robot, status
<1>4. /\ mode' \in {"away", "approach"} => ~relay'
      /\ mode' \in {"away", "approach"} /\ sampled' => ~seen'
  BY <1>2, <1>3, SendKeepsPlaced DEF Promises, Placed
<1>5. CASE a = "worker"
  <2>1. pc["instant"] = "none" /\ TypeInv
    BY <1>1, <1>5 DEF EndGap, Cleared, NotCleared, Promises, Hands, Alone
  <2>2. PICK place \in {"clearWait", "moveSettle", "halted"} : Goes("worker", place)
    BY <1>1, <1>5 DEF EndGap, Cleared, NotCleared, Stopped, StepFails
  <2>3. Answered' /\ pc'["worker"] = place
    BY <1>2, <2>1, <2>2, Unpromised DEF WorkerPlaces
  <2>4. QED
    BY <1>4, <2>3 DEF Placed
<1>6. CASE a = "instant"
  <2>1. PICK place \in {"clearWait", "none"} : Goes("instant", place)
    BY <1>1, <1>6 DEF EndGap, Cleared, NotCleared, Stopped
  <2>2. pc["worker"] = "rest"
    BY <1>1, <1>6 DEF EndGap, Cleared, NotCleared, Promises, Hands, Alone
  <2>3. pc'["worker"] = "rest" /\ pc'["instant"] = place
    BY <2>1, <2>2, InstantGoes DEF InstantPlaces, Promises, TypeInv
  <2>4. QED
    BY <1>2, <1>4, <2>3 DEF Placed, Answered
<1>7. QED
  BY <1>5, <1>6 DEF Actors

\* So do the steps that drive.
LEMMA GoKeepsPromises ==
  ASSUME Promises, Go
  PROVE  Placed' /\ Answered'
<1>1. pc["instant"] = "none" /\ TypeInv
  BY DEF Promises, Hands, Alone, Go, BeginGo, EndMoveSettle, Arrive, Finish
<1>2. ASSUME SendGoto, ~promised', UNCHANGED seen
      PROVE  Placed' /\ Answered'
  <2>1. PICK place \in {"travel", "halted"} : Goes("worker", place)
    BY <1>2 DEF SendGoto, StepFails
  <2>2. Answered' /\ pc'["worker"] = place
    BY <1>1, <1>2, <2>1, Unpromised DEF WorkerPlaces
  <2>3. place = "travel" => mode' = "away"
    <3>1. CASE UmGoto
      BY <3>1 DEF UmGoto
    <3>2. CASE StepFails
      <4>1. pc'["worker"] = "halted"
        BY <1>1, <3>2, WorkerGoes DEF StepFails, WorkerPlaces, TypeInv
      <4>2. QED
        BY <2>2, <4>1
    <3>3. QED
      BY <1>2, <3>1, <3>2 DEF SendGoto
  <2>4. /\ mode' \in {"away", "approach"} => ~relay'
        /\ mode' \in {"away", "approach"} /\ sampled' => ~seen'
    BY <1>2, SendKeepsPlaced DEF SendGoto, Promises
  <2>5. QED
    BY <2>2, <2>3, <2>4 DEF Placed
<1>3. CASE BeginGo
  <2>1. ~promised' /\ UNCHANGED seen
    BY <1>3 DEF BeginGo
  <2>2. CASE SendGoto
    BY <1>2, <2>1, <2>2
  <2>3. CASE StopCharging("worker")
    <3>1. PICK place \in {"moveSettle", "gap"} : Goes("worker", place)
      BY <2>3 DEF StopCharging, Stopped
    <3>2. Answered' /\ pc'["worker"] = place
      BY <1>1, <2>1, <3>1, Unpromised DEF WorkerPlaces
    <3>3. /\ mode' \in {"away", "approach"} => ~relay'
          /\ mode' \in {"away", "approach"} /\ sampled' => ~seen'
      <4>1. CASE hold /\ Release /\ UNCHANGED <<mode, sampled>>
        BY <2>1, <4>1 DEF Release, StopHold, Promises, Placed
      <4>2. CASE UmStop
        BY <2>1, <4>2, SendKeepsPlaced DEF Promises
      <4>3. QED
        BY <2>3, <4>1, <4>2 DEF StopCharging
    <3>4. QED
      BY <3>2, <3>3 DEF Placed
  <2>4. QED
    BY <1>3, <2>2, <2>3 DEF BeginGo
<1>4. CASE EndMoveSettle
  BY <1>2, <1>4 DEF EndMoveSettle, Promises, Answered
<1>5. CASE Arrive
  <2>1. pc'["worker"] = "next" /\ pc'["instant"] = "none"
    BY <1>1, <1>5, WorkerGoes DEF Arrive, WorkerPlaces, TypeInv
  <2>2. ~promised' /\ mode' = "away" /\ UNCHANGED <<mode, relay, seen, sampled>>
    BY <1>5 DEF Arrive, Promises, Placed, Answered, robot, status
  <2>3. QED
    BY <2>1, <2>2 DEF Promises, Placed, Answered
<1>6. CASE Finish
  <2>1. pc'["worker"] = "rest" /\ pc'["instant"] = "none"
    BY <1>1, <1>6, WorkerGoes DEF Finish, WorkerPlaces, TypeInv
  <2>2. UNCHANGED <<mode, relay, seen, sampled, hold, promised>>
    BY <1>6 DEF Finish, robot, status
  <2>3. QED
    BY <2>1, <2>2 DEF Promises, Placed, Answered
<1>7. QED
  BY <1>3, <1>4, <1>5, <1>6 DEF Go

\* So do the messages of the fleet.
LEMMA MessagesKeepPromises ==
  ASSUME Steady, Promises, Messages
  PROVE  Placed' /\ Answered'
<1>1. TypeInv
  BY DEF Promises
<1>2. ASSUME Release PROVE relay' => relay
  BY <1>2 DEF Release, StopHold
<1>3. ASSUME NEW route \in Routes, Receive(route)
      PROVE  Placed' /\ Answered'
  <2>1. pc'["worker"] = "next" /\ pc'["instant"] = "none"
    BY <1>1, <1>3, WorkerGoes DEF Receive, Steady, WorkerPlaces, TypeInv
  <2>2. ~promised' /\ (relay' => relay) /\ UNCHANGED <<mode, seen, sampled>>
    BY <1>2, <1>3 DEF Receive, status
  <2>3. Head(todo') = "dock" => mode' = "away"
    BY <1>3 DEF Receive, Steady
  <2>4. QED
    BY <2>1, <2>2, <2>3 DEF Promises, Placed, Answered
<1>4. ASSUME NEW route \in Routes, Update(route)
      PROVE  Placed' /\ Answered'
  <2>1. UNCHANGED <<pc, promised, mode, relay, seen, sampled, hold>>
    BY <1>4 DEF Update, Steady, robot, status
  <2>2. pc["worker"] # "next"
    BY <1>4 DEF Update, Docking
  <2>3. QED
    BY <2>1, <2>2 DEF Promises, Placed, Answered
<1>5. ASSUME pc["instant"] = "none", ~promised', UNCHANGED seen,
             NEW place \in {"cancelling", "rest"}, Goes("worker", place),
             UmStop \/ Unsent \/ ((relay' => relay) /\ UNCHANGED <<mode, sampled>>)
      PROVE  Placed' /\ Answered'
  <2>1. Answered' /\ pc'["worker"] = place
    BY <1>1, <1>5, Unpromised DEF WorkerPlaces
  <2>2. /\ mode' \in {"away", "approach"} => ~relay'
        /\ mode' \in {"away", "approach"} /\ sampled' => ~seen'
    BY <1>5, SendKeepsPlaced DEF Promises, Placed
  <2>3. QED
    BY <2>1, <2>2 DEF Placed
<1>6. pc["worker"] # "rest" => pc["instant"] = "none"
  BY DEF Promises, Hands, Alone
<1>7. CASE CancelOrder
  BY <1>2, <1>5, <1>6, <1>7 DEF CancelOrder, status
<1>8. CASE CancelStops
  BY <1>5, <1>6, <1>8 DEF CancelStops, Promises, Answered
<1>9. CASE WorkerCrashes
  BY <1>2, <1>5, <1>6, <1>9 DEF WorkerCrashes, status
<1>10. QED
  BY <1>3, <1>4, <1>7, <1>8, <1>9 DEF Messages

\* So does the instant action.
LEMMA InstantActionsKeepPromises ==
  ASSUME Steady, Promises, InstantActions
  PROVE  Placed' /\ Answered'
<1>1. pc["worker"] = "rest" /\ UNCHANGED seen
  BY DEF InstantActions, StartCharging, EndStart, ChargeInPlace, ChargedInPlace, NotInPlace,
       StopChargingAction, Instant, Steady, Promises, Hands, Alone, status
<1>2. ASSUME NEW place \in InstantPlaces, Goes("instant", place)
      PROVE  pc'["worker"] = "rest" /\ pc'["instant"] = place
  BY <1>1, <1>2, InstantGoes DEF Promises, TypeInv
<1>3. CASE StartCharging
  <2>1. pc'["worker"] = "rest" /\ pc'["instant"] = "startWait"
    BY <1>2, <1>3 DEF StartCharging, InstantPlaces
  <2>2. promised' => hold'
    BY <1>3 DEF StartCharging
  <2>3. QED
    BY <1>1, <1>3, <2>1, <2>2, SendKeepsPlaced DEF StartCharging, Promises, Placed, Answered
<1>4. CASE EndStart
  <2>1. pc'["worker"] = "rest" /\ pc'["instant"] = "none"
    BY <1>2, <1>4 DEF EndStart, InstantPlaces
  <2>2. QED
    BY <1>4, <2>1 DEF EndStart, Promises, Placed, Answered, robot, status
<1>5. CASE ChargeInPlace
  <2>1. pc'["worker"] = "rest" /\ pc'["instant"] = "placeWait"
    BY <1>2, <1>5 DEF ChargeInPlace, InstantPlaces
  <2>2. QED
    BY <1>1, <1>5, <2>1 DEF ChargeInPlace, Promises, Placed, Answered, robot
<1>6. CASE ChargedInPlace
  <2>1. pc'["worker"] = "rest" /\ pc'["instant"] = "none"
    BY <1>2, <1>6 DEF ChargedInPlace, InstantPlaces
  <2>2. hold'
    BY <1>6 DEF ChargedInPlace, Promises, Answered
  <2>3. QED
    BY <1>6, <2>1, <2>2 DEF ChargedInPlace, Promises, Placed, Answered, robot, status
<1>7. CASE NotInPlace
  <2>1. pc'["worker"] = "rest" /\ pc'["instant"] = "none"
    BY <1>2, <1>7 DEF NotInPlace, InstantPlaces
  <2>2. QED
    BY <1>7, <2>1 DEF NotInPlace, StopHold, Promises, Placed, Answered, status
<1>8. CASE StopChargingAction
  <2>1. PICK place \in {"gap", "none"} : Goes("instant", place)
    BY <1>8 DEF StopChargingAction, StopCharging, Stopped
  <2>2. pc'["worker"] = "rest" /\ pc'["instant"] = place /\ ~promised'
    BY <1>2, <1>8, <2>1 DEF StopChargingAction, InstantPlaces
  <2>3. /\ mode' \in {"away", "approach"} => ~relay'
        /\ mode' \in {"away", "approach"} /\ sampled' => ~seen'
    <3>1. CASE hold /\ Release /\ UNCHANGED <<mode, sampled>>
      BY <1>1, <3>1 DEF Release, StopHold, Promises, Placed
    <3>2. CASE UmStop \/ Unsent
      BY <1>1, <3>2, SendKeepsPlaced DEF Promises
    <3>3. QED
      BY <1>8, <3>1, <3>2 DEF StopChargingAction, StopCharging
  <2>4. QED
    BY <2>2, <2>3 DEF Placed, Answered
<1>9. QED
  BY <1>3, <1>4, <1>5, <1>6, <1>7, <1>8 DEF InstantActions

\* So does the robot.
LEMMA RobotKeepsPromises ==
  ASSUME Steady, Promises, Robot \/ Frame
  PROVE  Placed' /\ Answered'
<1>1. UNCHANGED <<hold, pc, todo, promised>>
  BY DEF Robot, Seat, GiveUp, RelayMoves, Reapproach, Frame, adapter
<1>2. CASE Seat
  BY <1>1, <1>2 DEF Seat, status, Promises, Placed, Answered, Hands, Holders
<1>3. CASE GiveUp
  BY <1>1, <1>3 DEF GiveUp, status, Promises, Placed, Answered
<1>4. CASE RelayMoves
  <2>1. ~relay /\ relay' /\ mode \in {"charge", "seated"} /\ UNCHANGED <<mode, seen, sampled>>
    BY <1>4 DEF RelayMoves, Steady, status
  <2>2. QED
    BY <1>1, <2>1 DEF Promises, Placed, Answered
<1>5. CASE Reapproach
  <2>1. ~promised /\ pc["worker"] # "redockWait" /\ pc["worker"] # "travel"
    BY <1>5 DEF Reapproach, Promises, Placed, Answered
  <2>2. ~(pc["worker"] = "next" /\ todo # <<>> /\ Head(todo) = "dock")
    BY <1>5, <2>1 DEF Reapproach, Promises, Answered
  <2>3. QED
    BY <1>1, <1>5, <2>1, <2>2 DEF Reapproach, Promises, Placed, Answered
<1>6. CASE Frame
  <2>1. seen' = relay /\ UNCHANGED <<mode, relay>>
    BY <1>6 DEF Frame, Steady, robot
  <2>2. QED
    BY <1>1, <2>1 DEF Promises, Placed, Answered
<1>7. QED
  BY <1>2, <1>3, <1>4, <1>5, <1>6 DEF Robot

\* Every step keeps the promises.
LEMMA NextKeepsPromises ==
  ASSUME Steady, Promises, [Next]_vars
  PROVE  Promises'
<1>1. TypeInv' /\ Hands'
  BY NextKeepsTypes, NextKeepsHands DEF Promises, Steady, Calm
<1>2. CASE UNCHANGED vars
  BY <1>1, <1>2 DEF vars, robot, status, adapter, Promises, Placed, Answered
<1>3. QED
  BY <1>1, <1>2, DockKeepsPromises, StopKeepsPromises, GoKeepsPromises, MessagesKeepPromises,
     InstantActionsKeepPromises, RobotKeepsPromises DEF Next, Promises

\* Nothing is promised at first.
LEMMA InitPromises == Init => Promises
BY InitTypes, InitHands DEF Init, Promises, Placed, Answered, Actors

\* After a dock step or a charge in place that ended well the hold or ModeCharge
\* answers for the charge until something ends it, through every failure of the
\* handover and its fallback, if no liberty is taken.
THEOREM PromiseIsAnswered == Steady => (Spec => []PromisedIsCharged)
<1> SUFFICES ASSUME Steady PROVE Spec => []PromisedIsCharged
  OBVIOUS
<1>1. Promises /\ [Next]_vars => Promises'
  BY NextKeepsPromises
<1>2. Promises => PromisedIsCharged
  BY DEF Promises, Answered, PromisedIsCharged
<1>3. QED
  BY <1>1, <1>2, InitPromises, PTL DEF Spec
==============================================================================
