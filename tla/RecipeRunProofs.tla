---------------------------- MODULE RecipeRunProofs ----------------------------
(* Proofs about RecipeRun: a recipe that ends has run its cleanup in full, leaves
   nothing in the adapter's tables, earns its FINISHED, drives one child at a
   time, and implements ActionTask. *)
EXTENDS RecipeRun, TLAPS

Results == {"FINISHED", "FAILED"}

ControlTypes ==
  /\ stage \in {"queued", "body", "cleanup", "over", "dropped", "torn"}
  /\ outcome \in {"none", "FINISHED", "FAILED", "cancelled"}
  /\ step \in (1..Steps) \cup (1..Cleanups)
  /\ attempt \in Attempts("step") \cup Attempts("cleanup")
  /\ phase \in {"idle", "await", "reap", "stop", "hold", "gone"}
  /\ expired \in BOOLEAN /\ bodyFailed \in BOOLEAN
  /\ cleanupFailed \in BOOLEAN /\ cancelled \in BOOLEAN

\* Where the handler is belongs to the section that runs.
Placed ==
  /\ stage \in {"queued", "body"} => step \in 1..Steps /\ attempt \in Attempts("step")
  /\ stage \in {"cleanup", "torn"} => step \in 1..Cleanups /\ attempt \in Attempts("cleanup")
  /\ stage = "queued" => phase = "idle" /\ step = 1
  /\ stage \in {"over", "dropped"} => phase = "gone"

\* The cleanup steps are run in order, and none is left out.
CleanedUp ==
  /\ ran \subseteq 1..Cleanups
  /\ stage \in {"queued", "body", "dropped"} => ran = {}
  /\ stage = "cleanup" => ran = 1..(step - 1)
  /\ stage = "over" => ran = 1..Cleanups

Control == ControlTypes /\ Placed /\ CleanedUp

\* A child is stopped for a reason, and for a cancel only in the body.
Waits ==
  /\ why \in {"none", "timeout", "cancel"}
  /\ last \in {"none"} \cup Results
  /\ phase \notin {"reap", "stop"} => why = "none"
  /\ why = "cancel" => stage = "body"
  /\ phase = "hold" => last \in Results
  /\ phase = "hold" /\ last = "FAILED" => attempt <= Retries[Section]

CtlInv == Control /\ Waits

-------------------------------------------------------------------------------
\* What the handler may do next.
Onward ==
  \/ stage' = stage
  \/ stage = "body" /\ Cleanups # 0 /\ stage' = "cleanup"
  \/ stage = "body" /\ Cleanups = 0 /\ stage' = "over"
  \/ stage = "cleanup" /\ Cleanups # 0 /\ stage' = "over"

\* The first attempt of a section is one of its attempts.
LEMMA FirstAttempt ==
  /\ Steps \in Nat /\ Cleanups \in Nat /\ 1 \in 1..Steps
  /\ Retries["step"] \in Nat /\ Retries["cleanup"] \in Nat
  /\ 1 \in Attempts("step") /\ 1 \in Attempts("cleanup")
BY SizeAssumption DEF Attempts

\* The finally block begins with the first step of the cleanup, or the handler ends.
LEMMA EnterCleanupControl ==
  ASSUME Control, NEW failed \in BOOLEAN, NEW cancel \in BOOLEAN, stage = "body",
         EnterCleanup(failed, cancel)
  PROVE  Control' /\ Onward /\ phase' \in {"idle", "gone"} /\ stage' \in {"cleanup", "over"}
<1> USE FirstAttempt
<1>1. CASE Cleanups = 0
  BY <1>1 DEF EnterCleanup, HandlerEnds, Control, ControlTypes, Placed, CleanedUp, Onward
<1>2. CASE Cleanups # 0
  <2>1. /\ stage' = "cleanup" /\ step' = 1 /\ attempt' = 1 /\ phase' = "idle" /\ expired' = FALSE
        /\ outcome' = outcome /\ bodyFailed' = failed /\ cancelled' = cancel
        /\ cleanupFailed' = cleanupFailed /\ ran' = ran
    BY <1>2 DEF EnterCleanup
  <2>2. ran = 1..(1 - 1) /\ 1 \in 1..Cleanups
    BY <1>2 DEF Control, CleanedUp
  <2>3. ControlTypes'
    BY <2>1, <2>2 DEF Control, ControlTypes
  <2>4. Placed' /\ Onward
    BY <1>2, <2>1, <2>2 DEF Placed, Onward
  <2>5. CleanedUp'
    <3>1. ran = {}
      BY DEF Control, CleanedUp
    <3> QED BY <2>1, <2>2, <3>1 DEF CleanedUp
  <2> QED BY <2>1, <2>3, <2>4, <2>5 DEF Control
<1> QED BY <1>1, <1>2

\* A result moves the handler to the next step, to the cleanup or to its end.
LEMMA StepReturnsControl ==
  ASSUME Control, NEW result \in Results, StepReturns(result)
  PROVE  Control' /\ Onward /\ phase' \in {"idle", "gone"}
<1> USE FirstAttempt
<1>1. CASE BodyReturns(result)
  <2>1. CASE result = "FINISHED" /\ step < Steps
    <3>1. /\ stage = "body" /\ stage' = stage /\ outcome' = outcome
          /\ step' = step + 1 /\ attempt' = 1 /\ phase' = "idle" /\ ran' = ran
          /\ expired' = expired /\ bodyFailed' = bodyFailed
          /\ cleanupFailed' = cleanupFailed /\ cancelled' = cancelled
      BY <1>1, <2>1 DEF BodyReturns, NextStep, errors
    <3>2. step' \in 1..Steps
      BY <2>1, <3>1 DEF Control, Placed
    <3>3. ControlTypes'
      BY <3>1, <3>2 DEF Control, ControlTypes
    <3>4. Placed' /\ CleanedUp'
      BY <3>1, <3>2 DEF Control, Placed, CleanedUp
    <3> QED BY <3>1, <3>3, <3>4 DEF Control, Onward
  <2>2. CASE ~(result = "FINISHED" /\ step < Steps)
    BY <1>1, <2>2, EnterCleanupControl DEF BodyReturns
  <2> QED BY <2>1, <2>2
<1>2. CASE CleanupReturns(result)
  <2>1. stage = "cleanup" /\ step \in 1..Cleanups /\ ran' = 1..step /\ Cleanups # 0
    <3>1. stage = "cleanup" /\ step \in 1..Cleanups /\ ran = 1..(step - 1) /\ ran' = ran \cup {step}
      BY <1>2 DEF CleanupReturns, CleanupStepEnds, Control, Placed, CleanedUp
    <3>2. \A k \in 1..Cleanups : (1..(k - 1)) \cup {k} = 1..k
      OBVIOUS
    <3>3. ran' = 1..step
      BY <3>1, <3>2
    <3>4. Cleanups # 0
      BY <3>1
    <3> QED BY <3>1, <3>3, <3>4
  <2>2. cleanupFailed' \in BOOLEAN /\ bodyFailed' = bodyFailed /\ cancelled' = cancelled
    BY <1>2 DEF CleanupReturns, CleanupStepEnds, Control, ControlTypes
  <2>3. CASE step < Cleanups
    <3>1. /\ stage' = stage /\ outcome' = outcome /\ step' = step + 1 /\ attempt' = 1
          /\ phase' = "idle" /\ expired' = FALSE
      BY <1>2, <2>3 DEF CleanupReturns, NextStep
    <3>2. step' \in 1..Cleanups /\ step' - 1 = step
      BY <2>1, <2>3, <3>1
    <3>3. ControlTypes'
      BY <2>2, <3>1, <3>2 DEF Control, ControlTypes
    <3>4. Placed' /\ CleanedUp'
      BY <2>1, <3>1, <3>2 DEF Placed, CleanedUp
    <3> QED BY <3>1, <3>3, <3>4 DEF Control, Onward
  <2>4. CASE ~(step < Cleanups)
    <3>1. step = Cleanups
      BY <2>1, <2>4
    <3>2. /\ stage' = "over" /\ phase' = "gone" /\ step' = step /\ attempt' = attempt
          /\ expired' = expired /\ outcome' \in {"cancelled", "FAILED", "FINISHED"}
      BY <1>2, <2>4 DEF CleanupReturns, HandlerEnds
    <3> QED BY <2>1, <2>2, <3>1, <3>2 DEF Control, ControlTypes, Placed, CleanedUp, Onward
  <2> QED BY <2>3, <2>4
<1>3. CASE ShieldedReturns
  BY <1>3 DEF ShieldedReturns, errors, Control, ControlTypes, Placed, CleanedUp, Onward
<1> QED BY <1>1, <1>2, <1>3 DEF StepReturns

\* Steps that leave the handler where it is, but for what it waits for.
LEMMA SamePlaceControl ==
  ASSUME Control, UNCHANGED <<stage, outcome, step, attempt, errors, ran>>, expired' \in BOOLEAN,
         stage \notin {"queued", "over", "dropped"},
         phase' \in {"idle", "await", "reap", "stop", "hold", "gone"}
  PROVE  Control' /\ Onward
BY DEF Control, ControlTypes, Placed, CleanedUp, Onward, errors

\* After a result there may be a hold; else the step returns.
LEMMA ExecuteReturnsControl ==
  ASSUME CtlInv, NEW result \in Results, ExecuteReturns(result),
         stage \in {"body", "cleanup", "torn"}
  PROVE  CtlInv' /\ Onward
<1>1. why' = "none" /\ last' = result
  BY DEF ExecuteReturns
<1>2. CASE result = "FINISHED" \/ attempt <= Retries[Section]
  <2>1. phase' = "hold" /\ UNCHANGED <<stage, outcome, step, attempt, expired, errors, ran>>
    BY <1>2 DEF ExecuteReturns
  <2>2. Control' /\ Onward
    BY <2>1, SamePlaceControl DEF CtlInv, Control, ControlTypes
  <2>3. Section' = Section
    BY <2>1 DEF Section
  <2> QED BY <1>1, <1>2, <2>1, <2>2, <2>3 DEF CtlInv, Waits, Results
<1>3. CASE ~(result = "FINISHED" \/ attempt <= Retries[Section])
  <2>1. Control' /\ Onward /\ phase' \in {"idle", "gone"}
    BY <1>3, StepReturnsControl DEF ExecuteReturns, CtlInv
  <2> QED BY <1>1, <2>1 DEF CtlInv, Waits, Results
<1> QED BY <1>2, <1>3

\* The stop of a child begins.
LEMMA CancelChildControl ==
  ASSUME CtlInv, NEW reason \in {"timeout", "cancel"}, CancelChild(reason),
         stage \in {"body", "cleanup", "torn"}, reason = "cancel" => stage = "body"
  PROVE  CtlInv' /\ Onward
<1>1. /\ phase' \in {"reap", "stop"} /\ why' = reason /\ last' = last
      /\ UNCHANGED <<stage, outcome, step, attempt, expired, errors, ran>>
  BY DEF CancelChild
<1>2. Control' /\ Onward
  BY <1>1, SamePlaceControl DEF CtlInv, Control, ControlTypes
<1> QED BY <1>1, <1>2 DEF CtlInv, Waits, Results

\* Every move of the handler: onward, its begin, and the cancels of its owner.
Move ==
  \/ Onward
  \/ stage = "queued" /\ stage' \in {"body", "dropped"}
  \/ stage = "cleanup" /\ stage' = "torn"

\* A cancel in the body leads to the cleanup.
LEMMA CancelledControl ==
  ASSUME CtlInv, stage = "body", EnterCleanup(FALSE, TRUE), why' = "none", last' = last
  PROVE  CtlInv' /\ Move
<1>1. Control' /\ Onward /\ phase' \in {"idle", "gone"}
  BY EnterCleanupControl DEF CtlInv
<1> QED BY <1>1 DEF CtlInv, Waits, Move

\* The handler goes on by itself.
LEMMA RunsControl ==
  ASSUME CtlInv, Runs, phase = "await" => answer[Id] \in {"none"} \cup Results
  PROVE  CtlInv' /\ Move
<1> USE DEF CtlInv
<1>0. phase # "gone" /\ stage # "queued" => stage \in {"body", "cleanup", "torn"}
  BY DEF Control, ControlTypes, Placed
<1>1. CASE Begin
  <2>1. /\ stage = "queued" /\ stage' = "body" /\ why' = why /\ last' = last
        /\ UNCHANGED <<outcome, step, attempt, phase, expired, errors, ran>>
    BY <1>1 DEF Begin
  <2>2. ControlTypes'
    BY <2>1 DEF Control, ControlTypes, errors
  <2>3. Placed' /\ CleanedUp'
    BY <2>1 DEF Control, Placed, CleanedUp
  <2>4. Waits'
    BY <2>1 DEF Control, Placed, Waits, Results
  <2> QED BY <2>1, <2>2, <2>3, <2>4 DEF Control, Move
<1>2. CASE AttemptRefused
  <2>1. StepReturns("FAILED") /\ why' = why /\ last' = last /\ phase = "idle"
    BY <1>2 DEF AttemptRefused, Ready
  <2>2. Control' /\ Onward /\ phase' \in {"idle", "gone"}
    BY <2>1, StepReturnsControl DEF Results
  <2> QED BY <2>1, <2>2 DEF Waits, Move
<1>3. CASE ChildRefuses
  <2>1. ExecuteReturns("FAILED") /\ stage \in {"body", "cleanup", "torn"}
    BY <1>3 DEF ChildRefuses, Ready
  <2> QED BY <2>1, ExecuteReturnsControl DEF Results, Move
<1>4. CASE ChildStarts
  <2>1. /\ stage \in {"body", "cleanup", "torn"} /\ phase = "idle" /\ phase' = "await"
        /\ UNCHANGED <<stage, outcome, step, attempt, why, last, expired, errors, ran>>
    BY <1>4 DEF ChildStarts, Ready
  <2>2. Control' /\ Onward
    BY <2>1, SamePlaceControl DEF Control, ControlTypes
  <2> QED BY <2>1, <2>2 DEF Waits, Move
<1>5. CASE ChildAnswers
  <2>1. ExecuteReturns(answer[Id]) /\ answer[Id] # "none" /\ phase = "await"
    BY <1>5 DEF ChildAnswers
  <2> QED BY <1>0, <2>1, ExecuteReturnsControl DEF Control, Placed, Move
<1>6. CASE ChildTimesOut
  <2>1. phase = "await" /\ stage \in {"body", "cleanup", "torn"}
    BY <1>0, <1>6 DEF ChildTimesOut, Control, Placed
  <2>2. CASE CancelChild("timeout")
    BY <2>1, <2>2, CancelChildControl DEF Move
  <2>3. CASE ExecuteReturns("FAILED")
    BY <2>1, <2>3, ExecuteReturnsControl DEF Results, Move
  <2> QED BY <1>6, <2>2, <2>3 DEF ChildTimesOut
<1>7. CASE Reaped
  <2>1. /\ phase = "reap" /\ phase' = "stop"
        /\ UNCHANGED <<stage, outcome, step, attempt, why, last, expired, errors, ran>>
    BY <1>7 DEF Reaped
  <2>2. stage \in {"body", "cleanup", "torn"}
    BY <1>0, <2>1 DEF Control, Placed
  <2>3. Control' /\ Onward
    BY <2>1, <2>2, SamePlaceControl DEF Control, ControlTypes
  <2> QED BY <2>1, <2>3 DEF Waits, Move
<1>8. CASE StopSent
  <2>1. phase = "stop" /\ stage \in {"body", "cleanup", "torn"}
    BY <1>0, <1>8 DEF StopSent, Control, Placed
  <2>2. CASE why = "timeout" /\ ExecuteReturns("FAILED")
    BY <2>1, <2>2, ExecuteReturnsControl DEF Results, Move
  <2>3. CASE why = "cancel" /\ EnterCleanup(FALSE, TRUE) /\ why' = "none" /\ UNCHANGED last
    BY <2>3, CancelledControl DEF Waits
  <2> QED BY <1>8, <2>2, <2>3 DEF StopSent
<1>9. CASE HoldEnds
  <2>1. phase = "hold" /\ why' = why /\ last' = last /\ stage \in {"body", "cleanup", "torn"}
    BY <1>0, <1>9 DEF HoldEnds, Control, Placed
  <2>2. CASE StepReturns(last)
    <3>1. Control' /\ Onward /\ phase' \in {"idle", "gone"}
      BY <2>1, <2>2, StepReturnsControl DEF Waits
    <3> QED BY <2>1, <3>1 DEF Waits, Move
  <2>3. CASE /\ last = "FAILED" /\ attempt' = attempt + 1 /\ phase' = "idle"
             /\ UNCHANGED <<stage, outcome, step, expired, errors, ran>>
    <3>1. attempt <= Retries[Section] /\ attempt \in Attempts(Section)
      BY <2>1, <2>3 DEF Waits, Control, Placed, Section
    <3>2. Section \in {"step", "cleanup"} /\ Retries[Section] \in Nat
      BY FirstAttempt DEF Section
    <3>3. attempt' \in Attempts(Section)
      BY <2>3, <3>1, <3>2 DEF Attempts
    <3>4. ControlTypes'
      BY <2>3, <3>2, <3>3 DEF Control, ControlTypes, errors
    <3>5. Placed' /\ CleanedUp'
      BY <2>1, <2>3, <3>3 DEF Control, Placed, CleanedUp, Section
    <3> QED BY <2>1, <2>3, <3>4, <3>5 DEF Control, Waits, Move, Onward
  <2> QED BY <1>9, <2>2, <2>3 DEF HoldEnds
<1> QED BY <1>1, <1>2, <1>3, <1>4, <1>5, <1>6, <1>7, <1>8, <1>9 DEF Runs

\* The owner cancels.
LEMMA OwnerControl ==
  ASSUME CtlInv, Owner
  PROVE  CtlInv' /\ Move
<1> USE DEF CtlInv
<1>1. CASE CancelQueued
  <2>1. /\ stage = "queued" /\ stage' = "dropped" /\ phase' = "gone" /\ outcome' = "cancelled"
        /\ UNCHANGED <<step, attempt, why, last, expired, errors, ran>>
    BY <1>1 DEF CancelQueued
  <2>2. ControlTypes'
    BY <2>1 DEF Control, ControlTypes, errors
  <2>3. Placed' /\ CleanedUp' /\ Waits'
    BY <2>1 DEF Control, Placed, CleanedUp, Waits
  <2> QED BY <2>1, <2>2, <2>3 DEF Control, Move
<1>2. CASE CancelAwait
  <2>1. stage = "body"
    BY <1>2 DEF CancelAwait
  <2>2. CASE CancelChild("cancel")
    BY <2>1, <2>2, CancelChildControl DEF Move
  <2>3. CASE EnterCleanup(FALSE, TRUE) /\ why' = "none" /\ UNCHANGED <<last, task>>
    BY <2>1, <2>3, CancelledControl
  <2> QED BY <1>2, <2>2, <2>3 DEF CancelAwait
<1>3. CASE CancelHold
  BY <1>3, CancelledControl DEF CancelHold, Waits
<1>4. CASE CancelSwallowed
  <2>1. UNCHANGED <<stage, outcome, step, attempt, phase, why, last, expired, errors, ran>>
    BY <1>4 DEF CancelSwallowed, control
  <2> QED BY <2>1 DEF Control, ControlTypes, Placed, CleanedUp, Waits, Move, Onward, Section, errors
<1>5. CASE CancelInStop
  BY <1>5, CancelledControl DEF CancelInStop
<1>6. CASE CancelInCleanup
  <2>1. /\ stage = "cleanup" /\ stage' = "torn" /\ outcome' = "cancelled"
        /\ UNCHANGED <<step, attempt, phase, why, last, expired, errors, ran>>
    BY <1>6 DEF CancelInCleanup
  <2>2. ControlTypes'
    BY <2>1 DEF Control, ControlTypes, errors
  <2>3. Placed' /\ CleanedUp'
    BY <2>1 DEF Control, Placed, CleanedUp
  <2>4. Waits'
    BY <2>1 DEF Waits, Section
  <2> QED BY <2>1, <2>2, <2>3, <2>4 DEF Control, Move
<1> QED BY <1>1, <1>2, <1>3, <1>4, <1>5, <1>6 DEF Owner

\* Children and robot leave the handler where it is.
LEMMA OthersControl ==
  ASSUME CtlInv, Expire \/ (\E id \in Ids : Tasks(id) \/ RobotArrives(id)) \/ UNCHANGED vars
  PROVE  CtlInv' /\ Move
<1>1. CASE Expire
  <2>1. /\ stage \in {"body", "cleanup"} /\ expired' = TRUE
        /\ UNCHANGED <<stage, outcome, step, attempt, phase, why, last, errors, ran>>
    BY <1>1 DEF Expire
  <2>2. Control' /\ Onward
    BY <2>1, SamePlaceControl DEF CtlInv, Control, ControlTypes
  <2> QED BY <2>1, <2>2 DEF CtlInv, Waits, Section, Move
<1>2. CASE UNCHANGED <<control, errors, ran>>
  BY <1>2 DEF control, errors, CtlInv, Control, ControlTypes, Placed, CleanedUp, Waits, Move,
     Onward, Section
<1> QED BY <1>1, <1>2 DEF Tasks, TaskDrives, TaskDies, TaskReports, RobotArrives, vars

-------------------------------------------------------------------------------
Running == {"body", "cleanup", "torn"}
TaskStates == {"none", "queued", "driving", "dying", "over"}

\* A completion is registered for the child that is awaited and for no other, and the
\* adapter knows of a child only until the handler forgets it.
Data ==
  /\ generated \subseteq Ids /\ rolling \subseteq Ids /\ stopped \subseteq Ids
  /\ answer \in [Ids -> {"none"} \cup Results]
  /\ task \in [Ids -> TaskStates]
  /\ cancels \in 0..MaxCancels
  /\ completions \subseteq IF phase = "await" THEN {Id} ELSE {}
  /\ phase = "await" => Id \in generated
  /\ synthetic \subseteq generated
  /\ stage = "over" => synthetic = {}

Inv == CtlInv /\ Data

\* While the handler runs it has a child's id.
LEMMA IdInIds ==
  ASSUME Control, stage \in Running
  PROVE  Id \in Ids
<1>1. step \in StepsOf[Section] /\ attempt \in Attempts(Section) /\ Section \in {"step", "cleanup"}
  BY DEF Control, Placed, Section, StepsOf, Running
<1>2. Id \in {Section} \X StepsOf[Section] \X Attempts(Section)
  BY <1>1 DEF Id
<1> QED BY <1>1, <1>2 DEF Ids

\* Whatever waits, rests or is idle belongs to a handler that runs.
LEMMA PhaseRuns ==
  ASSUME Control, phase # "gone", stage # "queued"
  PROVE  stage \in Running
BY DEF Control, ControlTypes, Placed, Running

\* After an attempt nothing is awaited.
LEMMA PhaseAfter ==
  /\ \A result : Control /\ result \in Results /\ ExecuteReturns(result) => phase' \in {"hold", "idle", "gone"}
  /\ \A result : Control /\ result \in Results /\ StepReturns(result) => phase' \in {"idle", "gone"}
  /\ Control /\ stage = "body" /\ EnterCleanup(FALSE, TRUE) => phase' \in {"idle", "gone"}
  /\ \A reason : CancelChild(reason) => phase' \in {"reap", "stop"}
<1>1. ASSUME NEW result \in Results, Control, StepReturns(result) PROVE phase' \in {"idle", "gone"}
  BY <1>1, StepReturnsControl
<1>2. ASSUME NEW result \in Results, Control, ExecuteReturns(result)
      PROVE  phase' \in {"hold", "idle", "gone"}
  BY <1>1, <1>2 DEF ExecuteReturns
<1>3. ASSUME Control, stage = "body", EnterCleanup(FALSE, TRUE) PROVE phase' \in {"idle", "gone"}
  BY <1>3, EnterCleanupControl
<1>4. ASSUME NEW reason, CancelChild(reason) PROVE phase' \in {"reap", "stop"}
  BY <1>4 DEF CancelChild
<1> QED BY <1>1, <1>2, <1>3, <1>4

\* A step that ends an attempt retires the child's id.
LEMMA RetireData ==
  ASSUME Inv, stage \in Running, Retire(Id), Id \in generated',
         generated' = generated \cup {Id}, answer' = answer, task' \in [Ids -> TaskStates],
         rolling' \subseteq Ids, stopped' \subseteq Ids, cancels' \in 0..MaxCancels,
         phase' # "await"
  PROVE  Data'
<1>1. Id \in Ids
  BY IdInIds DEF Inv, CtlInv
<1>2. completions' = {} /\ synthetic' \subseteq generated'
  BY DEF Inv, Data, Retire, Bridge
<1>3. stage' = "over" => synthetic' = {}
  BY DEF Inv, Data, Retire, Bridge, Forgets, Running
<1>4. generated' \subseteq Ids
  BY <1>1 DEF Inv, Data
<1>5. answer' \in [Ids -> {"none"} \cup Results]
  BY DEF Inv, Data
<1> QED BY <1>2, <1>3, <1>4, <1>5 DEF Data

\* A step with no child awaited before or after it.
LEMMA BridgeData ==
  ASSUME Inv, stage \in Running, phase # "await", phase' # "await",
         Bridge(completions, synthetic), UNCHANGED <<generated, answer, task>>,
         rolling' \subseteq Ids, stopped' \subseteq Ids, cancels' \in 0..MaxCancels
  PROVE  Data'
<1>1. completions' = {} /\ synthetic' \subseteq generated'
  BY DEF Inv, Data, Bridge
<1>2. stage' = "over" => synthetic' = {}
  BY DEF Inv, Data, Bridge, Forgets, Running
<1> QED BY <1>1, <1>2 DEF Inv, Data

\* A step that leaves the tables alone.
LEMMA QuietData ==
  ASSUME Inv, UNCHANGED <<step, attempt, generated, bridge>>,
         phase = "await" => Section' = Section,
         phase' = phase \/ (phase # "await" /\ phase' # "await"),
         stage' = "over" => stage = "over", task' \in [Ids -> TaskStates],
         rolling' \subseteq Ids, stopped' \subseteq Ids, cancels' \in 0..MaxCancels
  PROVE  Data'
BY DEF Inv, Data, bridge, Id

\* The handler goes on by itself.
LEMMA RunsData ==
  ASSUME Inv, Runs
  PROVE  Data'
<1> USE DEF Inv, CtlInv
<1>0. /\ task \in [Ids -> TaskStates] /\ rolling \subseteq Ids /\ stopped \subseteq Ids
      /\ cancels \in 0..MaxCancels /\ (phase = "await" => generated = generated \cup {Id})
  BY DEF Data
<1>1. CASE Begin
  <2>1. phase = "idle"
    BY <1>1 DEF Begin, Control, Placed
  <2> QED BY <1>0, <1>1, <2>1, QuietData DEF Begin, robot
<1>2. CASE AttemptRefused
  <2>1. phase' # "await"
    BY <1>2, PhaseAfter DEF AttemptRefused, Results
  <2> QED BY <1>0, <1>2, <2>1, BridgeData DEF AttemptRefused, Ready, robot, Running
<1>3. CASE ChildRefuses
  <2>1. phase' # "await"
    BY <1>3, PhaseAfter DEF ChildRefuses, Results
  <2> QED BY <1>0, <1>3, <2>1, RetireData DEF ChildRefuses, Ready, robot, Running
<1>4. CASE ChildStarts
  <2>1. /\ stage \in Running /\ phase = "idle" /\ phase' = "await"
        /\ generated' = generated \cup {Id} /\ completions' = completions \cup {Id}
        /\ synthetic' = synthetic \ {Id} /\ task' = [task EXCEPT ![Id] = "queued"]
        /\ UNCHANGED <<stage, step, attempt, answer, rolling, stopped, cancels>>
    BY <1>4 DEF ChildStarts, Ready, Running
  <2>2. Id \in Ids /\ Id' = Id
    BY <2>1, IdInIds DEF Id, Section
  <2>3. completions' \subseteq {Id'}
    BY <2>1, <2>2 DEF Data
  <2>4. task' \in [Ids -> TaskStates]
    BY <2>1 DEF Data, TaskStates
  <2> QED BY <2>1, <2>2, <2>3, <2>4 DEF Data, Running
<1>5. CASE ChildAnswers
  <2>1. phase = "await" /\ stage \in Running
    BY <1>5, PhaseRuns DEF ChildAnswers, Control, Placed
  <2>2. answer[Id] \in Results
    BY <1>5, <2>1 DEF ChildAnswers, Data
  <2>3. phase' # "await"
    BY <1>5, <2>2, PhaseAfter DEF ChildAnswers
  <2> QED BY <1>0, <1>5, <2>1, <2>3, RetireData DEF ChildAnswers, robot, Data
<1>6. CASE ChildTimesOut
  <2>1. phase = "await" /\ stage \in Running
    BY <1>6, PhaseRuns DEF ChildTimesOut, Control, Placed
  <2>2. phase' # "await"
    BY <1>6, PhaseAfter DEF ChildTimesOut, Results
  <2>3. task' \in [Ids -> TaskStates]
    BY <1>6 DEF ChildTimesOut, CancelChild, Data, TaskStates
  <2> QED BY <1>0, <1>6, <2>1, <2>2, <2>3, RetireData DEF ChildTimesOut, Data
<1>7. CASE Reaped
  BY <1>0, <1>7, QuietData DEF Reaped, Section, robot
<1>8. CASE StopSent
  <2>1. phase = "stop" /\ stage \in Running
    BY <1>8, PhaseRuns DEF StopSent, Control, Placed
  <2>2. why = "cancel" => stage = "body"
    BY DEF Waits
  <2>3. phase' # "await"
    BY <1>8, <2>2, PhaseAfter DEF StopSent, Results
  <2>4. rolling' \subseteq Ids /\ stopped' \subseteq Ids
    BY <1>8, <2>1, IdInIds DEF StopSent, Data
  <2> QED BY <1>0, <1>8, <2>1, <2>3, <2>4, BridgeData DEF StopSent
<1>9. CASE HoldEnds
  <2>1. phase = "hold" /\ stage \in Running /\ last \in Results
    BY <1>9, PhaseRuns DEF HoldEnds, Control, Placed, Waits
  <2>2. phase' # "await"
    BY <1>9, <2>1, PhaseAfter DEF HoldEnds
  <2> QED BY <1>0, <1>9, <2>1, <2>2, BridgeData DEF HoldEnds, robot
<1> QED BY <1>1, <1>2, <1>3, <1>4, <1>5, <1>6, <1>7, <1>8, <1>9 DEF Runs

\* The owner cancels.
LEMMA OwnerData ==
  ASSUME Inv, Owner
  PROVE  Data'
<1> USE DEF Inv, CtlInv
<1>0. /\ task \in [Ids -> TaskStates] /\ rolling \subseteq Ids /\ stopped \subseteq Ids
      /\ (phase = "await" => generated = generated \cup {Id})
  BY DEF Data
<1>1. ASSUME MayCancel PROVE cancels' \in 0..MaxCancels
  BY <1>1, SizeAssumption DEF MayCancel, Data
<1>2. CASE CancelQueued
  <2>1. phase = "idle" /\ phase' = "gone" /\ stage = "queued" /\ stage' = "dropped"
    BY <1>2 DEF CancelQueued, Control, Placed
  <2> QED BY <1>0, <1>1, <1>2, <2>1, QuietData DEF CancelQueued, Section, robot
<1>3. CASE CancelAwait
  <2>1. phase = "await" /\ stage = "body"
    BY <1>3 DEF CancelAwait
  <2>2. phase' # "await"
    BY <1>3, <2>1, PhaseAfter DEF CancelAwait
  <2>3. task' \in [Ids -> TaskStates]
    BY <1>3 DEF CancelAwait, CancelChild, Data, TaskStates
  <2> QED BY <1>0, <1>1, <1>3, <2>1, <2>2, <2>3, RetireData DEF CancelAwait, Data, Running
<1>4. CASE CancelHold
  <2>1. phase' # "await"
    BY <1>4, PhaseAfter DEF CancelHold
  <2> QED BY <1>0, <1>1, <1>4, <2>1, BridgeData DEF CancelHold, robot, Running
<1>5. CASE CancelSwallowed
  BY <1>0, <1>1, <1>5, QuietData DEF CancelSwallowed, control, robot, Section
<1>6. CASE CancelInStop
  <2>1. phase' # "await"
    BY <1>6, PhaseAfter DEF CancelInStop
  <2>2. rolling' \subseteq Ids
    BY <1>0, <1>6 DEF CancelInStop
  <2> QED BY <1>0, <1>1, <1>6, <2>1, <2>2, BridgeData DEF CancelInStop, Running
<1>7. CASE CancelInCleanup
  BY <1>0, <1>1, <1>7, QuietData DEF CancelInCleanup, robot, Section
<1> QED BY <1>2, <1>3, <1>4, <1>5, <1>6, <1>7 DEF Owner

\* The deadline passes, children work and report, the robot arrives.
LEMMA OthersData ==
  ASSUME Inv, Expire \/ (\E id \in Ids : Tasks(id) \/ RobotArrives(id)) \/ UNCHANGED vars
  PROVE  Data'
<1> USE DEF Inv
<1>0. /\ task \in [Ids -> TaskStates] /\ rolling \subseteq Ids /\ stopped \subseteq Ids
      /\ cancels \in 0..MaxCancels
  BY DEF Data
<1>1. CASE Expire
  BY <1>0, <1>1, QuietData DEF Expire, robot, Section
<1>2. CASE UNCHANGED vars
  BY <1>0, <1>2, QuietData DEF vars, control, robot, bridge, Section
<1>3. ASSUME NEW id \in Ids, TaskDrives(id) \/ TaskDies(id) \/ RobotArrives(id) PROVE Data'
  <2>1. task' \in [Ids -> TaskStates] /\ rolling' \subseteq Ids
    BY <1>0, <1>3 DEF TaskDrives, TaskDies, RobotArrives, TaskStates
  <2> QED BY <1>0, <1>3, <2>1, QuietData DEF TaskDrives, TaskDies, RobotArrives, control, Section
<1>4. ASSUME NEW id \in Ids, NEW status \in Results, TaskReports(id, status) PROVE Data'
  <2>1. /\ task' \in [Ids -> TaskStates] /\ Id' = Id
        /\ UNCHANGED <<control, generated, rolling, stopped, cancels>> /\ Report(id, status)
    BY <1>0, <1>4 DEF TaskReports, TaskStates, control, Id, Section
  <2>2. CASE id \notin completions
    BY <1>0, <2>1, <2>2, QuietData DEF Report, control, Section
  <2>3. CASE id \in completions
    <3>1. phase = "await" /\ id \in generated /\ stage # "over"
      BY <2>3 DEF Data, CtlInv, Control, Placed
    <3>2. answer' \in [Ids -> {"none"} \cup Results]
      BY <2>1, <2>3 DEF Report, Data
    <3> QED BY <2>1, <2>3, <3>1, <3>2 DEF Report, Data, control
  <2> QED BY <2>2, <2>3
<1> QED BY <1>1, <1>2, <1>3, <1>4 DEF Tasks, Results

-------------------------------------------------------------------------------
\* The child of some attempt at this step reported FINISHED.
Earned(section, n) == \E a \in Attempts(section) : answer[<<section, n, a>>] = "FINISHED"

\* What is behind the handler was earned, unless it knows of a failure.
Earnings ==
  /\ phase = "hold" /\ last = "FINISHED" => answer[Id] = "FINISHED"
  /\ stage = "body" => \A n \in 1..(step - 1) : Earned("step", n)
  /\ stage \in {"cleanup", "over"} /\ ~bodyFailed /\ ~cancelled => \A n \in 1..Steps : Earned("step", n)
  /\ stage = "cleanup" /\ ~cleanupFailed => \A n \in 1..(step - 1) : Earned("cleanup", n)
  /\ outcome = "FINISHED" => /\ stage = "over"
                             /\ \A n \in 1..Steps : Earned("step", n)
                             /\ \A n \in 1..Cleanups : Earned("cleanup", n)

\* The child that has just reported FINISHED earns the step that runs.
LEMMA StepEarned ==
  ASSUME Control, stage \in Running, answer[Id] = "FINISHED"
  PROVE  Earned(Section, step)
BY DEF Control, Placed, Section, Running, Id, Earned

\* The body is over: what is behind it was earned, or it failed or was cancelled.
LEMMA EnterCleanupEarns ==
  ASSUME Inv, Earnings, stage = "body", answer' = answer,
         NEW failed \in BOOLEAN, NEW cancel \in BOOLEAN, EnterCleanup(failed, cancel),
         ~failed /\ ~cancel => \A n \in 1..Steps : Earned("step", n)
  PROVE  Earnings'
<1>1. bodyFailed' = failed /\ cancelled' = cancel /\ cleanupFailed' = cleanupFailed
  BY DEF EnterCleanup
<1>2. outcome # "FINISHED"
  BY DEF Earnings
<1>3. \A section, n : Earned(section, n)' <=> Earned(section, n)
  BY DEF Earned
<1>4. CASE Cleanups = 0
  <2>1. /\ stage' = "over" /\ phase' = "gone"
        /\ outcome' = "FINISHED" => ~cancel /\ ~failed
    BY <1>1, <1>4 DEF EnterCleanup, HandlerEnds
  <2>2. 1..Cleanups = {}
    BY <1>4
  <2> QED BY <1>1, <1>3, <2>1, <2>2 DEF Earnings
<1>5. CASE Cleanups # 0
  <2>1. stage' = "cleanup" /\ step' = 1 /\ phase' = "idle" /\ outcome' = outcome
    BY <1>5 DEF EnterCleanup
  <2>2. 1..(step' - 1) = {}
    BY <2>1
  <2> QED BY <1>1, <1>2, <1>3, <2>1, <2>2 DEF Earnings
<1> QED BY <1>4, <1>5

\* A step returns FINISHED only when its child reported that.
LEMMA StepReturnsEarns ==
  ASSUME Inv, Earnings, stage \in Running, answer' = answer, NEW result \in Results,
         StepReturns(result), result = "FINISHED" => answer[Id] = "FINISHED"
  PROVE  Earnings'
<1>0. result = "FINISHED" => Earned(Section, step)
  BY StepEarned DEF Inv, CtlInv
<1>1. \A section, n : Earned(section, n)' <=> Earned(section, n)
  BY DEF Earned
<1>2. Steps \in Nat /\ Cleanups \in Nat /\ outcome # "FINISHED"
  BY FirstAttempt DEF Earnings, Running
<1>3. CASE BodyReturns(result)
  <2>1. stage = "body" /\ Section = "step" /\ step \in 1..Steps
    BY <1>3 DEF BodyReturns, Section, Inv, CtlInv, Control, Placed
  <2>2. result = "FINISHED" => \A n \in 1..step : Earned("step", n)
    <3> SUFFICES ASSUME result = "FINISHED", NEW n \in 1..step PROVE Earned("step", n)
      OBVIOUS
    <3>1. n = step \/ n \in 1..(step - 1)
      BY <2>1
    <3> QED BY <1>0, <2>1, <3>1 DEF Earnings
  <2>3. CASE result = "FINISHED" /\ step < Steps
    <3>1. /\ stage' = stage /\ step' = step + 1 /\ phase' = "idle" /\ outcome' = outcome
      BY <1>3, <2>3 DEF BodyReturns, NextStep
    <3>2. step' - 1 = step
      BY <2>1, <3>1
    <3> QED BY <1>1, <1>2, <2>1, <2>2, <2>3, <3>1, <3>2 DEF Earnings
  <2>4. CASE ~(result = "FINISHED" /\ step < Steps)
    <3>1. EnterCleanup(result # "FINISHED", FALSE)
      BY <1>3, <2>4 DEF BodyReturns
    <3>2. result = "FINISHED" => \A n \in 1..Steps : Earned("step", n)
      <4>1. result = "FINISHED" => step = Steps
        BY <1>2, <2>1, <2>4
      <4> QED BY <2>2, <4>1
    <3> QED BY <2>1, <3>1, <3>2, EnterCleanupEarns
  <2> QED BY <2>3, <2>4
<1>4. CASE CleanupReturns(result)
  <2>1. /\ stage = "cleanup" /\ Section = "cleanup" /\ step \in 1..Cleanups
        /\ bodyFailed' = bodyFailed /\ cancelled' = cancelled
        /\ ~cleanupFailed' => ~cleanupFailed /\ result = "FINISHED"
    BY <1>4 DEF CleanupReturns, CleanupStepEnds, Section, Inv, CtlInv, Control, Placed, Results
  <2>2. ~cleanupFailed' => \A n \in 1..step : Earned("cleanup", n)
    <3> SUFFICES ASSUME ~cleanupFailed', NEW n \in 1..step PROVE Earned("cleanup", n)
      OBVIOUS
    <3>1. n = step \/ n \in 1..(step - 1)
      BY <2>1
    <3> QED BY <1>0, <2>1, <3>1 DEF Earnings
  <2>3. CASE step < Cleanups
    <3>1. stage' = stage /\ step' = step + 1 /\ phase' = "idle" /\ outcome' = outcome
      BY <1>4, <2>3 DEF CleanupReturns, NextStep
    <3>2. step' - 1 = step
      BY <2>1, <3>1
    <3> QED BY <1>1, <1>2, <2>1, <2>2, <3>1, <3>2 DEF Earnings
  <2>4. CASE ~(step < Cleanups)
    <3>1. step = Cleanups
      BY <1>2, <2>1, <2>4
    <3>2. /\ stage' = "over" /\ phase' = "gone"
          /\ outcome' = "FINISHED" => ~cancelled' /\ ~bodyFailed /\ ~cleanupFailed'
      BY <1>4, <2>4 DEF CleanupReturns, HandlerEnds
    <3>3. ~cleanupFailed' => \A n \in 1..Cleanups : Earned("cleanup", n)
      BY <2>2, <3>1
    <3>4. ~bodyFailed /\ ~cancelled => \A n \in 1..Steps : Earned("step", n)
      BY <2>1 DEF Earnings
    <3> QED BY <1>1, <2>1, <3>2, <3>3, <3>4 DEF Earnings
  <2> QED BY <2>3, <2>4
<1>5. CASE ShieldedReturns
  BY <1>1, <1>2, <1>5 DEF ShieldedReturns, Earnings
<1> QED BY <1>3, <1>4, <1>5 DEF StepReturns

\* execute returns FINISHED only when the child reported that.
LEMMA ExecuteReturnsEarns ==
  ASSUME Inv, Earnings, stage \in Running, answer' = answer, NEW result \in Results,
         ExecuteReturns(result), result = "FINISHED" => answer[Id] = "FINISHED"
  PROVE  Earnings'
<1>1. CASE result = "FINISHED" \/ attempt <= Retries[Section]
  <2>1. /\ phase' = "hold" /\ last' = result /\ Id' = Id
        /\ UNCHANGED <<stage, outcome, step, attempt, errors>>
    BY <1>1 DEF ExecuteReturns, Id, Section
  <2> QED BY <2>1 DEF Earnings, Earned, errors
<1>2. CASE ~(result = "FINISHED" \/ attempt <= Retries[Section])
  BY <1>2, StepReturnsEarns DEF ExecuteReturns
<1> QED BY <1>1, <1>2

\* A step that neither rests nor reports and leaves the handler in its place.
LEMMA QuietEarns ==
  ASSUME Earnings, UNCHANGED <<step, errors, answer>>, phase' # "hold",
         \/ UNCHANGED <<stage, outcome>>
         \/ stage' \in {"torn", "dropped"} /\ outcome' = "cancelled"
  PROVE  Earnings'
BY DEF Earnings, Earned, errors

\* A step that leaves the handler alone.
LEMMA RestEarns ==
  ASSUME Earnings, UNCHANGED <<stage, outcome, step, attempt, phase, last, errors, answer>>
  PROVE  Earnings'
BY DEF Earnings, Earned, errors, Id, Section

\* Every step keeps what was earned.
LEMMA EarningsKept ==
  ASSUME Inv, Earnings, [Next]_vars
  PROVE  Earnings'
<1> USE DEF Inv, CtlInv
<1>1. CASE Begin
  <2>1. /\ stage = "queued" /\ stage' = "body" /\ step' = 1 /\ phase' = "idle"
        /\ UNCHANGED <<outcome, errors, answer>>
    BY <1>1 DEF Begin, Control, Placed, bridge
  <2>2. 1..(step' - 1) = {}
    BY <2>1
  <2> QED BY <2>1, <2>2 DEF Earnings, Earned, errors
<1>2. CASE AttemptRefused
  BY <1>2, StepReturnsEarns DEF AttemptRefused, Ready, Results, Running
<1>3. CASE ChildRefuses
  BY <1>3, ExecuteReturnsEarns DEF ChildRefuses, Ready, Results, Running
<1>4. CASE ChildStarts
  BY <1>4, QuietEarns DEF ChildStarts
<1>5. CASE ChildAnswers
  <2>1. phase = "await" /\ stage \in Running
    BY <1>5, PhaseRuns DEF ChildAnswers, Control, Placed
  <2>2. answer[Id] \in Results
    BY <1>5, <2>1 DEF ChildAnswers, Data
  <2> QED BY <1>5, <2>1, <2>2, ExecuteReturnsEarns DEF ChildAnswers
<1>6. CASE ChildTimesOut
  <2>1. stage \in Running
    BY <1>6, PhaseRuns DEF ChildTimesOut, Control, Placed
  <2>2. CASE CancelChild("timeout")
    BY <1>6, <2>2, QuietEarns DEF ChildTimesOut, CancelChild
  <2>3. CASE ExecuteReturns("FAILED")
    BY <1>6, <2>1, <2>3, ExecuteReturnsEarns DEF ChildTimesOut, Results
  <2> QED BY <1>6, <2>2, <2>3 DEF ChildTimesOut
<1>7. CASE Reaped
  BY <1>7, QuietEarns DEF Reaped, bridge
<1>8. CASE StopSent
  <2>1. stage \in Running /\ (why = "cancel" => stage = "body")
    BY <1>8, PhaseRuns DEF StopSent, Control, Placed, Waits
  <2>2. CASE ExecuteReturns("FAILED")
    BY <1>8, <2>1, <2>2, ExecuteReturnsEarns DEF StopSent, Results
  <2>3. CASE why = "cancel" /\ EnterCleanup(FALSE, TRUE)
    BY <1>8, <2>1, <2>3, EnterCleanupEarns DEF StopSent
  <2> QED BY <1>8, <2>2, <2>3 DEF StopSent
<1>9. CASE HoldEnds
  <2>1. phase = "hold" /\ stage \in Running /\ last \in Results
    BY <1>9, PhaseRuns DEF HoldEnds, Control, Placed, Waits
  <2>2. CASE last = "FINISHED" /\ StepReturns(last)
    BY <1>9, <2>1, <2>2, StepReturnsEarns DEF HoldEnds, Earnings
  <2>3. CASE phase' = "idle" /\ UNCHANGED <<stage, outcome, step, errors>>
    BY <1>9, <2>3, QuietEarns DEF HoldEnds
  <2> QED BY <1>9, <2>2, <2>3 DEF HoldEnds
<1>10. CASE CancelQueued
  BY <1>10, QuietEarns DEF CancelQueued, bridge
<1>11. CASE CancelAwait
  <2>1. CASE CancelChild("cancel")
    BY <1>11, <2>1, QuietEarns DEF CancelAwait, CancelChild
  <2>2. CASE EnterCleanup(FALSE, TRUE)
    BY <1>11, <2>2, EnterCleanupEarns DEF CancelAwait
  <2> QED BY <1>11, <2>1, <2>2 DEF CancelAwait
<1>12. CASE CancelHold \/ CancelInStop
  BY <1>12, EnterCleanupEarns DEF CancelHold, CancelInStop
<1>13. CASE CancelSwallowed
  BY <1>13, RestEarns DEF CancelSwallowed, control, bridge
<1>14. CASE CancelInCleanup
  <2>1. /\ stage = "cleanup" /\ stage' = "torn" /\ outcome' = "cancelled"
        /\ UNCHANGED <<step, attempt, phase, last, errors, answer>>
    BY <1>14 DEF CancelInCleanup, bridge
  <2> QED BY <2>1 DEF Earnings, Id, Section
<1>15. CASE Expire \/ UNCHANGED vars
  BY <1>15, RestEarns DEF Expire, vars, control, bridge
<1>16. ASSUME NEW id \in Ids, TaskDrives(id) \/ TaskDies(id) \/ RobotArrives(id) PROVE Earnings'
  BY <1>16, RestEarns DEF TaskDrives, TaskDies, RobotArrives, control, bridge
<1>17. ASSUME NEW id \in Ids, NEW status \in Results, TaskReports(id, status) PROVE Earnings'
  <2>1. UNCHANGED <<control, errors>> /\ Report(id, status)
    BY <1>17 DEF TaskReports
  <2>2. CASE id \notin completions
    BY <2>1, <2>2, RestEarns DEF Report, control, bridge
  <2>3. CASE id \in completions
    <3>1. phase = "await" /\ id = Id /\ stage \in Running
      BY <2>3, PhaseRuns DEF Data, Control, Placed
    <3>2. answer' = [answer EXCEPT ![id] = status]
      BY <2>1, <2>3 DEF Report
    <3>3. \A section, n : Earned(section, n) /\ <<section, n>> # <<Section, step>> => Earned(section, n)'
      <4> SUFFICES ASSUME NEW section, NEW n, Earned(section, n), <<section, n>> # <<Section, step>>
                   PROVE  Earned(section, n)'
        OBVIOUS
      <4>1. PICK a \in Attempts(section) : answer[<<section, n, a>>] = "FINISHED"
        BY DEF Earned
      <4>2. <<section, n, a>> # id
        BY <3>1 DEF Id
      <4>3. answer'[<<section, n, a>>] = answer[<<section, n, a>>]
        BY <3>2, <4>2 DEF Data
      <4> QED BY <4>1, <4>3 DEF Earned
    <3>4. stage = "body" => Section = "step"
      BY DEF Section
    <3>5. stage # "body" => Section = "cleanup"
      BY DEF Section
    <3>6. stage # "over" /\ outcome # "FINISHED"
      BY <3>1 DEF Earnings, Running
    <3> QED BY <2>1, <3>1, <3>3, <3>4, <3>5, <3>6 DEF Earnings, control, errors
  <2> QED BY <2>2, <2>3
<1> QED BY <1>1, <1>2, <1>3, <1>4, <1>5, <1>6, <1>7, <1>8, <1>9, <1>10, <1>11, <1>12, <1>13,
       <1>14, <1>15, <1>16, <1>17 DEF Next, Runs, Owner, Tasks, Results

-------------------------------------------------------------------------------
\* The attempt with this id is over for the handler.
Earlier(id) ==
  \/ id[2] < step
  \/ id[2] = step /\ id[3] < attempt
  \/ id[2] = step /\ id[3] = attempt /\ phase \in {"hold", "gone"}

Behind(id) ==
  \/ id[1] = "step" /\ stage \in {"cleanup", "torn", "over"}
  \/ id[1] = "step" /\ stage = "body" /\ Earlier(id)
  \/ id[1] = "cleanup" /\ stage = "over"
  \/ id[1] = "cleanup" /\ stage \in {"cleanup", "torn"} /\ Earlier(id)

\* A child that can be cancelled is under way only while it is awaited or reaped, and
\* a child that was stopped is behind the handler for good.
Children ==
  /\ \A id \in Ids : Cancellable(id) /\ task[id] \in {"queued", "driving", "dying"} =>
       id = Id /\ phase \in {"await", "reap"}
  /\ phase = "await" => task[Id] \in {"queued", "driving", "over"}
  /\ phase = "reap" => task[Id] \in {"dying", "over"}
  /\ \A id \in Ids : answer[id] # "none" =>
       Behind(id) \/ (id = Id /\ phase \in {"await", "stop"} /\ task[id] = "over")
  /\ \A id \in stopped : Behind(id) /\ id \notin rolling

\* The handler goes past the attempt it is at.
Passes ==
  \/ UNCHANGED <<stage, step, attempt>> /\ phase' \in {"hold", "gone"}
  \/ stage' = stage /\ step' = step + 1
  \/ UNCHANGED <<stage, step>> /\ attempt' = attempt + 1
  \/ stage = "body" /\ stage' \in {"cleanup", "over"}
  \/ stage = "cleanup" /\ stage' = "over"

\* Ids are triples of a section, a step and an attempt.
LEMMA IdParts ==
  ASSUME NEW id \in Ids
  PROVE  id[1] \in {"step", "cleanup"} /\ id[2] \in Nat /\ id[3] \in Nat
<1>1. PICK section \in {"step", "cleanup"} : id \in {section} \X StepsOf[section] \X Attempts(section)
  BY DEF Ids
<1>2. StepsOf[section] \subseteq Nat /\ Attempts(section) \subseteq Nat
  BY FirstAttempt DEF StepsOf, Attempts
<1> QED BY <1>1, <1>2

\* A handler that goes past an attempt leaves it, and what was behind it, behind.
LEMMA PassesBehind ==
  ASSUME Control, stage \in Running, Passes
  PROVE  \A id \in Ids : Behind(id) \/ id = Id => Behind(id)'
<1> SUFFICES ASSUME NEW id \in Ids, Behind(id) \/ id = Id PROVE Behind(id)'
  OBVIOUS
<1>1. id[1] \in {"step", "cleanup"} /\ id[2] \in Nat /\ id[3] \in Nat
  BY IdParts
<1>2. step \in Nat /\ attempt \in Nat
  BY FirstAttempt DEF Control, ControlTypes, Attempts
<1>3. id = Id => id[1] = Section /\ id[2] = step /\ id[3] = attempt
  BY DEF Id
<1>4. id[1] = "step" /\ stage # "body" => Behind(id)'
  BY DEF Passes, Behind, Running
<1>5. id[1] = "cleanup" => stage # "body"
  BY <1>3 DEF Behind, Section
<1>6. stage' = stage => (Earlier(id)' \/ Behind(id)')
  <2>1. CASE Earlier(id) \/ id = Id
    BY <1>1, <1>2, <1>3, <2>1 DEF Passes, Earlier, Running
  <2>2. CASE Behind(id) /\ ~Earlier(id)
    BY <2>2 DEF Behind, Running
  <2> QED BY <2>1, <2>2
<1>7. CASE stage' = stage
  BY <1>1, <1>5, <1>6, <1>7 DEF Behind, Running
<1>8. CASE stage' # stage
  BY <1>1, <1>5, <1>8 DEF Passes, Behind
<1> QED BY <1>7, <1>8

\* A step that does not leave the attempt keeps what is behind the handler.
LEMMA RestBehind ==
  ASSUME Control, UNCHANGED <<step, attempt>>,
         stage' = stage \/ stage = "queued" \/ (stage = "cleanup" /\ stage' = "torn"),
         phase' = phase \/ phase \notin {"hold", "gone"}
  PROVE  \A id \in Ids : Behind(id) => Behind(id)'
BY DEF Behind, Earlier

\* A result goes past the attempt.
LEMMA ResultPasses ==
  ASSUME Control, stage \in Running
  PROVE  /\ \A result \in Results : StepReturns(result) => Passes
         /\ \A result \in Results : ExecuteReturns(result) => Passes
         /\ stage = "body" /\ EnterCleanup(FALSE, TRUE) => Passes
<1>1. ASSUME stage = "body", NEW failed \in BOOLEAN, NEW cancel \in BOOLEAN, EnterCleanup(failed, cancel)
      PROVE  Passes
  BY <1>1, EnterCleanupControl DEF Passes
<1>2. ASSUME NEW result \in Results, StepReturns(result) PROVE Passes
  <2>1. CASE BodyReturns(result)
    <3>1. CASE result = "FINISHED" /\ step < Steps
      BY <2>1, <3>1 DEF BodyReturns, NextStep, Passes
    <3>2. CASE ~(result = "FINISHED" /\ step < Steps)
      BY <1>1, <2>1, <3>2 DEF BodyReturns
    <3> QED BY <3>1, <3>2
  <2>2. CASE CleanupReturns(result)
    BY <2>2 DEF CleanupReturns, NextStep, HandlerEnds, Passes
  <2>3. CASE ShieldedReturns
    BY <2>3 DEF ShieldedReturns, Passes
  <2> QED BY <1>2, <2>1, <2>2, <2>3 DEF StepReturns
<1>3. ASSUME NEW result \in Results, ExecuteReturns(result) PROVE Passes
  BY <1>2, <1>3 DEF ExecuteReturns, Passes
<1> QED BY <1>1, <1>2, <1>3

\* A step that goes past an attempt whose child is no longer under way.
LEMMA PassesChildren ==
  ASSUME Inv, Children, stage \in Running, Passes, phase' \notin {"await", "reap"},
         UNCHANGED <<answer, task>>,
         Cancellable(Id) => task[Id] \in {"none", "over"},
         \/ rolling' = rolling /\ stopped' = stopped
         \/ rolling' = {} /\ stopped' \in {stopped, stopped \cup {Id}}
  PROVE  Children'
<1>1. \A id \in Ids : Behind(id) \/ id = Id => Behind(id)'
  BY PassesBehind DEF Inv, CtlInv
<1>2. \A id \in Ids : Cancellable(id)' <=> Cancellable(id)
  BY DEF Cancellable
<1>3. \A id \in Ids : Cancellable(id) => task[id] \in {"none", "over"}
  BY DEF Children, Inv, Data, TaskStates
<1>4. Id \in Ids
  BY IdInIds DEF Inv, CtlInv
<1>5. \A id \in stopped' : Behind(id)' /\ id \notin rolling'
  BY <1>1, <1>4 DEF Children, Inv, Data
<1>6. \A id \in Ids : answer'[id] # "none" => Behind(id)'
  BY <1>1 DEF Children
<1> QED BY <1>2, <1>3, <1>5, <1>6 DEF Children

\* A child that can be cancelled begins to be stopped.
LEMMA CancelChildChildren ==
  ASSUME Inv, Children, phase = "await", NEW reason, CancelChild(reason),
         UNCHANGED <<answer, rolling, stopped>>
  PROVE  Children'
<1>0. stage \in Running /\ Id \in Ids
  BY PhaseRuns, IdInIds DEF Inv, CtlInv, Control, Placed
<1>1. UNCHANGED <<stage, step, attempt>> /\ Id' = Id
  BY DEF CancelChild, Id, Section
<1>2. \A id \in Ids : Behind(id) => Behind(id)'
  BY <1>1, RestBehind DEF Inv, CtlInv
<1>3. \A id \in Ids : Cancellable(id)' <=> Cancellable(id)
  BY DEF Cancellable
<1>4. task[Id] \in {"queued", "driving", "over"}
  BY DEF Children
<1>5. \A id \in stopped' : Behind(id)' /\ id \notin rolling'
  BY <1>2 DEF Children, Inv, Data
<1>6. CASE task[Id] = "over"
  <2>1. task' = task /\ phase' = "stop"
    BY <1>6 DEF CancelChild
  <2> QED BY <1>0, <1>1, <1>2, <1>3, <1>5, <1>6, <2>1 DEF Children
<1>7. CASE task[Id] \in {"queued", "driving"}
  <2>1. task' = [task EXCEPT ![Id] = "dying"] /\ phase' = "reap"
    BY <1>7 DEF CancelChild
  <2>2. task'[Id] = "dying" /\ \A id \in Ids : id # Id => task'[id] = task[id]
    BY <1>0, <2>1 DEF Inv, Data
  <2>3. \A id \in Ids : answer[id] # "none" => Behind(id)
    BY <1>7 DEF Children
  <2> QED BY <1>0, <1>1, <1>2, <1>3, <1>5, <2>1, <2>2, <2>3 DEF Children
<1> QED BY <1>4, <1>6, <1>7

\* A step that leaves handler and children alone, but for the robot that stands.
LEMMA RestChildren ==
  ASSUME Inv, Children, UNCHANGED <<step, attempt, phase, answer, task, stopped>>,
         stage' = stage \/ (stage = "queued" /\ phase = "idle") \/ (stage = "cleanup" /\ stage' = "torn"),
         rolling' \subseteq rolling
  PROVE  Children'
<1>1. \A id \in Ids : Behind(id) => Behind(id)'
  BY RestBehind DEF Inv, CtlInv
<1>2. \A id \in Ids : Cancellable(id)' <=> Cancellable(id)
  BY DEF Cancellable
<1>3. phase = "idle" \/ Id' = Id
  BY DEF Id, Section
<1>4. \A id \in stopped' : Behind(id)' /\ id \notin rolling'
  BY <1>1 DEF Children, Inv, Data
<1> QED BY <1>1, <1>2, <1>3, <1>4 DEF Children

\* An attempt that waits or stops is not behind the handler.
LEMMA NotBehind ==
  ASSUME Control, stage \in Running, phase \notin {"hold", "gone"}
  PROVE  ~Behind(Id)
<1>1. step \in Nat /\ attempt \in Nat
  BY FirstAttempt DEF Control, ControlTypes, Attempts
<1>2. Id[1] = Section /\ Id[2] = step /\ Id[3] = attempt
  BY DEF Id
<1> QED BY <1>1, <1>2 DEF Behind, Earlier, Section, Running

\* The handler goes on by itself.
LEMMA RunsChildren ==
  ASSUME Inv, Children, Runs
  PROVE  Children'
<1> USE DEF Inv, CtlInv
<1>0. phase \notin {"await", "reap"} =>
        \A id \in Ids : Cancellable(id) => task[id] \in {"none", "over"}
  BY DEF Children, Data, TaskStates
<1>1. CASE Begin
  BY <1>1, RestChildren DEF Begin, Control, Placed, bridge, robot
<1>2. CASE AttemptRefused
  <2>1. stage \in Running /\ phase = "idle" /\ Passes /\ phase' # "await" /\ phase' # "reap"
    BY <1>2, ResultPasses, PhaseAfter DEF AttemptRefused, Ready, Results, Running
  <2> QED BY <1>0, <1>2, <2>1, IdInIds, PassesChildren DEF AttemptRefused, robot
<1>3. CASE ChildRefuses
  <2>1. stage \in Running /\ phase = "idle" /\ Passes /\ phase' # "await" /\ phase' # "reap"
    BY <1>3, ResultPasses, PhaseAfter DEF ChildRefuses, Ready, Results, Running
  <2> QED BY <1>0, <1>3, <2>1, IdInIds, PassesChildren DEF ChildRefuses, robot
<1>4. CASE ChildStarts
  <2>1. /\ stage \in Running /\ phase = "idle" /\ phase' = "await"
        /\ task' = [task EXCEPT ![Id] = "queued"]
        /\ UNCHANGED <<stage, step, attempt, answer, rolling, stopped>>
    BY <1>4 DEF ChildStarts, Ready, Running
  <2>2. Id \in Ids /\ Id' = Id
    BY <2>1, IdInIds DEF Id, Section
  <2>3. \A id \in Ids : Behind(id) => Behind(id)'
    BY <2>1, RestBehind
  <2>4. task'[Id] = "queued" /\ \A id \in Ids : id # Id => task'[id] = task[id]
    BY <2>1, <2>2 DEF Data
  <2>5. \A id \in Ids : Cancellable(id)' <=> Cancellable(id)
    BY DEF Cancellable
  <2>6. \A id \in stopped' : Behind(id)' /\ id \notin rolling'
    BY <2>1, <2>3 DEF Children, Data
  <2>7. \A id \in Ids : answer'[id] # "none" => Behind(id)'
    BY <2>1, <2>3 DEF Children
  <2> QED BY <1>0, <2>1, <2>2, <2>4, <2>5, <2>6, <2>7 DEF Children
<1>5. CASE ChildAnswers
  <2>1. phase = "await" /\ stage \in Running /\ answer[Id] # "none"
    BY <1>5, PhaseRuns DEF ChildAnswers, Control, Placed
  <2>2. answer[Id] \in Results /\ Id \in Ids
    BY <1>5, <2>1, IdInIds DEF Data
  <2>3. task[Id] = "over"
    BY <2>1, <2>2, NotBehind DEF Children
  <2>4. Passes /\ phase' # "await" /\ phase' # "reap"
    BY <1>5, <2>1, <2>2, ResultPasses, PhaseAfter DEF ChildAnswers
  <2> QED BY <1>5, <2>1, <2>3, <2>4, PassesChildren DEF ChildAnswers, robot
<1>6. CASE ChildTimesOut
  <2>1. phase = "await" /\ stage \in Running
    BY <1>6, PhaseRuns DEF ChildTimesOut, Control, Placed
  <2>2. CASE CancelChild("timeout")
    BY <1>6, <2>1, <2>2, CancelChildChildren DEF ChildTimesOut
  <2>3. CASE ~Cancellable(Id) /\ ExecuteReturns("FAILED") /\ UNCHANGED task
    <3>1. Passes /\ phase' # "await" /\ phase' # "reap"
      BY <2>1, <2>3, ResultPasses, PhaseAfter DEF Results
    <3> QED BY <1>6, <2>1, <2>3, <3>1, PassesChildren DEF ChildTimesOut
  <2> QED BY <1>6, <2>2, <2>3 DEF ChildTimesOut
<1>7. CASE Reaped
  <2>1. /\ phase = "reap" /\ task[Id] = "over" /\ phase' = "stop" /\ Id' = Id
        /\ UNCHANGED <<stage, step, attempt, answer, task, rolling, stopped>>
    BY <1>7 DEF Reaped, bridge, robot, Id, Section
  <2>2. \A id \in Ids : Behind(id) => Behind(id)'
    BY <2>1, RestBehind
  <2>3. \A id \in Ids : Cancellable(id)' <=> Cancellable(id)
    BY DEF Cancellable
  <2>4. \A id \in stopped' : Behind(id)' /\ id \notin rolling'
    BY <2>1, <2>2 DEF Children, Data
  <2> QED BY <2>1, <2>2, <2>3, <2>4 DEF Children
<1>8. CASE StopSent
  <2>1. phase = "stop" /\ stage \in Running /\ (why = "cancel" => stage = "body")
    BY <1>8, PhaseRuns DEF StopSent, Control, Placed, Waits
  <2>2. Passes /\ phase' # "await" /\ phase' # "reap"
    BY <1>8, <2>1, ResultPasses, PhaseAfter DEF StopSent, Results
  <2> QED BY <1>0, <1>8, <2>1, <2>2, IdInIds, PassesChildren DEF StopSent
<1>9. CASE HoldEnds
  <2>1. phase = "hold" /\ stage \in Running /\ last \in Results
    BY <1>9, PhaseRuns DEF HoldEnds, Control, Placed, Waits
  <2>2. Passes /\ phase' # "await" /\ phase' # "reap"
    <3>1. CASE StepReturns(last)
      BY <2>1, <3>1, ResultPasses, PhaseAfter
    <3>2. CASE attempt' = attempt + 1 /\ phase' = "idle" /\ UNCHANGED <<stage, step>>
      BY <3>2 DEF Passes
    <3> QED BY <1>9, <3>1, <3>2 DEF HoldEnds
  <2> QED BY <1>0, <1>9, <2>1, <2>2, IdInIds, PassesChildren DEF HoldEnds, robot
<1> QED BY <1>1, <1>2, <1>3, <1>4, <1>5, <1>6, <1>7, <1>8, <1>9 DEF Runs

\* The owner cancels.
LEMMA OwnerChildren ==
  ASSUME Inv, Children, Owner
  PROVE  Children'
<1> USE DEF Inv, CtlInv
<1>0. phase \notin {"await", "reap"} =>
        \A id \in Ids : Cancellable(id) => task[id] \in {"none", "over"}
  BY DEF Children, Data, TaskStates
<1>1. CASE CancelQueued
  <2>1. /\ phase = "idle" /\ phase' = "gone" /\ stage = "queued" /\ stage' = "dropped"
        /\ UNCHANGED <<step, attempt, answer, task, rolling, stopped>>
    BY <1>1 DEF CancelQueued, Control, Placed, bridge, robot
  <2>2. \A id \in Ids : ~Behind(id)
    BY <2>1 DEF Behind
  <2>3. \A id \in Ids : Cancellable(id)' <=> Cancellable(id)
    BY DEF Cancellable
  <2>4. stopped' = {}
    BY <2>1, <2>2 DEF Children, Data
  <2> QED BY <1>0, <2>1, <2>2, <2>3, <2>4 DEF Children
<1>2. CASE CancelAwait
  <2>1. phase = "await" /\ stage = "body"
    BY <1>2 DEF CancelAwait
  <2>2. CASE CancelChild("cancel")
    BY <1>2, <2>1, <2>2, CancelChildChildren DEF CancelAwait
  <2>3. CASE ~Cancellable(Id) /\ EnterCleanup(FALSE, TRUE) /\ UNCHANGED task
    <3>1. Passes /\ phase' # "await" /\ phase' # "reap"
      BY <2>1, <2>3, ResultPasses, PhaseAfter DEF Running
    <3> QED BY <1>2, <2>1, <2>3, <3>1, PassesChildren DEF CancelAwait, Running
  <2> QED BY <1>2, <2>2, <2>3 DEF CancelAwait
<1>3. CASE CancelHold \/ CancelInStop
  <2>1. /\ stage = "body" /\ phase \in {"hold", "stop"} /\ EnterCleanup(FALSE, TRUE)
        /\ UNCHANGED <<answer, task, stopped>> /\ rolling' \in {{}, rolling}
    BY <1>3 DEF CancelHold, CancelInStop, robot
  <2>2. Passes /\ phase' # "await" /\ phase' # "reap"
    BY <2>1, ResultPasses, PhaseAfter DEF Running
  <2> QED BY <1>0, <2>1, <2>2, IdInIds, PassesChildren DEF Running
<1>4. CASE CancelSwallowed
  BY <1>4, RestChildren DEF CancelSwallowed, control, bridge, robot
<1>5. CASE CancelInCleanup
  BY <1>5, RestChildren DEF CancelInCleanup, bridge, robot
<1> QED BY <1>1, <1>2, <1>3, <1>4, <1>5 DEF Owner

\* Only a child that is awaited can still set the robot in motion.
LEMMA DrivesChildren ==
  ASSUME Inv, Children, NEW id \in Ids, TaskDrives(id)
  PROVE  Children'
<1> USE DEF Inv, CtlInv
<1>1. /\ task[id] = "queued" /\ task' = [task EXCEPT ![id] = "driving"]
      /\ rolling' = IF Cancellable(id) THEN rolling \cup {id} ELSE rolling
      /\ UNCHANGED <<stage, step, attempt, phase, answer, stopped>> /\ Id' = Id
  BY DEF TaskDrives, control, bridge, Id, Section
<1>2. \A i \in Ids : Behind(i) => Behind(i)'
  BY <1>1, RestBehind
<1>3. \A i \in Ids : Cancellable(i)' <=> Cancellable(i)
  BY DEF Cancellable
<1>4. task'[id] = "driving" /\ \A i \in Ids : i # id => task'[i] = task[i]
  BY <1>1 DEF Data
<1>5. Cancellable(id) => id = Id /\ phase = "await"
  BY <1>1 DEF Children
<1>6. phase = "await" => Id \notin stopped
  <2> SUFFICES ASSUME phase = "await" PROVE Id \notin stopped
    OBVIOUS
  <2>1. stage \in Running
    BY PhaseRuns DEF Control, Placed
  <2> QED BY <2>1, NotBehind DEF Children
<1>7. \A i \in stopped' : Behind(i)' /\ i \notin rolling'
  BY <1>1, <1>2, <1>5, <1>6 DEF Children, Data
<1>8. phase = "await" => Id \in Ids
  BY DEF Data
<1>9. phase = "reap" => task'[Id] \in {"dying", "over"}
  BY <1>1 DEF Children, Data
<1>10. phase = "await" => task'[Id] \in {"queued", "driving", "over"}
  BY <1>4, <1>8 DEF Children
<1> QED BY <1>1, <1>2, <1>3, <1>4, <1>5, <1>7, <1>9, <1>10 DEF Children

\* A child's task ends.
LEMMA EndsChildren ==
  ASSUME Inv, Children, NEW id \in Ids,
         TaskDies(id) \/ \E status \in Results : TaskReports(id, status)
  PROVE  Children'
<1> USE DEF Inv, CtlInv
<1>1. /\ task[id] \in {"dying", "driving"} /\ task' = [task EXCEPT ![id] = "over"]
      /\ UNCHANGED <<stage, step, attempt, phase, rolling, stopped>> /\ Id' = Id
  BY DEF TaskDies, TaskReports, control, Id, Section
<1>2. \A i \in Ids : Behind(i) => Behind(i)'
  BY <1>1, RestBehind
<1>3. \A i \in Ids : Cancellable(i)' <=> Cancellable(i)
  BY DEF Cancellable
<1>4. task'[id] = "over" /\ \A i \in Ids : i # id => task'[i] = task[i]
  BY <1>1 DEF Data
<1>5. \A i \in stopped' : Behind(i)' /\ i \notin rolling'
  BY <1>1, <1>2 DEF Children, Data
<1>6. \A i \in Ids : answer'[i] = answer[i] \/ (i = id /\ id = Id /\ phase = "await")
  <2>1. CASE TaskDies(id)
    BY <2>1 DEF TaskDies, bridge
  <2>2. CASE \E status \in Results : TaskReports(id, status)
    <3>1. PICK status \in Results : Report(id, status)
      BY <2>2 DEF TaskReports
    <3>2. id \in completions => id = Id /\ phase = "await"
      BY DEF Data
    <3> QED BY <3>1, <3>2 DEF Report, bridge, Data
  <2> QED BY <2>1, <2>2
<1>7. \A i \in Ids : answer'[i] # "none" =>
        Behind(i)' \/ (i = Id /\ phase \in {"await", "stop"} /\ task'[i] = "over")
  BY <1>2, <1>4, <1>6 DEF Children
<1>8. phase = "await" => Id \in Ids
  BY DEF Data
<1>9. phase = "reap" => task'[Id] \in {"dying", "over"}
  BY <1>1 DEF Children, Data
<1>10. phase = "await" => task'[Id] \in {"queued", "driving", "over"}
  BY <1>4, <1>8 DEF Children
<1> QED BY <1>1, <1>3, <1>4, <1>5, <1>7, <1>9, <1>10 DEF Children

-------------------------------------------------------------------------------
FullInv == Inv /\ Earnings /\ Children

\* Initially nothing was generated and the recipe has not begun.
LEMMA InitInv == Init => FullInv
<1> SUFFICES ASSUME Init PROVE FullInv
  OBVIOUS
<1> USE FirstAttempt DEF Init
<1>1. ControlTypes
  BY DEF ControlTypes
<1>2. Placed /\ CleanedUp /\ Waits
  BY DEF Placed, CleanedUp, Waits
<1>3. Data
  BY SizeAssumption DEF Data, TaskStates
<1>4. Earnings
  BY DEF Earnings
<1>5. Children
  BY DEF Children
<1> QED BY <1>1, <1>2, <1>3, <1>4, <1>5 DEF FullInv, Inv, CtlInv, Control

\* Every step keeps the invariant and moves the handler as it may be moved.
LEMMA NextInv == FullInv /\ [Next]_vars => FullInv' /\ Move
<1> SUFFICES ASSUME FullInv, [Next]_vars PROVE FullInv' /\ Move
  OBVIOUS
<1> USE DEF FullInv
<1>1. Earnings'
  BY EarningsKept
<1>2. CASE Runs
  <2>1. phase = "await" => answer[Id] \in {"none"} \cup Results
    BY DEF Inv, Data
  <2> QED BY <1>1, <1>2, <2>1, RunsControl, RunsData, RunsChildren DEF Inv
<1>3. CASE Owner
  BY <1>1, <1>3, OwnerControl, OwnerData, OwnerChildren DEF Inv
<1>4. CASE Expire \/ (\E id \in Ids : Tasks(id) \/ RobotArrives(id)) \/ UNCHANGED vars
  <2>1. CtlInv' /\ Move /\ Data'
    BY <1>4, OthersControl, OthersData DEF Inv
  <2>2. Children'
    <3>1. CASE Expire \/ UNCHANGED vars \/ \E id \in Ids : RobotArrives(id)
      <4>1. /\ UNCHANGED <<step, attempt, phase, answer, task, stopped, stage>>
            /\ rolling' \subseteq rolling
        BY <3>1 DEF Expire, RobotArrives, vars, control, bridge, robot
      <4> QED BY <4>1, RestChildren
    <3>2. ASSUME NEW id \in Ids, Tasks(id) PROVE Children'
      BY <3>2, DrivesChildren, EndsChildren DEF Tasks, Results
    <3> QED BY <1>4, <3>1, <3>2
  <2> QED BY <1>1, <2>1, <2>2 DEF Inv
<1> QED BY <1>2, <1>3, <1>4 DEF Next

\* What is inductive holds in every state.
LEMMA Invariance == Spec => []FullInv
BY InitInv, NextInv, PTL DEF Spec

\* The variables of a recipe's run have their types.
THEOREM TypeCorrect == Spec => []TypeOK
<1>1. FullInv => TypeOK
  <2> SUFFICES ASSUME FullInv PROVE TypeOK
    OBVIOUS
  <2> USE DEF FullInv, Inv, CtlInv
  <2>1. completions \subseteq Ids /\ synthetic \subseteq Ids
    BY DEF Data
  <2> QED BY <2>1 DEF Control, ControlTypes, CleanedUp, Waits, Data, TaskStates, Results, TypeOK
<1> QED BY Invariance, <1>1, PTL

\* handle comes to its end only past every step of its cleanup.
THEOREM CleanupIsComplete == Spec => []CleanupRunsInFull
<1>1. FullInv => CleanupRunsInFull
  BY DEF FullInv, Inv, CtlInv, Control, CleanedUp, CleanupRunsInFull
<1> QED BY Invariance, <1>1, PTL

\* handle reports FINISHED only when every step has an attempt whose child reported it.
THEOREM FinishedIsTrue == Spec => []FinishedIsEarned
<1>1. FullInv => FinishedIsEarned
  <2> SUFFICES ASSUME FullInv, outcome = "FINISHED", NEW section \in {"step", "cleanup"},
                      NEW n \in StepsOf[section]
               PROVE  Earned(section, n)
    BY DEF FinishedIsEarned, Earned
  <2>1. CASE section = "step"
    BY <2>1 DEF FullInv, Earnings, StepsOf
  <2>2. CASE section = "cleanup"
    BY <2>2 DEF FullInv, Earnings, StepsOf
  <2> QED BY <2>1, <2>2
<1> QED BY Invariance, <1>1, PTL

\* However late the children report, the adapter's tables are empty once the handler
\* has forgotten its children.
THEOREM TablesAreEmptied == Spec => []NothingLeftBehind
<1>1. FullInv => NothingLeftBehind
  BY DEF FullInv, Inv, CtlInv, Control, Placed, Data, NothingLeftBehind
<1> QED BY Invariance, <1>1, PTL

\* A child begins only when those before it are over and a stopped one stays stopped.
THEOREM ChildrenTakeTurns == Spec => OneChildDrives
<1>1. FullInv /\ [Next]_vars =>
        [generated' # generated =>
           \A id \in generated : Cancellable(id) =>
             /\ task[id] \in {"none", "over"}
             /\ id \in stopped => id \notin rolling]_vars
  <2> SUFFICES ASSUME FullInv, [Next]_vars, generated' # generated, NEW id \in generated, Cancellable(id)
               PROVE  task[id] \in {"none", "over"} /\ (id \in stopped => id \notin rolling)
    OBVIOUS
  <2>1. phase = "idle"
    BY DEF Next, Runs, Owner, Tasks, Begin, AttemptRefused, ChildRefuses, ChildStarts, Ready,
       ChildAnswers, ChildTimesOut, Reaped, StopSent, HoldEnds, CancelQueued, CancelAwait,
       CancelHold, CancelSwallowed, CancelInStop, CancelInCleanup, Expire, TaskDrives, TaskDies,
       TaskReports, RobotArrives, vars
  <2> QED BY <2>1 DEF FullInv, Inv, Data, TaskStates, Children
<1> QED BY Invariance, <1>1, PTL DEF Spec, OneChildDrives

\* A run of a recipe is a run of ActionTask to whoever owns it.
THEOREM RunKeepsPromise == Spec => KeepsPromise
<1>1. Init => Task!Init
  BY DEF Init, Task!Init
<1>2. FullInv /\ [Next]_vars => [Task!Next]_(IF stage = "over" THEN "done" ELSE stage)
  <2> SUFFICES ASSUME FullInv, [Next]_vars
               PROVE  [Task!Next]_(IF stage = "over" THEN "done" ELSE stage)
    OBVIOUS
  <2>1. Move
    BY NextInv
  <2> QED BY <2>1 DEF Move, Onward, Task!Next, Task!Step, Task!Cancel, Task!Moves, Task!CancelMoves
<1> QED BY Invariance, <1>1, <1>2, PTL DEF Spec, KeepsPromise, Task!Spec
===============================================================================
