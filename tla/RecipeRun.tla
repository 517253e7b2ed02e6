------------------------------ MODULE RecipeRun ------------------------------
(* One run of a recipe: body steps in order, each tried again when it fails,
   then every cleanup step, whatever became of the body.  A step is a child
   action of the registry; here each child is a motion primitive that reports
   through a completion future from a task of its own on the adapter's loop.
   Every step has a time limit: one that is configured as 0, which waits for the
   child for ever, is not modelled.
   The owner of the recipe (the order's tasks or a state action) may cancel it. *)
EXTENDS Naturals, FiniteSets

CONSTANTS
  Steps,          \* number of steps of the body
  Cleanups,       \* number of steps of the cleanup
  Retries,        \* retries of the steps of each section
  Uncancellable,  \* <<section, number>> of the steps whose extension has no cancel handler
  MaxCancels      \* bound: cancels by the owner

ASSUME SizeAssumption ==
  /\ Steps \in Nat \ {0}
  /\ Cleanups \in Nat
  /\ Retries \in [{"step", "cleanup"} -> Nat]
  /\ MaxCancels \in Nat
ASSUME UncancellableAssumption == Uncancellable \subseteq {"step", "cleanup"} \X Nat

Attempts(section) == 1..(Retries[section] + 1)
StepsOf == [step |-> 1..Steps, cleanup |-> 1..Cleanups]
Ids == UNION {{section} \X StepsOf[section] \X Attempts(section) : section \in {"step", "cleanup"}}

VARIABLES
  stage,          \* the handler: queued, body, cleanup, over; dropped before it began, or
                  \* torn out of its cleanup
  outcome,        \* how it ended: none, FINISHED, FAILED, cancelled
  step, attempt,  \* number and attempt in the _run_step that runs now
  phase,          \* ... and where it is: idle, await, reap, stop, hold, gone
  why,            \* for what the child is being cancelled: none, timeout, cancel
  last,           \* result of the last attempt
  expired,        \* whether the deadline of the body, or of the cleanup step, has passed
  bodyFailed, cleanupFailed, cancelled,  \* body_error, cleanup_errors, cancellation
  generated,      \* generated_ids
  completions,    \* ids with a registered completion future
  answer,         \* what the future of each id holds
  synthetic,      \* _synthetic_action_ids
  task,           \* the child's task on the loop: none, queued, driving, dying, over
  rolling,        \* children whose motion the robot may still be carrying out
  stopped,        \* children for which the robot was told to stop
  ran,            \* cleanup steps run to their end
  cancels         \* cancels so far

control == <<stage, outcome, step, attempt, phase, why, last, expired>>
errors == <<bodyFailed, cleanupFailed, cancelled>>
bridge == <<completions, answer, synthetic>>
robot == <<task, rolling>>
vars == <<control, errors, generated, bridge, robot, stopped, ran, cancels>>

Init ==
  /\ stage = "queued" /\ outcome = "none"
  /\ step = 1 /\ attempt = 1 /\ phase = "idle" /\ why = "none"
  /\ last = "none" /\ expired = FALSE
  /\ bodyFailed = FALSE /\ cleanupFailed = FALSE /\ cancelled = FALSE
  /\ generated = {} /\ completions = {} /\ synthetic = {}
  /\ answer = [id \in Ids |-> "none"] /\ task = [id \in Ids |-> "none"]
  /\ rolling = {} /\ stopped = {} /\ ran = {} /\ cancels = 0

\* What runs: a step of the body, or one of the cleanup (which goes on by itself
\* when the shield that awaits it is cancelled).
Section == IF stage = "body" THEN "step" ELSE "cleanup"
Id == <<Section, step, attempt>>
Cancellable(id) == <<id[1], id[2]>> \notin Uncancellable

\* Bug: the errors of the cleanup are not looked at.
HandlerEndsFault(bodyErr, cleanupErr) ==
  /\ stage' = "over" /\ phase' = "gone"
  /\ outcome' = IF cancelled' THEN "cancelled"
                ELSE IF bodyErr THEN "FAILED" ELSE "FINISHED"
  /\ UNCHANGED <<step, attempt, expired>>

\* The handler returns or raises, and forgets the ids of its children.
HandlerEnds(bodyErr, cleanupErr) ==
  /\ stage' = "over" /\ phase' = "gone"
  /\ outcome' = IF cancelled' THEN "cancelled"
                ELSE IF bodyErr \/ cleanupErr THEN "FAILED" ELSE "FINISHED"
  /\ UNCHANGED <<step, attempt, expired>>

\* Bug: a cancel leaves the handler past its cleanup.
EnterCleanupFault(failed, cancel) ==
  /\ bodyFailed' = failed /\ cancelled' = cancel
  /\ UNCHANGED <<cleanupFailed, ran>>
  /\ IF Cleanups = 0 \/ cancel
       THEN HandlerEnds(failed, FALSE)
       ELSE /\ stage' = "cleanup" /\ step' = 1 /\ attempt' = 1
            /\ phase' = "idle" /\ expired' = FALSE
            /\ UNCHANGED outcome

\* The body is over; the finally block begins with the first cleanup step.
EnterCleanup(failed, cancel) ==
  /\ bodyFailed' = failed /\ cancelled' = cancel
  /\ UNCHANGED <<cleanupFailed, ran>>
  /\ IF Cleanups = 0
       THEN HandlerEnds(failed, FALSE)
       ELSE /\ stage' = "cleanup" /\ step' = 1 /\ attempt' = 1
            /\ phase' = "idle" /\ expired' = FALSE
            /\ UNCHANGED outcome

NextStep ==
  /\ step' = step + 1 /\ attempt' = 1 /\ phase' = "idle"
  /\ UNCHANGED <<stage, outcome>>

BodyReturns(result) ==
  /\ stage = "body"
  /\ IF result = "FINISHED" /\ step < Steps
       THEN NextStep /\ UNCHANGED <<expired, errors, ran>>
       ELSE EnterCleanup(result # "FINISHED", FALSE)

CleanupStepEnds(result) ==
  /\ cleanupFailed' = (cleanupFailed \/ result # "FINISHED")
  /\ ran' = ran \cup {step}
  /\ UNCHANGED <<bodyFailed, cancelled>>

\* Bug: the cleanup stops at its first failure, as the body does.
CleanupReturnsFault(result) ==
  /\ stage = "cleanup"
  /\ CleanupStepEnds(result)
  /\ IF step < Cleanups /\ result = "FINISHED"
       THEN NextStep /\ expired' = FALSE
       ELSE HandlerEnds(bodyFailed, cleanupFailed')

CleanupReturns(result) ==
  /\ stage = "cleanup"
  /\ CleanupStepEnds(result)
  /\ IF step < Cleanups
       THEN NextStep /\ expired' = FALSE
       ELSE HandlerEnds(bodyFailed, cleanupFailed')

\* Nobody awaits the shielded step any more.
ShieldedReturns ==
  /\ stage = "torn"
  /\ phase' = "gone" /\ ran' = ran \cup {step}
  /\ UNCHANGED <<stage, outcome, step, attempt, expired, errors>>

\* _run_step returns a result to the handler that awaits it.
StepReturns(result) == BodyReturns(result) \/ CleanupReturns(result) \/ ShieldedReturns

\* The registry's execute returns a result to _run_step: a success may be followed
\* by a hold, a failure by one before the next attempt.
ExecuteReturns(result) ==
  /\ last' = result /\ why' = "none"
  /\ IF result = "FINISHED" \/ attempt <= Retries[Section]
       THEN /\ phase' = "hold"
            /\ UNCHANGED <<stage, outcome, step, attempt, expired, errors, ran>>
       ELSE StepReturns(result)

\* _update_instant_action_status of a child: resolves a registered future, and is
\* nothing to an id that is synthetic or unknown.
Report(id, status) ==
  IF id \in completions
    THEN /\ completions' = completions \ {id}
         /\ synthetic' = synthetic \cup {id}
         /\ answer' = [answer EXCEPT ![id] = status]
    ELSE UNCHANGED bridge

\* The ids known to the bridge after a step that may be the handler's last.
Forgets == IF stage # "over" /\ stage' = "over" THEN generated \cup {Id} ELSE {}
Bridge(open, closed) ==
  /\ completions' = open \ Forgets
  /\ synthetic' = closed \ Forgets
Retire(id) == Bridge(completions \ {id}, synthetic \cup {id})

------------------------------------------------------------------------------
\* The handler begins when its task first runs.
Begin ==
  /\ stage = "queued"
  /\ stage' = "body"
  /\ UNCHANGED <<outcome, step, attempt, phase, why, last, expired, errors, generated,
                 bridge, robot, stopped, ran, cancels>>

Ready == stage \in {"body", "cleanup", "torn"} /\ phase = "idle"

\* No attempt is made after the deadline, and none whose parameters are missing.
AttemptRefused ==
  /\ Ready
  /\ StepReturns("FAILED")
  /\ Bridge(completions, synthetic)
  /\ UNCHANGED <<why, last, generated, answer, robot, stopped, cancels>>

\* The child's handler refuses at once: its future is resolved before it is awaited.
ChildRefuses ==
  /\ Ready /\ ~expired
  /\ generated' = generated \cup {Id}
  /\ ExecuteReturns("FAILED")
  /\ Retire(Id)
  /\ UNCHANGED <<answer, robot, stopped, cancels>>

\* The child registers its completion, puts its coroutine on the loop and waits.
ChildStarts ==
  /\ Ready /\ ~expired
  /\ generated' = generated \cup {Id}
  /\ completions' = completions \cup {Id}
  /\ synthetic' = synthetic \ {Id}
  /\ task' = [task EXCEPT ![Id] = "queued"]
  /\ phase' = "await"
  /\ UNCHANGED <<stage, outcome, step, attempt, why, last, expired, errors, answer,
                 rolling, stopped, ran, cancels>>

\* The child's task commands the robot ...
TaskDrives(id) ==
  /\ task[id] = "queued"
  /\ task' = [task EXCEPT ![id] = "driving"]
  /\ rolling' = IF Cancellable(id) THEN rolling \cup {id} ELSE rolling
  /\ UNCHANGED <<control, errors, generated, bridge, stopped, ran, cancels>>

\* ... and reports how it went; a move may be reported before the robot is done.
TaskReports(id, status) ==
  /\ task[id] = "driving"
  /\ task' = [task EXCEPT ![id] = "over"]
  /\ Report(id, status)
  /\ UNCHANGED <<control, errors, generated, rolling, stopped, ran, cancels>>

\* A cancelled task ends.
TaskDies(id) ==
  /\ task[id] = "dying"
  /\ task' = [task EXCEPT ![id] = "over"]
  /\ UNCHANGED <<control, errors, generated, bridge, rolling, stopped, ran, cancels>>

\* The robot comes to the end of a motion.
RobotArrives(id) ==
  /\ id \in rolling
  /\ rolling' = rolling \ {id}
  /\ UNCHANGED <<control, errors, generated, bridge, task, stopped, ran, cancels>>

\* The awaited future has a result.
ChildAnswers ==
  /\ phase = "await" /\ answer[Id] # "none"
  /\ ExecuteReturns(answer[Id])
  /\ Retire(Id)
  /\ UNCHANGED <<generated, answer, robot, stopped, cancels>>

\* Bug: only the wait for the child ends, its task goes on.
CancelChildFault(reason) ==
  /\ why' = reason
  /\ phase' = "stop"
  /\ UNCHANGED task
  /\ UNCHANGED <<stage, outcome, step, attempt, last, expired, errors, ran>>

\* stop_motion: forget the completion, cancel the child's task and await it, then
\* tell the robot to stop.
CancelChild(reason) ==
  /\ why' = reason
  /\ task' = IF task[Id] \in {"queued", "driving"} THEN [task EXCEPT ![Id] = "dying"] ELSE task
  /\ phase' = IF task[Id] \in {"queued", "driving"} THEN "reap" ELSE "stop"
  /\ UNCHANGED <<stage, outcome, step, attempt, last, expired, errors, ran>>

\* Bug: a step that cannot be cancelled has no timeout.
ChildTimesOutFault ==
  /\ phase = "await" /\ answer[Id] = "none"
  /\ Cancellable(Id) /\ CancelChild("timeout")
  /\ Retire(Id)
  /\ UNCHANGED <<generated, answer, rolling, stopped, cancels>>

\* The child does not answer in time.
ChildTimesOut ==
  /\ phase = "await" /\ answer[Id] = "none"
  /\ \/ Cancellable(Id) /\ CancelChild("timeout")
     \/ ~Cancellable(Id) /\ ExecuteReturns("FAILED") /\ UNCHANGED task
  /\ Retire(Id)
  /\ UNCHANGED <<generated, answer, rolling, stopped, cancels>>

Reaped ==
  /\ phase = "reap" /\ task[Id] = "over"
  /\ phase' = "stop"
  /\ UNCHANGED <<stage, outcome, step, attempt, why, last, expired, errors, generated, bridge,
                 robot, stopped, ran, cancels>>

\* The stop is sent (or fails), and execute goes on to fail or to raise.
StopSent ==
  /\ phase = "stop"
  /\ \/ rolling' = {} /\ stopped' = stopped \cup {Id}
     \/ UNCHANGED <<rolling, stopped>>
  /\ \/ why = "timeout" /\ ExecuteReturns("FAILED")
     \/ why = "cancel" /\ EnterCleanup(FALSE, TRUE) /\ why' = "none" /\ UNCHANGED last
  /\ Bridge(completions, synthetic)
  /\ UNCHANGED <<generated, answer, task, cancels>>

\* The rest after a success or before a retry is over.
HoldEnds ==
  /\ phase = "hold"
  /\ \/ last = "FINISHED" /\ StepReturns(last)
     \/ /\ last = "FAILED"
        /\ attempt' = attempt + 1 /\ phase' = "idle"
        /\ UNCHANGED <<stage, outcome, step, expired, errors, ran>>
  /\ Bridge(completions, synthetic)
  /\ UNCHANGED <<why, last, generated, answer, robot, stopped, cancels>>

\* The deadline of the body or of the cleanup step passes.
Expire ==
  /\ stage \in {"body", "cleanup"} /\ ~expired
  /\ expired' = TRUE
  /\ UNCHANGED <<stage, outcome, step, attempt, phase, why, last, errors, generated, bridge,
                 robot, stopped, ran, cancels>>

------------------------------------------------------------------------------
\* The owner cancels the recipe's task.
MayCancel == cancels < MaxCancels /\ cancels' = cancels + 1

\* Before it began: neither body nor cleanup.
CancelQueued ==
  /\ MayCancel /\ stage = "queued"
  /\ stage' = "dropped" /\ outcome' = "cancelled" /\ phase' = "gone"
  /\ UNCHANGED <<step, attempt, why, last, expired, errors, generated, bridge, robot,
                 stopped, ran>>

\* While it waits for a child.
CancelAwait ==
  /\ MayCancel /\ stage = "body" /\ phase = "await"
  /\ \/ Cancellable(Id) /\ CancelChild("cancel")
     \/ /\ ~Cancellable(Id)
        /\ EnterCleanup(FALSE, TRUE) /\ why' = "none"
        /\ UNCHANGED <<last, task>>
  /\ Retire(Id)
  /\ UNCHANGED <<generated, answer, rolling, stopped>>

\* While it rests.
CancelHold ==
  /\ MayCancel /\ stage = "body" /\ phase = "hold"
  /\ EnterCleanup(FALSE, TRUE)
  /\ Bridge(completions, synthetic)
  /\ UNCHANGED <<why, last, generated, answer, robot, stopped>>

\* While the child's task is awaited, where stop_motion takes the cancel for the child's
\* own; or when the child has just answered, and wait_for prefers its result.
CancelSwallowed ==
  /\ MayCancel /\ stage = "body"
  /\ phase = "reap" \/ (phase = "await" /\ answer[Id] # "none")
  /\ UNCHANGED <<control, errors, generated, bridge, robot, stopped, ran>>

\* While the stop is being sent, which may then never reach the robot.
CancelInStop ==
  /\ MayCancel /\ stage = "body" /\ phase = "stop"
  /\ EnterCleanup(FALSE, TRUE) /\ why' = "none"
  /\ rolling' \in {{}, rolling}
  /\ Bridge(completions, synthetic)
  /\ UNCHANGED <<last, generated, answer, task, stopped>>

\* While the cleanup runs: the shield keeps the step that runs, and the cancel leaves
\* the finally block at once, past the other steps and past the forgetting of the ids.
CancelInCleanup ==
  /\ MayCancel /\ stage = "cleanup"
  /\ stage' = "torn" /\ outcome' = "cancelled"
  /\ UNCHANGED <<step, attempt, phase, why, last, expired, errors, generated, bridge, robot,
                 stopped, ran>>

Runs == Begin \/ AttemptRefused \/ ChildRefuses \/ ChildStarts \/ ChildAnswers
        \/ ChildTimesOut \/ Reaped \/ StopSent \/ HoldEnds
Tasks(id) == TaskDrives(id) \/ TaskDies(id) \/ \E status \in {"FINISHED", "FAILED"} : TaskReports(id, status)
Owner == CancelQueued \/ CancelAwait \/ CancelHold \/ CancelSwallowed \/ CancelInStop \/ CancelInCleanup

Next ==
  \/ Runs \/ Owner \/ Expire
  \/ \E id \in Ids : Tasks(id) \/ RobotArrives(id)

Spec == Init /\ [][Next]_vars

\* The loop runs what is ready, every step has a timeout, sending a stop ends, and so
\* does a task that was cancelled.  A child need neither begin to drive nor report.
Fairness == WF_vars(Runs) /\ WF_vars(\E id \in Ids : TaskDies(id))

FairSpec == Spec /\ Fairness

------------------------------------------------------------------------------
(* Properties. *)

TypeOK ==
  /\ stage \in {"queued", "body", "cleanup", "over", "dropped", "torn"}
  /\ outcome \in {"none", "FINISHED", "FAILED", "cancelled"}
  /\ step \in (1..Steps) \cup (1..Cleanups)
  /\ attempt \in Attempts("step") \cup Attempts("cleanup")
  /\ phase \in {"idle", "await", "reap", "stop", "hold", "gone"}
  /\ why \in {"none", "timeout", "cancel"}
  /\ last \in {"none", "FINISHED", "FAILED"}
  /\ {expired, bodyFailed, cleanupFailed, cancelled} \subseteq BOOLEAN
  /\ {generated, completions, synthetic, rolling, stopped} \subseteq SUBSET Ids
  /\ answer \in [Ids -> {"none", "FINISHED", "FAILED"}]
  /\ task \in [Ids -> {"none", "queued", "driving", "dying", "over"}]
  /\ ran \subseteq 1..Cleanups
  /\ cancels \in 0..MaxCancels

\* A recipe that comes to its end has run every step of its cleanup to its end, whether
\* its body succeeded, failed, ran out of time or was cancelled, and whatever became of
\* the earlier steps of the cleanup.
CleanupRunsInFull == stage = "over" => ran = 1..Cleanups

\* The facility is never left between two positions: "cleanup always runs", for every
\* recipe that began.
CleanupAlwaysRuns == stage \in {"over", "torn"} /\ phase = "gone" => ran = 1..Cleanups

\* FINISHED is only reported when every step of the body and of the cleanup has an
\* attempt that the child itself reported FINISHED.
FinishedIsEarned ==
  outcome = "FINISHED" =>
    \A section \in {"step", "cleanup"} : \A n \in StepsOf[section] :
      \E a \in Attempts(section) : answer[<<section, n, a>>] = "FINISHED"

\* Two children never drive at once, and a child for which the robot was told to stop
\* does not set it in motion again behind the back of the next one.
OneChildDrives ==
  [][generated' # generated =>
       \A id \in generated : Cancellable(id) =>
         /\ task[id] \in {"none", "over"}
         /\ id \in stopped => id \notin rolling]_vars

\* When the recipe has ended nothing of it is left in the adapter's tables, however late
\* its children report.
NothingLeftBehind == stage = "over" => completions = {} /\ synthetic = {}

\* A recipe ends: every step has its timeout and the cleanup a budget of its own.
RecipeEnds == stage = "body" ~> stage \in {"over", "torn"} /\ phase = "gone"

\* The recipe keeps the promise of ActionTask to its owner.
Task == INSTANCE ActionTask
          WITH stage <- IF stage = "over" THEN "done" ELSE stage, HasCleanup <- Cleanups # 0
KeepsPromise == Task!Spec
==============================================================================
