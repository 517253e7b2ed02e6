----------------------------- MODULE ActionScheduler -----------------------------
(***************************************************************************)
(* How the order worker of adaptor/adapter_jibot.py runs the actions of    *)
(* the nodes and edges it comes to.  Each action has a blocking type:      *)
(*                                                                         *)
(*            beside other actions     while the robot drives              *)
(*    NONE            yes                       yes                        *)
(*    SOFT            yes                       no                         *)
(*    SINGLE          no                        yes                        *)
(*    HARD            no                        no                         *)
(*                                                                         *)
(* The worker runs the list of a point up to its last SOFT or HARD action  *)
(* itself, in the foreground, with the robot stopped; a background task    *)
(* runs the rest while the worker drives on.  Both are runners: they make  *)
(* a task of each NONE and SOFT action, and await what must end before a   *)
(* SINGLE or HARD one.  cancelOrder cancels the worker and the tracked     *)
(* tasks, and a cancelled task cancels what it awaits.                     *)
(*                                                                         *)
(* A runner goes from one await to the next in a step.  An action that     *)
(* FAILED has ended like one that FINISHED.  The points of all the orders  *)
(* are numbered in the order the worker comes to them, and the point after *)
(* a cancelled one belongs to the next order.                              *)
(*                                                                         *)
(* Definitions whose name ends in Fault are the faults that the properties *)
(* are tried on: no action uses them.                                      *)
(*                                                                         *)
(* Bounds: N points, lists of at most MaxActions actions.                  *)
(***************************************************************************)
EXTENDS Integers, Sequences

CONSTANTS
  N,
  MaxActions,
  Lists,     \* the lists of blocking types a point may have
  May        \* liberties: "cancelDuringSoft", "orderDuringCancel"

BlockingTypes == {"NONE", "SOFT", "SINGLE", "HARD"}

ASSUME ActionSchedulerAssumption ==
  /\ N \in Nat \ {0}
  /\ MaxActions \in Nat
  /\ Lists \subseteq UNION {[1..n -> BlockingTypes] : n \in 1..MaxActions}

Points == 1..N
Actions == Points \X (1..MaxActions)

Foreground(p) == <<p, -1>>
Background(p) == <<p, 0>>
Runners == Points \X {-1, 0}
Tasks == Actions \cup Runners

VARIABLES
  list,        \* the actions of each point, <<>> before the worker comes to it
  next,        \* the point the worker is at or drives to
  worker,      \* what the worker is doing; it may drive the robot while "moving"
  residual,    \* the robot is still in motion by a goto the worker is done with
  task,        \* each task: "none", "live", "cancelling", "ended", "cancelled", "skipped"
  frame,       \* each runner: the await it is in, its entry, and what it awaits
  tracked,     \* _order_background_action_tasks
  canceller,   \* cancelOrder is being handled
  cancelWait   \* the tasks it awaits

cancelVars == <<canceller, cancelWait>>
vars == <<list, next, worker, residual, task, frame, tracked, cancelVars>>

-----------------------------------------------------------------------------
(* The list of a point *)

TypeOf(a) == list[a[1]][a[2]]
Listed == {a \in Actions : a[2] <= Len(list[a[1]])}
IsExclusive(type) == type \in {"SINGLE", "HARD"}
StopsDriving(type) == type \in {"SOFT", "HARD"}

\* The last entry that the worker may not drive beside, 0 when there is none
LastBlocker(l) ==
  CHOOSE i \in 0..Len(l) : /\ i > 0 => StopsDriving(l[i])
                           /\ \A j \in (i + 1)..Len(l) : ~StopsDriving(l[j])

IsForeground(r) == r[2] = -1
First(r) == IF IsForeground(r) THEN 1 ELSE LastBlocker(list[r[1]]) + 1
Last(r) == IF IsForeground(r) THEN LastBlocker(list[r[1]]) ELSE Len(list[r[1]])

Owner(a) ==
  IF a[2] <= LastBlocker(list[a[1]]) THEN Foreground(a[1]) ELSE Background(a[1])

\* The first SINGLE or HARD entry of r from i on, or the end of its entries
NextExclusive(r, i) ==
  CHOOSE j \in i..(Last(r) + 1) :
    /\ j <= Last(r) => IsExclusive(TypeOf(<<r[1], j>>))
    /\ \A k \in i..(j - 1) : ~IsExclusive(TypeOf(<<r[1], k>>))

-----------------------------------------------------------------------------
(* Tasks *)

Over == {"ended", "cancelled", "skipped"}
Running(t) == task[t] \in {"live", "cancelling"}

\* A task that is done stays tracked.
NoDoneFault(t, outcome) == task' = [task EXCEPT ![t] = outcome] /\ UNCHANGED tracked

\* A task that is done leaves the tracked ones.
EndTask(t, outcome) ==
  /\ task' = [task EXCEPT ![t] = outcome]
  /\ tracked' = tracked \ {t}

\* A background runner is exclusive when it has a SINGLE action.
ExclusiveRunner(t) ==
  t \in Runners /\ \E i \in First(t)..Last(t) : TypeOf(<<t[1], i>>) = "SINGLE"

Exclusives(S) == {t \in S : ExclusiveRunner(t)}

\* What a runner awaits has ended.  gather raises the cancellation of any of it.
Released(r) == task[r] = "live" /\ \A t \in frame[r].wait : task[t] = "ended"
Broken(r) ==
  /\ Running(r) /\ \A t \in frame[r].wait : task[t] \in {"ended", "cancelled"}
  /\ task[r] = "cancelling" \/ \E t \in frame[r].wait : task[t] = "cancelled"

\* The await of a runner: its kind, the entry it has come to, the tasks awaited, and
\* the background tasks it has yet to await (prior)
Await(kind, i, tasks, others) == [mode |-> kind, at |-> i, wait |-> tasks, prior |-> others]
NoFrame == Await("none", 0, {}, {})

\* A runner awaits no exclusive task before it makes tasks of its own.
NoBarrierFault(background) == Await("barriers", 0, {}, background)

\* A runner first awaits the exclusive ones of the background tasks.
Begin(background) ==
  Await("barriers", 0, Exclusives(background), background \ Exclusives(background))

\* The new task is tracked before the tracked ones are remembered: it awaits itself.
TrackedFirstFault(p, background, tasks, frames) ==
  /\ task' = [tasks EXCEPT ![Background(p)] = "live"]
  /\ frame' = [frames EXCEPT ![Background(p)] = Begin(background \cup {Background(p)})]
  /\ tracked' = background \cup {Background(p)}

\* _schedule_order_action_sequence: the tasks tracked now are remembered, and then
\* the new task joins them.
Schedule(p, background, tasks, frames) ==
  /\ task' = [tasks EXCEPT ![Background(p)] = "live"]
  /\ frame' = [frames EXCEPT ![Background(p)] = Begin(background)]
  /\ tracked' = background \cup {Background(p)}

-----------------------------------------------------------------------------
(* Runners: _execute_order_action_sequence *)

\* Makes the tasks of all entries up to the next exclusive one, to await them with
\* the prior ones.  At the end the foreground awaits only the SOFT ones.
Stretch(r) ==
  /\ frame[r].mode \in {"barriers", "inside"} /\ Released(r)
  /\ LET i == IF frame[r].mode = "barriers" THEN First(r) ELSE frame[r].at + 1
         j == NextExclusive(r, i)
         parallel == {<<r[1], k>> : k \in i..(j - 1)}
         soft == {a \in parallel : TypeOf(a) = "SOFT"}
     IN /\ task' = [t \in Tasks |-> IF t \in parallel THEN "live" ELSE task[t]]
        /\ frame' = [frame EXCEPT ![r] =
             IF j <= Last(r) THEN Await("before", j, frame[r].prior \cup parallel, {})
             ELSE Await("last", j, IF IsForeground(r) THEN soft ELSE parallel, frame[r].prior)]
  /\ UNCHANGED <<list, next, worker, residual, tracked, cancelVars>>

\* Runs an exclusive action inline: its cancellation is that of the runner.
StartExclusive(r) ==
  /\ frame[r].mode = "before" /\ Released(r)
  /\ LET a == <<r[1], frame[r].at>>
     IN /\ task' = [task EXCEPT ![a] = "live"]
        /\ frame' = [frame EXCEPT ![r] = Await("inside", a[2], {a}, {})]
  /\ UNCHANGED <<list, next, worker, residual, tracked, cancelVars>>

EndBackground(r) ==
  /\ ~IsForeground(r) /\ frame[r].mode = "last" /\ Released(r)
  /\ EndTask(r, "ended")
  /\ frame' = [frame EXCEPT ![r] = NoFrame]
  /\ UNCHANGED <<list, next, worker, residual, cancelVars>>

\* The NONE actions of a foreground runner that still run
LeftRunning(r) ==
  {a \in Listed : a[1] = r[1] /\ a[2] <= Last(r) /\ TypeOf(a) = "NONE" /\ Running(a)}

\* The worker tracks them, schedules the entries after the last blocker, and goes on.
EndForeground(r) ==
  /\ IsForeground(r) /\ frame[r].mode = "last" /\ Released(r)
  /\ LET background == tracked \cup LeftRunning(r)
         tasks == [task EXCEPT ![r] = "ended"]
         frames == [frame EXCEPT ![r] = NoFrame]
     IN IF Last(r) < Len(list[r[1]])
        THEN Schedule(r[1], background, tasks, frames)
        ELSE task' = tasks /\ frame' = frames /\ tracked' = background
  /\ worker' = "moving" /\ next' = next + 1
  /\ UNCHANGED <<list, residual, cancelVars>>

\* A runner that was cancelled, or that awaited a cancelled task, ends cancelled.
EndCancelled(r) ==
  /\ Broken(r)
  /\ EndTask(r, "cancelled")
  /\ frame' = [frame EXCEPT ![r] = NoFrame]
  /\ worker' = IF IsForeground(r) THEN "dead" ELSE worker
  /\ UNCHANGED <<list, next, residual, cancelVars>>

\* _execute_order_action: an exception is caught, a cancellation is not.
EndAction(a) ==
  /\ Running(a)
  /\ EndTask(a, IF task[a] = "live" THEN "ended" ELSE "cancelled")
  /\ UNCHANGED <<list, next, worker, residual, frame, cancelVars>>

-----------------------------------------------------------------------------
(* The worker *)

\* _process_v3_step_actions: without a SOFT or HARD entry all of the list goes to
\* the background.  A point is reached before the goto to it has ended.
Arrive ==
  /\ worker = "moving" /\ next <= N
  /\ \E l \in Lists :
       /\ list' = [list EXCEPT ![next] = l]
       /\ IF LastBlocker(l) > 0
          THEN /\ worker' = "stopping" /\ residual' \in BOOLEAN
               /\ UNCHANGED <<next, task, frame, tracked>>
          ELSE /\ Schedule(next, tracked, task, frame)
               /\ next' = next + 1
               /\ UNCHANGED <<worker, residual>>
  /\ UNCHANGED cancelVars

\* The stop is sent and the standstill not awaited.
NoStandstillFault ==
  /\ worker = "stopping"
  /\ worker' = "acting" /\ residual' \in {residual, FALSE}
  /\ task' = [task EXCEPT ![Foreground(next)] = "live"]
  /\ frame' = [frame EXCEPT ![Foreground(next)] = Begin(tracked)]
  /\ UNCHANGED <<list, next, tracked, cancelVars>>

\* _stop_for_blocking_order_actions and the wait until the robot stands still
StopForActions ==
  /\ worker = "stopping"
  /\ worker' = "acting" /\ residual' = FALSE
  /\ task' = [task EXCEPT ![Foreground(next)] = "live"]
  /\ frame' = [frame EXCEPT ![Foreground(next)] = Begin(tracked)]
  /\ UNCHANGED <<list, next, tracked, cancelVars>>

\* The robot does not stop: the SOFT and HARD actions are FAILED, and the step goes
\* back into the queue.  All of its actions count as dispatched.
StopFails ==
  /\ worker = "stopping" /\ residual
  /\ worker' = "parked"
  /\ task' = [t \in Tasks |->
                IF t \notin Listed \/ t[1] # next THEN task[t]
                ELSE IF StopsDriving(TypeOf(t)) THEN "ended" ELSE "skipped"]
  /\ UNCHANGED <<list, next, residual, frame, tracked, cancelVars>>

\* An update of the order restarts the worker, which finds nothing to dispatch.
Restart ==
  /\ worker = "parked"
  /\ worker' = "moving" /\ next' = next + 1 /\ residual' = FALSE
  /\ UNCHANGED <<list, task, frame, tracked, cancelVars>>

\* The queue is empty.  Background actions of the order may still run.
CompleteOrder ==
  /\ worker = "moving"
  /\ worker' = "done"
  /\ UNCHANGED <<list, next, residual, task, frame, tracked, cancelVars>>

-----------------------------------------------------------------------------
(* The fleet *)

\* A new order after one that is complete or cancelled
NewOrder ==
  /\ worker \in {"done", "dead"}
  /\ ~canceller \/ "orderDuringCancel" \in May
  /\ worker' = "moving" /\ residual' = FALSE
  /\ next' = IF next <= N /\ list[next] # <<>> THEN next + 1 ELSE next
  /\ UNCHANGED <<list, task, frame, tracked, cancelVars>>

\* The worker awaits SOFT actions, and NONE actions beside them are not yet tracked.
HoldsUntracked(r) ==
  IsForeground(r) /\ task[r] = "live" /\ frame[r].mode = "last" /\ LeftRunning(r) # {}

\* Only the tasks themselves are cancelled, not the actions they await.
ShallowCancelFault(S) ==
  task' = [t \in Tasks |-> IF t \in S /\ task[t] = "live" THEN "cancelling" ELSE task[t]]

\* A task that is cancelled cancels what it awaits.  What a tracked task awaits is
\* tracked or its own action, so one level is the whole recursion.
CancelTasks(S) ==
  LET reached == S \cup UNION {frame[r].wait : r \in S \cap Runners}
  IN task' = [t \in Tasks |->
                IF t \in reached /\ task[t] = "live" THEN "cancelling" ELSE task[t]]

\* _cancel_order_on_loop up to the wait for the cancelled tasks.  A worker that is
\* not in a runner ends at once, and the queue of a parked one is cleared.
CancelOrder ==
  /\ ~canceller
  /\ \A r \in Runners : HoldsUntracked(r) => "cancelDuringSoft" \in May
  /\ CancelTasks(tracked \cup {r \in Runners : IsForeground(r) /\ Running(r)})
  /\ worker' = IF worker \in {"moving", "stopping", "parked"} THEN "dead" ELSE worker
  /\ residual' = (residual \/ worker = "moving")
  /\ canceller' = TRUE /\ cancelWait' = tracked
  /\ UNCHANGED <<list, next, frame, tracked>>

\* The cancelled tasks have ended, and the robot is stopped, which may fail.
FinishCancel ==
  /\ canceller /\ \A t \in cancelWait : ~Running(t)
  /\ canceller' = FALSE /\ cancelWait' = {} /\ residual' \in {FALSE, residual}
  /\ UNCHANGED <<list, next, worker, task, frame, tracked>>

-----------------------------------------------------------------------------
Init ==
  /\ list = [p \in Points |-> <<>>] /\ next = 1
  /\ worker = "moving" /\ residual = FALSE
  /\ task = [t \in Tasks |-> "none"]
  /\ frame = [r \in Runners |-> NoFrame]
  /\ tracked = {} /\ canceller = FALSE /\ cancelWait = {}

RunnerStep(r) ==
  Stretch(r) \/ StartExclusive(r) \/ EndBackground(r) \/ EndForeground(r) \/ EndCancelled(r)

Next ==
  \/ \E r \in Runners : RunnerStep(r)
  \/ \E a \in Actions : EndAction(a)
  \/ Arrive \/ StopForActions \/ StopFails \/ Restart \/ CompleteOrder
  \/ NewOrder \/ CancelOrder \/ FinishCancel

Spec == Init /\ [][Next]_vars

\* The loop runs what is ready, and an action ends: it has a timeout of its own.
Fairness ==
  /\ \A r \in Runners : WF_vars(RunnerStep(r))
  /\ \A a \in Actions : WF_vars(EndAction(a))
  /\ WF_vars(StopForActions) /\ WF_vars(FinishCancel)

FairSpec == Spec /\ Fairness

-----------------------------------------------------------------------------
(* Properties *)

TypeOK ==
  /\ list \in [Points -> Lists \cup {<<>>}] /\ next \in 1..(N + 1)
  /\ worker \in {"moving", "stopping", "acting", "parked", "done", "dead"}
  /\ residual \in BOOLEAN
  /\ task \in [Tasks -> {"none", "live", "cancelling"} \cup Over]
  /\ frame \in [Runners -> [mode: {"none", "barriers", "before", "inside", "last"},
                            at: 0..(MaxActions + 1),
                            wait: SUBSET Tasks, prior: SUBSET Tasks]]
  /\ tracked \subseteq Tasks /\ canceller \in BOOLEAN /\ cancelWait \subseteq Tasks

Earlier(a, b) == a[1] < b[1] \/ (a[1] = b[1] /\ a[2] < b[2])

\* a has not ended, and it will still be run unless its runner is cancelled.
Unfinished(a) == Running(a) \/ (task[a] = "none" /\ task[Owner(a)] = "live")

\* A SINGLE or HARD action runs alone and in its turn: when an action runs, no action
\* listed before it is unfinished, if one of the two is SINGLE or HARD.  The actions of
\* earlier points, and of earlier orders, in the background included
\* (docs/todo/vda5050-compliance-gaps.md: "wait for prior actions and run exclusively").
ExclusiveInTurn ==
  \A a, b \in Listed :
    /\ Earlier(a, b) /\ Running(b)
    /\ IsExclusive(TypeOf(a)) \/ IsExclusive(TypeOf(b))
    => ~Unfinished(a)

\* The robot does not drive beside a SOFT or HARD action, whoever set it in motion and
\* however the order before was cancelled.
StandsStill ==
  \A a \in Listed : Running(a) /\ StopsDriving(TypeOf(a)) => worker # "moving" /\ ~residual

\* cancelOrder reaches every action of the order: while it awaits what it cancelled, and
\* until the next order, each action has ended or has been cancelled.
CancelReachesAll ==
  canceller \/ worker = "dead" => \A a \in Actions : task[a] # "live"

\* The cancellation of an order ends no task of another one: a task that was not
\* cancelled awaits none that was (_await_order_action_tasks raises its CancelledError,
\* and a worker that ends so neither clears its step nor puts it back).
CancelStaysInOrder ==
  \A r \in Runners : task[r] = "live" =>
    \A t \in frame[r].wait \cup frame[r].prior : task[t] \in {"live", "ended"}

\* No runner awaits itself and no two await each other: once the worker is at rest, the
\* actions that it stopped for and those in the background end, or are cancelled.
ActionsEnd ==
  (\E r \in Runners : Running(r)) ~> (\A t \in Tasks : ~Running(t))
=============================================================================
