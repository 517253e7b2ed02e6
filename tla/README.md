# A verification of the AMR adapter

This directory holds TLA+ models of the adapter in `src/adaptor` and of the JIBOT and SEER clients
it drives a robot with, TLC configurations that check them on small instances, and theorems that
TLAPS proves for every value of the constants. Line numbers refer to `src/`; unless another
file is named they are those of `src/adaptor/adapter_jibot.py`.

- [1. The system](#1-the-system)
- [2. The modules](#2-the-modules)
- [3. What the runs check](#3-what-the-runs-check)
- [4. Where the code and its documentation part](#4-where-the-code-and-its-documentation-part)
- [5. What is proved](#5-what-is-proved)
- [6. What is not modelled](#6-what-is-not-modelled)
- [7. Plan](#7-plan)
- [8. Running it](#8-running-it)

## 1. The system

The adapter is one Python process between a fleet manager (the ACS, speaking VDA5050 over MQTT)
and one mobile robot (a JIBOT over its own TCP protocol, or a SEER robot over seven TCP ports).
Two threads matter. The **MQTT thread** parses messages and reports the state of the broker
link; it changes almost nothing itself and posts callbacks with `call_soon_threadsafe`
(`_run_on_adapter_loop`, 612-663). The **adapter loop** is an asyncio loop that runs everything
else. Coroutines give way only at an `await`, so what looks like one function is a sequence of
steps between which any other coroutine may change what the function read before. Nothing is
persisted: a restart of the process starts from the robot's telemetry.

### Components

**Order engine** (3832-4970, 6843-6980, 9201-9354; `core/coalescing.py`).
*State*: `state.order_id/node_states/edge_states/action_states`, `order_queue`,
`order_worker_task`, `current_order_step`, `_order_action_step_in_flight`,
`_coalescing_run_step`, `_dispatched_order_action_ids`, `_last_node_id` and
`_last_node_sequence_id`. *Operations*: accept an order, merge an update, rebuild the queue,
start, cancel and restart the worker task, drive to a node, dispatch the actions of an item,
clear it, drop the order when the worker crashes, `cancelOrder`. *Hard*: an update finds a
worker half way through a step that the rebuilt queue contains again; the worker is then
obsolete or not depending on three memory fields; its successor is started by a done callback of
the one that was cancelled; `cancelOrder` awaits twice and compares `orderId` afterwards.
*Correct when*: one worker runs the queue, no actionId is dispatched twice, no node of an
accepted message is lost, the robot is not sent back, edges stay visible until they are passed, a
queue has somebody to run it, an order that is gone is not driven, every order settles.

**MQTT loss guard, startPause and stopPause** (989-1100, 8108-8233;
`seer_client/.../bridge.py` 470-574). *State*: `_acs_broker_connected`, `_mqtt_ever_connected`,
`_mqtt_disconnect_timer`, `_motion_paused`, `_paused_by_mqtt_loss`, an `asyncio.Lock`.
*Operations*: link up and down, arm and cancel the grace timer, pause after the grace, resume
after the reconnection, and the two instant actions that pause and resume for the operator.
*Hard*: the MQTT thread reads a flag of the loop; the flags change after an awaited command; the
lock covers the guard but not the operator's actions; the SEER bridge replaces two of the four
parties with its own. *Correct when*: a lost link always leads to a pause, a pause of the guard
ends with the loss, a pause of the operator does not, and a paused robot stands.

**SEER connection and client** (`seer_client/.../connection.py`, `client.py`). *State*: per
logical port a reader, a writer, a lock, a sequence number. *Operations*: a request with its
timeout and cancellation, the reopening of the stream, the teardown by the client. *Hard*: the
answer to a request that nobody waits for any more is still on the stream; a timed-out command
may have been executed; the teardown does not take the lock. *Correct when*: no caller gets the
answer to another request, no command is executed twice, every call returns.

**Order action scheduling** (4630-4868, 5073-5112, 9278-9286). *State*: the tasks in
`_order_background_action_tasks` and `_order_exclusive_background_action_tasks`, and the locals of
each running sequence. *Operations*: stop the robot before SOFT and HARD actions, run the list of a
point up to the last of them, run the rest in the background, cancel what is tracked. *Hard*:
background actions outlive the step and the order that started them, a sequence remembers the tasks
it has to await when it is scheduled, and cancelling one task cancels what it awaits. *Correct
when*: a SINGLE or HARD action runs alone and in its turn, the robot stands beside a SOFT or HARD one,
cancelOrder reaches all actions of its order and none of the next, every action ends.

**Instant actions and their completion** (9502-9745, `core/action_bridge.py`,
`core/action_registry.py`, `core/action_modules.py`): status bookkeeping, duplicates, actions
that are answered from a callback of another thread. *Correct when*: statuses only move
forward, and every accepted action reaches a final one.

**Docking and charging** (5690-5902, 6284-6691, 8364-8503; `extensions/charge.py`,
`utils/charge_circuit.py`). *State*: the charge mode of the robot and the relay, neither of which the
adapter sees; the hold it keeps asserting; the charging flag of the last status. *Operations*: dock
and wait for the charge within two budgets, hand the charge over to the relay hold (two UmStops),
verify it, fall back to a new dock, stop the charge before an order moves, `startCharging`,
`chargeInPlace`, `stopCharging`. *Hard*: every step of the handover is an await at which a cancel, a
crash or a failing command may strike; the flag that decides may be older than what it decides.
*Correct when*: the relay is held only for somebody, a robot that was docked well has something that
answers for its charge, and a dock step ends.

**Move segments** (6713-6841, `core/waypoint_pass.py`): coalesced runs of waypoints, passing without
stopping, the node path of dock work.

**Node wait, stall guard and manual drive** (189-310, 5624-6000, 6229-6271, 7175-7600;
`utils/joystick*.py`). *State*: the retries and the stall timer of the wait, `_manual_drive_active`,
the watchdog's handle, `_motion_paused`, a polled status. *Operations*: the worker's goto and its
wait, the guard that sends the goto again, `manualDrive` under a watchdog, `manualMove`,
`manualStop`, `gotoNearestNode`, the joystick on the robot. *Hard*: handlers run on the MQTT thread
and their coroutines later; a watchdog fires while a fresh command is queued; the guard judges from a
status that may be from before its goto. *Correct when*: the manual flag is never raised with nobody
left to lower it, a jogging robot stops when the commands cease, a wait ends.

**Last node tracking** (9825-10244). *State*: `_last_node_id` and `_last_node_sequence_id`, which
the order engine prunes by. *Operations*: on every pose, release a last node that an idle robot has
left, seed an empty one with the nearest node, capture by one of three modes. *Hard*: it runs
between any two awaits of the order engine, and seed and `proximity` do not look whether an order is
active. *Correct when*: an update never prunes by a place that the robot has not reached.

**JIBOT client** (`jibot-client/.../client.py`; 780-822). *State*: one socket, the task that reads it,
the flag `_running`, one response queue for everybody, the adapter's supervisor
(`monitor_jibot_connection`). *Operations*: open and log in, read a frame, a call that sends a command
and takes responses off the queue until its own comes, its timeout or cancellation, the reconnection.
*Hard*: a receive task may end after the next socket is open; a call holds the frames it skipped and
puts them back; frames carry no request number. *Correct when*: a link that counts as up is read, no
frame is lost or delivered twice, a link that is down is opened again.

**SEER runtime control** (`runtime_mailbox.py`, `dropin_control.py`, `control.py`,
`io_cache.py`): who owns the robot, and a mailbox of files between processes.

**SEER docking** (`docking_action.py`, `seer_docking/`): closed-loop control on camera and
lidar. **SEER block programs and recipes** (`block_program.py`, `recipe_builder.py`): an editor
and its compiler.

**PIO handshake** (`extensions/pio`, `utils/pio.py`, `utils/ezi_io.py`). *State*: the lines of an
I/O board on UDP (SELECT and outputs one way, GO and inputs the other), a serial port for the BC
frame. *Operations*: `pioInit` pairs with a facility, `pioScenario` runs outputs, inputs, delays,
branches and blinks and releases the facility, `pioDisconnect`, `pioPing`. *Hard*: each exchange may
be refused, time out or be cancelled while a line is high; the release runs in a `finally`. *Correct
when*: no line stays high, a facility is released or the adapter says that it was not, FINISHED is
true of the facility.

**Recipes** (`extensions/recipes`, `core/motion_primitives.py`, `core/action_bridge.py`). *State*: a
body of steps with retries, a cleanup, deadlines; tables of the children that have been generated and
of those to complete. *Operations*: run a child, wait for its report, stop and reap it when it times
out, hold, clean up, be cancelled by the owner. *Hard*: a child that timed out reports while the next
one runs; the owner cancels during the cleanup. *Correct when*: children take turns, the cleanup runs
in full, FINISHED is earned.

**State actions** (`core/state_actions.py`, `core/runner.py`). *State*: the observed state, a queue, one
worker, the active entry with its start action. *Operations*: observe, leave (cancel and await the start
action, then the end action), enter. *Hard*: states change faster than actions end; a worker ends
between two reports. *Correct when*: actions do not overlap, each entry is left once, the state that
lasts is entered.

**Clamp, EziIO and facility extensions**: device drivers behind the action registry. **Elevator and air
shower** (`utils/elevator.py`, `utils/airshower.py`): door protocols, which recipes of PIO scenarios
carry out as well.

**VDA5050 messages and transport** (`protocol/vda5050_3_0`, `utils/mqtt_client.py`),
**configuration**, **web user interface**, **process control**, **simulators** and the **legacy
SAM display** hold no protocol of their own, or none that a state machine says more about than
their tests.

### How they interact

```
ACS --MQTT--> MQTT thread --call_soon_threadsafe--> adapter loop
                                                      |-- order engine (worker task) --+
                                                      |-- instant actions -------------+--> client
                                                      |-- loss guard (timer, 2 coroutines)   |
                                                      `-- telemetry callbacks <-- receive task / poll task
```

The order worker and the guard share the robot: both send motion commands, and only the guard reads
`_motion_paused`. The stall guard, the manual drive and the charge stop move or stop the same robot
beside them. Recipes, PIO actions and charging run as actions of an order point or as instant
actions, in tasks that `cancelOrder` cancels. The worker, `cancelOrder` and the intake share the
order state. Every command of a SEER robot goes through a port whose lock all of them share.

## 2. The modules

| module | models | proofs |
| --- | --- | --- |
| `OrderEngine` | intake, queue, worker, restart, crash, `cancelOrder` | `OrderEngineProofs` |
| `ActionScheduler` | blocking types, background actions and their cancellation | `ActionProofs` |
| `PauseGuard` | loss guard, `startPause`, `stopPause` | `PauseGuardProofs` |
| `RemoteCall` | what a request to the SEER controller promises | |
| `SeerConnection` | one SEER port; implements `RemoteCall` | `LinkProofs` |
| `JibotClient` | socket, receive task, response queue and supervisor of the JIBOT link | `JibotClientProofs` |
| `NodeMotion` | node wait, stall guard, manual drive, pause, joystick | `NodeMotionProofs` |
| `ActionTask` | what the task of an action promises to the one who may cancel it | |
| `RecipeRun` | one run of a recipe; implements `ActionTask` | `RecipeRunProofs` |
| `StateActions` | publisher, queue, worker and lifecycle actions, which are as `ActionTask` says | `ActionProofs` |
| `DockCharging` | dock, handover to the relay hold, charge stop, charging actions | `DockChargingProofs` |
| `PioLink` | PIO pairing, scenarios, disconnection and ping | `LinkProofs` |
| `MC...` | instances for TLC | |

`RecipeRun` and `StateActions` meet in `ActionTask`: the one is shown to keep it, the other relies
on nothing else about the actions it starts and cancels. `ActionProofs` holds the proofs of
`ActionScheduler` and of `StateActions`, one after the other: both run tasks of actions, they share
no variable, and the names they have in common begin with `State` in the latter. `LinkProofs` holds
those of `SeerConnection` and of `PioLink`: both speak to a device over a link on which a reply may
be late or lost, and the names they have in common begin with `Pio` in the latter. What the other
modules share is one `await`: the drive of `OrderEngine` is what `NodeMotion` and `DockCharging`
open up, its actions are what `ActionScheduler`, `RecipeRun` and `PioLink` open up.

Conventions. A coroutine, task or thread has a program counter that names the await it is in; an
action takes it from there to the next await, with everything the code does on the way. In
`OrderEngine` and `PauseGuard`, where the order of callbacks matters, the loop's ready queue is
a sequence and only its head is run; a coroutine in one of the labels of `Sync` is in the middle
of a stretch without an await that the model splits into several actions, and nothing else runs on
the loop until it leaves it (`LoopFree`). The MQTT thread is not bound by this. Definitions whose
name ends in `Fault` are plausible bugs of the definition beside them; no action uses them. They
are the changes under which each property is known to fail.

### OrderEngine

| model | code |
| --- | --- |
| `ready` | callbacks posted to the loop, in order: messages, first steps of tasks, done callbacks |
| `nodes`, `edges`, `released`, `status` | `state.node_states`, `edge_states`, their `released`, `action_states` |
| `queue` with `requeued` | `order_queue`: as a rebuild fills it (ordered by sequenceId), and the steps put at its tail later |
| `worker`, `pc`, `step`, `cancelling`, `waiters` | `order_worker_task`, where each task is, the step it holds, `cancel()` called and not delivered, restart callbacks attached |
| `currentStep`, `inFlight`, `runStep` | the three fields that `_active_order_worker_step_is_obsolete` compares |
| `dispatched` | `_dispatched_order_action_ids` |
| `visited`, `demanded`, `baseline`, `runs` | history, read by properties only |
| `ReportPose` (`Released`, `Seeded`, `Captured`) | `_update_nearest_node_from_position`: what a pose does to the last node, at any time, with or without an order |
| `HandleOrder` (`AcceptOrder`, `UpdateOrder`) | `_handle_v3_order` with `_accept_v3_order_for_queue` and `_update_v3_order_for_queue`, prune, merge, rebuild and schedule included |
| `StartTask`, `PostRestart`, `Restart` | `_schedule_v3_order_worker`: the guard on the live task, the cancellation of an obsolete one, the restart chained to its end |
| `TakeStep` ... `ClearStep` | `_process_v3_order_queue` and `_process_v3_order_step`, one action per await |
| `Crash`, `CrashDrop` | `_on_done` and `_drop_order_after_worker_crash` |
| `ReceiveCancel` ... `CancelEnd` | `cancelOrder`: orderId captured on the MQTT thread, worker cancelled, background actions awaited, standstill awaited, state cleared |

Data. An item is its sequenceId; a route maps nodes to places, so that a place may be on two
orders or on both ends of one. Each item owes at most one action, of type `PAR` (scheduled in the
background) or `STOP` (awaited with the vehicle stopped). Driving to a node is one await that ends
in arrival, failure or an exception, whichever primitive the code uses. What several actions of an
item do to each other is `ActionScheduler`. `May` is the set of
`Liberties`: things that the code meets in the field and that a disciplined fleet manager avoids.

The last node. `pos` is where the robot stands, `NoPlace` while it is between places; a pose from
there may be nearest to any place. Distances are a choice: a robot that has left its last node may
or may not be beyond the release distance, the nearest node may or may not be within the gate of the
seed or the reach of the capture. Releasing comes first, then the seed, then the capture
(10197-10236). `Capture` is `last_node_capture_mode`, `Seeding` is
`use_nearest_node_as_last_node_when_missing`. The nearest node gives the highest sequenceId it has
in the order, active or not, or 0 (9985-10017). In `settled` mode a robot without an active order is
released and captured; the seed and the mode `proximity` write in an order as well. `order_live` has
the deployed configuration, `settled` with the seed (`adaptor/config/config.toml` 62-63; without the
seed it is the default of `config.py` 238-242); `order_any` has `proximity` with the seed.
`MoveByHand` is external: somebody moves an idle robot, and the poses that follow do the rest.

What the fleet manager is taken to do when `May` is empty. It sends a new order when the state says
that the last one has ended, from the node where the robot stands and which it reports. A robot that
reports no `lastNodeId` gets none: it reports the critical error LAST_NODE_ID_MISSING (3005-3060),
which is also what the seed is there to end. An update carries on from the base. Nothing is sent
while a `cancelOrder` is RUNNING, nor between the crash of a worker and its callback. And nobody
moves the robot while an order is on its way to it.

### ActionScheduler

The worker comes to point after point, and each point has a list of blocking types chosen on
arrival; points are numbered across orders. An action is `<<p, i>>`, the foreground sequence of a
point `<<p, -1>>` and its background sequence `<<p, 0>>`; all three kinds are tasks with a state in
`task`. `frame` holds the locals of a sequence: which await of `_execute_order_action_sequence` it is
in, its entry, the tasks it awaits (`wait`) and those it will await later (`prior`). `Stretch`
creates all tasks up to the next SINGLE or HARD entry in one step, since the code does not await in
between; `StartExclusive`, `EndBackground` and `EndForeground` are what follows the other awaits;
`EndCancelled` is the CancelledError that `gather` passes on. A task that is cancelled ends some time
later. What an action does is one await: a failure is caught by `_execute_order_action` and ends it as
success does. `residual` is the motion of a goto that is still ending when its node counts as reached.
`May` has two liberties: cancelOrder while the worker awaits SOFT actions beside untracked NONE ones,
and a next order while cancelOrder is still being handled.

### PauseGuard

`link`, `ever`, `timer`, `paused`, `byLoss` are the attributes of the adapter; `client` is the
position of the MQTT thread inside `_on_acs_broker_change`, whose three statements interleave with
the loop. A coroutine runs `_pause_for_mqtt_loss`, `_resume_after_mqtt_recovery`, or one of the two
instant actions; a command takes effect at the robot some time before its answer wakes the
coroutine. The lock is the sequence of its holder and those who wait. `Seer` selects the handlers of
`bridge.py`, whose `stopPause` clears `_motion_paused` and not `_paused_by_mqtt_loss`. The order
worker is reduced to `Dispatch` and `Arrive`.

### RemoteCall and SeerConnection

`RemoteCall` is the contract, with two variables: where a call is for its caller, and how often
the controller has performed it. A call is performed at most once; never when it was refused; it is
answered only when performed; a call that failed otherwise may have been performed, and may still
be. `SeerConnection` has the coroutines, the lock (held by whoever is in a label of `Holding`), the
stream in use, and every stream ever opened with what is under way on it in both directions. The
refinement maps `pc` to the caller's view (`CallOf`) and keeps `executed`.

The controller and the network are outside `src/` and modelled by what the code must cope with:
the controller reads a stream in order, answers each request once or answers garbage, the bytes of
a stream that ends may be lost or arrive. Over-approximations: the lock is granted in any order,
and any open stream may break at any time. Not distinguished: response types (an unexpected type
fails as an unexpected sequence does), and the per-port spacing of requests is a wait of any length.

### JibotClient

`session` counts the sockets, `reader` has the receive task of each, `writer` the stream in use and
`running` the client's flag. `queue` is the response queue; `waits` has, for each call, the request it
waits for and the frames it has taken off the queue and not found its own. `wire` and `inbox` are the
link in both directions. `Supervise` is one pass of the supervisor between two of its awaits: cancel
the reader, await it, close, open, log in. A frame is its number and its command, since that is all a
call compares. `received` and `answers` are history.

### NodeMotion

`jobs` is the queue of coroutines that the handlers of instant actions leave for the loop; `active` is
`_manual_drive_active`, `watchdog` the handle and `strays` timeouts that fired when their handle was
forgotten. `worker` is where the worker of `_process_v3_node_step` waits, `seen` is the polled
status, `motion` what the robot does. The stall timer has three values (none, running, over). `World` is
whatever ends without the adapter: an arrival, an obstacle that goes away, a hand that lets go.

### ActionTask, RecipeRun and StateActions

`ActionTask` has one variable, the stage of a task: queued, body, cleanup, done, or dropped before it
began, or torn out of its cleanup. `RecipeRun` follows `execute_recipe` await by await: `phase` says in
which await a step is, `generated` and `completions` are the adapter's tables of completion futures,
`rolling` and `stopped` are the children's tasks. A child reports at any time, also after its timeout.
`StateActions` has the workers (a second one exists only if one is created beside another), `place` as
the states in the order in which they were entered and `startTask` as the stage of each start action.

### DockCharging

`mode`, `relay` and `deaf` are the robot's (a robot in ModeCharge may ignore its first UmStop, which
is why the code sends two); `seen`, `fresh` and `sampled` are the adapter's view: the charging flag,
whether bytes arrived, and (for `HeldIsObserved` only) whether a status did. `hold` is the relay
hold. `pc` has the awaits of the order worker and of the one instant action. `polls` counts the two
budgets of the dock wait. The charge circuit and its handover are enabled, as in the deployed
configuration.

### PioLink

A task has one frame that walks through the awaits of its action; its outcome is carried through the
`finally` blocks on the way out, which are awaits like others. `select`, `lit`, `port` are the lines
and the serial port; the facility (`heard`, `paired`, `go`, `input`) is external and modelled by
what the code says of it: it pairs on a BC while SELECT is high, parts when SELECT is lowered
without one. `mode` is the configuration of the pairing, `late` a reply in the serial buffer, `echo`
a reply of the I/O board that nobody awaits. One output and one input stand for eight of each. The
elapse of a time limit is a choice. A scenario is any sequence over `Steps`; a step of a kind the
adapter does not know fails it, as in the code.

## 3. What the runs check

| run | question | bounds |
| --- | --- | --- |
| `order_any` | `SingleWorker`, `ActionAtMostOnce`: with every liberty | two orders that shuttle between two places, two messages of up to two nodes, one `cancelOrder`, two tasks, `proximity` with the seed |
| `order_live` | `NoReturn`, `NothingSkipped`, `QueueHasWorker`, `NoOrderNoMotion` with a fleet that keeps to the rules; `EdgeHeldUntilPassed` with coalesced runs broken by a blocking action on an edge; `OrderSettles` | three places in sequence, three messages of up to three nodes, continuous path control, `settled` with the seed |
| `actions_any` | `ExclusiveInTurn`, `StandsStill`, `CancelReachesAll`, `CancelStaysInOrder`, `ActionsEnd` | three points, four lists of two actions, no liberty |
| `guard_any` | `RecoveredIsResumed`: with operator, failures and a busy worker | SEER handlers, three coroutines, four link events, two operator actions |
| `guard_live` | `LostLinkIsWatched`, `PauseEndsWithLoss`, `LossEndsInPause`: the guard on its own | JIBOT handlers, four coroutines, five link events |
| `seer_port` | `OwnAnswer`, `KeepsPromise` (the refinement), `CallsReturn` | three requests, two streams, sequence numbers of one bit |
| `jibot_any` | `LinkUpIsRead`, `FrameInOnePlace`, `LinkRecovers` | two calls, two requests, three frames, four sockets, two faults |
| `motion_any` | `FlagIsWatched`, `JogStops`, `NodeWaitSettles` | one retry of the goto, two instant actions of the operator, two troubles on the way, drives that fail |
| `recipe_any` | `CleanupRunsInFull`, `FinishedIsEarned`, `OneChildDrives`, `RecipeEnds`, `KeepsPromise` (the refinement) | two steps and two cleanup steps, one retry, the last cleanup step without a cancel handler, two cancels |
| `state_any` | `EndFollowsStart`, `LeftOnce`, `LastStateEntered` | three states, five changes, no liberty |
| `dock_any` | `HoldHasOwner`, `PromisedIsCharged`, `DockEnds` | budgets of two polls, four messages, four instant actions, four routes to and from the charger, no liberty |
| `pio_any` | `LinesFall`, `FinishedIsTrue`, `ReleasedOrTold` | three actions of eight kinds, three modes of pairing, two polls within a time limit, two cancellations, no liberty |

What is not in a run although it is stated: the type invariants, `GuardSerialized`,
`NotLostBeforeFound`, `TimerMeansLost`, `CleanBoundary`, `NothingLeftBehind` and `DownByOwnReader`
are theorems (section 5) and hold for every value of the constants. `OperatorPauseHolds`,
`CleanupAlwaysRuns` and `HeldIsObserved` state what the documentation says and the code does not
keep (section 4).

Why the bounds are enough. Two tasks are what it takes to have a second worker: `StartTask` needs a
free identity, and with a third one the first violation would already be there with two. Three
messages give an order, an update that races it and a second update or a new order that races both;
three nodes give a base, a horizon and a node behind the robot. In `PauseGuard` five link events
give up, down, up, down, up: a loss during the resumption from a loss. A coroutine pool of four is
never exhausted in `guard_live` (a smaller one would delay a callback, which the code cannot), so its
liveness does not come from a missing identity. Three requests with a one-bit sequence number make
the third request carry the number of the first, which is the wrap of the 16-bit number in little;
two streams are one abandoned and one in use. A run that ends has stopped because a bound was
reached, so deadlock is not checked. In `actions_any` three points are a background action, one that
waits for it, and one that must not overtake the second; its four lists bring every pair of blocking
types together, within a point or across points, but SOFT with SOFT, which are independent.

In `jibot_any` four sockets are the first one, one lost to each fault, and one after a failed
login. In `motion_any` two instant actions are a drive and what races its watchdog; one retry shows both
branches of the escalation. In `recipe_any` a cancel strikes the body and one more the cleanup; two
cleanup steps make one that is cut off before the other began. In `dock_any` four instants are start,
stop and two charges in place around an order. In `pio_any` three actions are one that leaves a pairing
behind, one that inherits it and one that ends it.

The liberties that leave a property of `order_live` without its ground are known, each from a run of
TLC with that liberty alone. `irregularUpdate` (an update that does not carry on from the base)
breaks `NothingSkipped` and `QueueHasWorker`, `blindSend` (a message sent before the state shows
what became of the last one) breaks `QueueHasWorker`, and so do `orderDuringCancel` and
`slowCleanup`: in the latter `cancelOrder` ends while the worker it cancelled still cleans up, the
next order is accepted, and its schedule is skipped because that worker is alive. `startAnywhere`
and `moveByHand` break `NothingSkipped`, with the seed also `EdgeHeldUntilPassed`, and so does
`orderDuringCrash` with sequenceIds up to 6: the update of an order that a crash has dropped is
accepted as a new one under way, with the last node seeded from a robot between two nodes.
`orderDuringCancel` breaks `NoOrderNoMotion`. Without any liberty, `proximity` breaks
`NothingSkipped` and `EdgeHeldUntilPassed`; `disabled`, and `settled` without the seed, break
nothing.

One excuse is part of the model and not of `May`. The end of an obsolete worker posts the restart of
the next one (4508-4510), and a restart looks only for a live worker: when it runs after another
worker has been made and has failed, crashed or ended, it starts one on a queue that nobody was to
work on. The history variable `lateRestart` records that; all properties of orders but
`SingleWorker` and `ActionAtMostOnce` are about the behaviours before it. On the real loop the
posted restart runs in the next iteration, and a drive that fails before it is a matter of the
model, which lets a step fail at any time.

The properties of `order_live` were also tried on larger instances before they were proved: four
messages with three updates up to sequenceId 6, blocking and parallel actions on nodes and edges
with a `cancelOrder`, continuous path control with a cancel, and the invariant of section 5 that
carries `QueueHasWorker` on 1.8 million states with two cancels and four messages. In
`ActionScheduler`, `cancelDuringSoft` breaks `ExclusiveInTurn` and `CancelReachesAll`, and
`orderDuringCancel` breaks `CancelStaysInOrder`: the next order's worker awaits a task that is being
cancelled, and its CancelledError ends the worker. What the liberties of the other modules break,
and which of them contradict what the code says of itself, is section 4.

Fairness. The loop runs what is ready, a timer expires, a command to the robot is answered or times
out: weak fairness of those actions. The fleet, the operator, the link, exceptions and cancellations
owe nothing. In `OrderEngine` the drive to a node and an action owe no end either (`WorkerWorks` has
no fairness). The wait for arrival at a node where the robot settles has no timeout, by design, and
goes on when the stall guard has given up and reported a fatal error (5938-6002); the wait for a
waypoint that is passed ends with a failed step (6919). A blocked robot may therefore keep its order
for ever, and `OrderSettles` says so: an order that is released and does not move on has a worker
that is driving or acting for it. What must not happen is an order that stands still with nobody at
it, except after a failed step, which goes back to the queue while the worker ends (4572-4583); that
case is excused, since nobody promises to try again. What is assumed to end is a stop of the vehicle
before a blocking action, which waits for standstill no longer than `standstill_timeout_sec` (10 s
by default; the configured value 0, which waits for ever, is not modelled). `ActionScheduler`
assumes of every action that it ends (`ActionsEnd` is about the scheduler's own waits). In
`SeerConnection` the controller and the network owe nothing at all: `CallsReturn` rests on the
timeout of the request and on the end of `open_connection` and `wait_closed`, which the operating
system bounds and the code does not. `JibotClient`: the supervisor's passes and a cancelled reader
run, and the robot comes back to the network in the end, without which no link can recover.
`NodeMotion`: the loop's jobs, timers and polls run, and whoever holds the robot (a joystick, an
obstacle, a motor that is off) lets go of it; a pause need not end, so that `NodeWaitSettles`
excuses a paused robot. `RecipeRun`: every step has a time limit (the code accepts 0, which waits
for the child without one: that is outside the model); what is ready runs and a cancelled child's
task dies; a child owes neither a beginning nor a report. `StateActions`: the workers run, and the
action of an entry that is being left ends; a start action that is not cancelled may last for ever.
`DockCharging`: statuses arrive and the loop's waits are polled; the robot owes neither arrival nor
charge. `PioLink` states no fairness: its waits are bounded by time limits, which the model leaves
to choice.

## 4. Where the code and its documentation part

The runs check the code under the surroundings in which it keeps its properties. The constant `May` (a
set of liberties) widens them; each liberty below is something the code can meet. To see one, add it to
the `May` of the named configuration and keep the named property: TLC prints the behaviour.

Orders, guard and actions:

- `Capture = "proximity"` breaks `NothingSkipped` and `EdgeHeldUntilPassed` (`order_live`), and so
  do `moveByHand` and `startAnywhere` in `settled` mode with the seed on. Pose telemetry writes
  `lastNodeId` with the sequenceId that the nearest node has in the order (10134-10139,
  10204-10228), although the robot has only come near it; the next update then prunes the nodes and
  edges up to it (4250-4263, 4331). The mode is meant to be order-agnostic (`config.toml` 60) and is
  not deployed; 4373-4375 does not reckon with it. With `settled` the seed needs an empty last node
  during an order, which needs a robot that was sent an order without reporting one, or was moved
  between the message and its acceptance.
- A step that fails goes back to the queue and the worker returns (4572-4583). No code starts it
  again: the order stays active and stands still until a message comes, as `OrderSettles` allows.
- `startAnywhere` breaks `NothingSkipped` (`order_live`) without the seed, too. An order that does
  not contain the last node keeps the sequenceId of the order before. An update that arrives before
  its first node is reached compares new items with that stale number (4331-4334) and drops nodes,
  although 4373-4375 says that a number carried over from an earlier order must not skip nodes.
- `orderDuringCancel` breaks `NoOrderNoMotion` (`order_live`). `cancelOrder` cancels the worker,
  then awaits standstill. An update of the same order accepted meanwhile starts a new worker, and
  the order is then cleared under it: the robot drives for no order, and `cancelOrder` reports
  FINISHED (9249-9256).
- `operator` breaks `OperatorPauseHolds` (`guard_live`, `MaxOperator` = 1). The guard checks
  `_motion_paused` before its stop command and claims the pause after it. A `startPause` that ends in
  between becomes the guard's pause, and the reconnection undoes it, which 425-426 and
  `tests/test_mqtt_disconnect_stop.py:148` exclude.
  The SEER `stopPause` moreover leaves `_paused_by_mqtt_loss` set (`bridge.py` 503), and the next
  `startPause` is taken for a pause of the guard (`guard_any`).
- `operator` breaks `LostLinkIsWatched` (`guard_live`). `stopPause` awaits its goto and then clears
  `_motion_paused` without looking at the link. A grace timer that expired in between found the robot
  paused and is spent: the robot drives without a broker, which 1095-1097 describes and prevents for the
  guard's own resumption.
- The order worker never reads `_motion_paused` (`dispatchDuringPause`). When the robot is paused while
  an action runs, the worker sends the goto of its next node afterwards (6903), though 8168-8169 says
  that it keeps waiting on the current node.
- `cancelDuringSoft` breaks `CancelReachesAll` and `ExclusiveInTurn` (`actions_any`). NONE actions
  of the foreground are tracked only after the SOFT ones beside them have ended (4767). A
  `cancelOrder` in between cancels the SOFT actions and the tracked tasks, and the NONE action runs
  on, known to nobody: an exclusive action of the next order starts beside it (4757-4758 and 368-370
  say that it waits).

Recipes and state actions:

- `CleanupAlwaysRuns` of `RecipeRun` (a recipe whose body began runs its whole cleanup) fails with
  one cancel during the cleanup: the step that runs is shielded, the ones after it and the
  forgetting of the completions are not. `extensions/recipes/__init__.py:1` and 154 promise that the
  cleanup always runs. What the owner can rely on is `KeepsPromise`: the cleanup runs in full, or
  the owner cancelled the task while it cleaned up.
- `observeBeforeCallback` breaks `EndFollowsStart` and `LeftOnce` (`state_any`). The worker finds
  the queue empty and returns; the loop runs its done callback later. A state that is observed in
  between finds `_worker` done and creates a new one (`state_actions.py:51`), and the callback,
  which only looks whether the queue is empty (56-58), creates another: two workers on one queue,
  though the class serializes its callbacks (27).

Link, motion:

- `stopBeforeDrive` breaks `FlagIsWatched` (`motion_any`). `manualStop` lowers the flag in its
  handler on the MQTT thread (7413-7433) and cancels the watchdog in its coroutine on the loop; with
  a drive still in the queue the drive raises the flag afterwards and its watchdog is cancelled. The
  flag then stays up, and the stall guard and the capture of the last node stay off.
- `JibotClient` needs no liberty for these, which no property forbids: frames carry no request
  number, so a response left by a call that timed out answers the next call for that command, and an
  error frame from before a goto was sent is taken for the rejection of that goto (573); two calls
  that wait hold each other's responses until they put them back; the queue is unbounded, and what
  nobody waits for stays.

Charging:

- `otherFrames` breaks `HeldIsObserved` and `HoldHasOwner` (`dock_any`).
  `_wait_until_charge_relay_holds` counts a sample as new when any bytes have arrived on the link
  (6678; `client.py:1115`), but the charging flag it then reads changes only with a response to
  UmGetRobotInfo (`client.py:1156-1159`). Two other frames after the first UmStop confirm the
  handover with the flag from before it; `since` is moreover taken before the UmStops (6563). The
  step ends FINISHED with the relay open and nobody charging. 6645 says that only samples that newly
  arrived after the UmStop decide, 6647-6650 that a cached value must not,
  `tests/test_dock_charge_handover.py:251` that without a new sample a cached charging is no
  success.
- `staleStatus` (the first look of the dock wait takes a flag from before the dock command) and
  `fullBattery` (the charge ends of itself) break `PromisedIsCharged`.
- `dockAtCharger`: an order that docks a robot already at the charger. Its acceptance releases the hold
  (4056), a flag that is not refreshed yet says charging, the dock is skipped as done, and nothing
  charges: `PromisedIsCharged` fails. The deployed rule for `01_01CH` applies from every direction, so
  such orders exist.
- `updateDuringDock` breaks `HoldHasOwner`: an update makes the step obsolete (4386, 4505) during the
  handover and the successor's step is another. `instantDuringOrder` breaks `PromisedIsCharged`:
  `stopCharging` or `chargeInPlace` beside a handover.
- After a cancel during the handover, or a start in place in ModeCharge, the robot may stay in
  ModeCharge while a goto follows or `stopCharging` reports FINISHED, contrary to 5710 and
  8430-8439.

PIO (all in `pio_any`):

- `cancelUnguarded` breaks `LinesFall` and `ReleasedOrTold`: a cancel in the `finally` of a pairing,
  between the two commands of `pio_unpair`, which has no `finally` (672-682), or in the last write of a
  blink (1130). With SELECT held, the command that raises it and the sleep after it stand before the
  `try` (326-328), though 323-325 says that it is always released.
- `offFails` breaks the same two: `pio_pair` passes over an exception of the command that lowers SELECT
  (286-290).
- `silentBoard` breaks all three: `EZIIOClient._send` returns None for a command that was not
  answered, which counts as done, and `bool(None)` counts as GO being low (295-304, 779), though
  `pio_release` says of itself that it is not silent.
- `lateReply` and `lateEcho` break `FinishedIsTrue`: the serial buffer is not emptied before a BC
  and the reply's station is not compared; the I/O board's reply to a cancelled request answers the
  next one, since the number it carries is not compared and only a timeout closes the socket.
- `overlap` (two PIO actions at once) breaks `ReleasedOrTold`.
- No liberty needed, no property about it: `pio_init` is outside the scenario's `try`, so a pairing that
  was heard and then failed or was cancelled is not released, though 1218-1220 calls the two symmetric;
  `pioPing` unpairs a facility that an earlier `pioInit` had paired and lowers outputs that were on; an
  output whose read-back fails stays on; a cancelled release leaves the port open; `send_bc` blocks the
  whole loop for its waiting time of two to five seconds.

## 5. What is proved

TLAPS proves these theorems for every value of the constants that satisfies the module's assumption
(each names what kind of value a constant is, no more). Where a theorem needs that the surroundings
keep a rule, the rule is a hypothesis of the theorem and the table names it: "without" a liberty
means that it is not in `May`, "a fleet that keeps its rules" that nothing is in `May` but
`slowCleanup`, and that the capture mode is `settled` or `disabled`, with the seed or without
(`Disciplined`). Section 3 says which liberties break the property.

| theorem | states |
| --- | --- |
| `OrderEngineProofs!TypeCorrect` | `TypeOK /\ StepHeld` |
| `OrderEngineProofs!OneWorker`, `NoSecondDispatch` | `SingleWorker`; `ActionAtMostOnce` |
| `OrderEngineProofs!NoOrderStandsStill` | `NoOrderNoMotion`, without `orderDuringCancel` |
| `OrderEngineProofs!NeverTurnsBack`, `NothingIsSkipped`, `EdgesAreHeld` | `NoReturn`; `NothingSkipped`; `EdgeHeldUntilPassed`: with a fleet that keeps its rules |
| `OrderEngineProofs!QueueIsServed` | `QueueHasWorker`, without liberties and without `proximity` |
| `PauseGuardProofs!TypeCorrect`, `Serialized` | `TypeOK`; `GuardSerialized` |
| `PauseGuardProofs!NeverLost`, `NoTimerLeft` | `NotLostBeforeFound`; `TimerMeansLost` |
| `PauseGuardProofs!RecoveryFollows` | `RecoveredIsResumed` |
| `PauseGuardProofs!LossIsWatched` | `LostLinkIsWatched`, without an operator and without failing commands |
| `LinkProofs!TypeCorrect`, `BoundaryIsClean`, `AnswersAreOwn` | `TypeOK`; `CleanBoundary`; `OwnAnswer` |
| `LinkProofs!Implements` | `Spec => Promise!Spec`, the refinement of `RemoteCall` |
| `LinkProofs!PioTypes` | `PioTypeOK`, under every liberty |
| `LinkProofs!HandshakeIsTrue` | `FinishedIsTrue`, without `silentBoard`, `lateReply` and `lateEcho` |
| `LinkProofs!LinesAreLowered`, `FacilityIsReleased` | `LinesFall`; `ReleasedOrTold`: without `overlap`, `cancelUnguarded`, `offFails` and `silentBoard` |
| `JibotClientProofs!TypeCorrect`, `UpMeansRead`, `FrameNeverLost` | `TypeOK`; `LinkUpIsRead`; `FrameInOnePlace` |
| `JibotClientProofs!OnlyItsReader` | `DownByOwnReader`, an action property |
| `NodeMotionProofs!TypeCorrect`, `FlagNeverForgotten` | `TypeOK`; `FlagIsWatched`, without `stopBeforeDrive` |
| `RecipeRunProofs!TypeCorrect`, `CleanupIsComplete`, `FinishedIsTrue` | `TypeOK`; `CleanupRunsInFull`; `FinishedIsEarned` |
| `RecipeRunProofs!TablesAreEmptied`, `ChildrenTakeTurns` | `NothingLeftBehind`; `OneChildDrives` |
| `RecipeRunProofs!RunKeepsPromise` | the refinement of `ActionTask` |
| `ActionProofs!ActionTypes`, `RobotStands` | `TypeOK`; `StandsStill`: under either liberty |
| `ActionProofs!TakesItsTurn` | `ExclusiveInTurn`, without `cancelDuringSoft` |
| `ActionProofs!CancelKeepsToItsOrder` | `CancelStaysInOrder`, without `orderDuringCancel` |
| `ActionProofs!CancelReaches` | `CancelReachesAll`, without the two |
| `ActionProofs!StateTypes` | `StateTypeOK`, without liberties |
| `ActionProofs!EndsAfterStarts`, `LeftExactlyOnce` | `EndFollowsStart`; `LeftOnce`, without liberties |
| `DockChargingProofs!TypeCorrect` | `TypeOK`, under every liberty |
| `DockChargingProofs!HoldIsOwned` | `HoldHasOwner`: if every frame is a status, the charge does not end of itself, and neither an update nor an instant action interferes |
| `DockChargingProofs!PromiseIsAnswered` | `PromisedIsCharged`, without liberties |

The arguments.

*One worker.* Every action moves the workers in one of three ways (`WorkerMove`): not at all, a live
task to another label, or a new task when the known worker is dead. `StartTask` is the only place
that makes a task and it checks the known worker first; since every live task is the known one, there
is no other. This theorem needs no invariant on the ready queue: the restart callbacks may be as many as
they like.

*No second dispatch.* `runs[s] <= 1` becomes inductive with "a dispatched item is in `dispatched` and
one that is not has no run". Updates and restarts leave the memory alone; only the end of the order
clears it, together with the history.

*No order, no motion.* `TaskInv` relates the tasks to the order. `SyncInv`: a task is cancelled
where it awaits, never inside a stretch. `StartInv`: a first step is queued once and its task waits
for it; while the done callback of a worker that raised is queued, no worker has got further.
`CancelInv`: `cancelOrder` is queued once, behind the orders that came before it, and no order is
queued once it has run. `HeldInv`: while `cancelOrder` awaits, no task works that is not being
cancelled, and one that holds a step belongs to an order that is there. The last one fails under
`orderDuringCancel`.

*The order and its numbers.* `OrderInv` relates the queue, the state, the position and the last
node. `MessageInv`: a message under way still fits the order and the last node that it will find,
because the fleet sends nothing in between, and neither a pose nor a hand changes the last node of a
robot that stands at it. `RouteInv`: what was demanded has no gap, what was reached lies at or
behind the last node and what is to do does not. `LastInv`: the last node is a node of the order,
with its number there, and the order is done with it; it is therefore not empty, which is what keeps
the seed away from it. `TrackInv` asks for this only while the order is active: an order that has
ended leaves its history to the poses, which may write any place, and `DoneInv` keeps what remains
to be said of it. `StandInv`: an order with no node left ahead of the last one finds the robot
standing there and has nothing left to drive. `QueueInv` and `HolderInv`: what is queued and what a
task holds is ahead of the robot, and a worker that drives has no node before its own. `OrderlyInv`:
no node is left out between what is done and what is queued. `NoReturn`, `NothingSkipped` and
`EdgeHeldUntilPassed` each follow from it in a few lines; it is one invariant because an update
merges what all of its parts speak of. A pose keeps it for one of two reasons: an active order lets
it write nothing (`ReportKeeps`), or no order is active and nothing is claimed of the last node but
that it is one. `proximity` takes away the first.

*A queue has a worker.* `ServedInv` joins the two and adds three facts. `FirstStepInv`: the first
step of a new task is in the ready queue, ahead of every order that does not update the one in
progress. `AheadInv`: for each step that is queued or held, a node at or ahead of it is still to do,
so that an order with work left is never taken for finished. `FollowedInv`: for each task that was
cancelled there is somebody who will look at the queue when it has ended, a restart callback
attached to it or a `cancelOrder` that clears the queue. `QueueHasWorker` is inductive with them.

*Action scheduling.* A step is of one of four kinds (`Kinds`): something winds down (`Winds`: tasks
end or are cancelled, none begins), a runner makes the tasks of a stretch (`Stretches`), it starts
an exclusive action (`Starts`), or the worker ends its runner or begins one (`Opens`). Each
invariant is shown kind by kind, so that eighteen actions make four cases. `AwaitInv`: an action
that runs is awaited by its runner, unless it is a NONE one that the foreground has left behind;
with the place of the worker this carries `StandsStill`. `TrackInv` says what is tracked,
`RunnerInv` which entries a runner has made, each once and in turn, `WaitInv` whose tasks a runner
awaits; they hold under either liberty. `ExclusiveInTurn` compares an action with all that is
unfinished ahead of it, at earlier points and in earlier orders, and is not inductive by itself:
what is ahead and unfinished must be awaited *now or later* by the one that is behind (`CoverInv`),
and what runs must be awaited, tracked or owned by a live runner (`StrayInv`), or the next runner
would not learn of it. `cancelDuringSoft` breaks exactly `StrayInv`. When the runner of an action
has ended, nothing is left to cover it, so that `TurnInv` keeps for its NONE actions what `CoverInv`
said before. For cancellation, `CancelInv`: what is being cancelled belongs to a `cancelOrder` that
still awaits it or to the worker's foreground, no runner is live meanwhile, and one that is live has
nothing cancelled before it; `ReachInv` adds the actions, which are reached since each is awaited or
tracked.

*The guard.* The type invariant carries the discipline of the lock (the holder is the first of the
queue, `HolderIsFirst`), from which `Serialized` follows. `NoTimerLeft` needs to know that an
`armTimer` callback queued while the link is up is followed by a `cancelTimer` (`TimerInv`): the
order of the queue is what makes it true. `LossIsWatched` is its mirror: while the loop has been
told of the loss, every `cancelTimer` in the queue is followed by an `armTimer`, a pausing coroutine
that looks at the link again has paused, and only a resumption clears the pause, which looks at the
link next (`WatchInv`). `RecoveryFollows` needs that the loop is in one synchronous stretch at a
time (`OneInSync`) and that a recovery about to look at the link again has let go of the pause. It
holds in spite of the thread reading the loop's flag, because the pausing coroutine reads the link
after it has set the flag.

*The connection.* `WireInv` says what may lie on a stream: at most one frame, of the request the
stream was last given to, and nothing on the stream in use unless that request still waits for its
answer. Most actions are `Quiet`: they write and read nothing, and leave the stream alone, drop it or
open the next; one lemma shows that such a step keeps the invariant. Sending, reading and executing
have a lemma each. The sequence number appears nowhere in the invariant: that the code drops the
stream on every exchange that does not come to its end is enough for `OwnAnswer`, and the check of the
sequence number is a second line of defence. `Implements` maps each step to a step of `RemoteCall` or
a stutter; "performed at most once" and "not when refused" come from `Counted`.

*The JIBOT link.* `LinkShape` says that the newest socket is read exactly as long as the link counts
as up and that the tasks of older sockets are done: the supervisor awaits the reader before it opens
the next one. `Apart` says that the numbers in the queue, in the private lists of the calls and with
callers are disjoint and without repetition, `OnWire` that those still on the wire were not read
yet. Frames move by appending, taking the head and concatenating; a lemma each (`AppendNumbers`,
`TailNumbers`, `ConcatNumbers`) says what becomes of the numbers.

*Manual flag.* `StopsFirst`: no stop waits behind a drive in the loop's queue, which is what the liberty
would allow. `StopLowered`: while a stop waits the flag is down, unless a move may have raised it again.
Together they carry `FlagIsWatched`.

*Recipes.* `FullInv` joins the control (`Placed`: where the handler is in each stage; `CleanedUp`: the
cleanup steps are run in order and none is left out), the tables (`Waits`, `Data`), what a success was
earned with (`Earnings`) and who drives (`Children`: a child that can be cancelled is under way only
while it is awaited or reaped). The refinement then needs only how `stage` moves.

*State actions.* Without the liberty one worker exists from its creation to its callback, so that the
loop's variables are local to it; an entry has begun its end action exactly if it has been left, and
`startTask` of its entry is then over.

*Charging.* Without interference an instant action and a worker are not both under way (`Alone`);
`Holders` says at which places the hold is up, `Verified` what a flag from after the last UmStop
means. `Promises` adds where the robot is at each place (`Placed`) and what answers for its charge
(`Answered`).

*The handshake.* Every step of `PioLink` moves one frame, whose next place is the same whatever the
others do; a lemma for each await (those that end in `Good`) says what holds of the frame it leaves.
`Placed` is what a frame carries at each await, for any script: branches move the counter inside the
script (`BranchFacts`). `HandshakeIsTrue` adds `Answered`, what a frame past its handshake has
heard, which stays true beside other frames because nobody's reply is late. `LinesAreLowered` has
one action at a time and keeps `LineInv`: SELECT is high only where the frame still lowers it on
every way out (`Selecting`), a blink's output only where it still turns it off (`Blinking`), and
between the lines of the last command, when no BC was heard, the facility parts (`Released`). A
cancellation is delivered in an await and takes the way of an error from there; the lemma for it
(`CancelGood`) goes through all of them. `FacilityIsReleased` uses the same invariant at the last
step of an action. The proof found one mistake of the model: the cases of `Cancelled` overlapped, so
that their meaning was left to TLC's order of evaluation; they are disjoint now.

Only model-checked: liveness under fairness (`OrderSettles`, `PauseEndsWithLoss`, `LossEndsInPause`,
`CallsReturn`, `ActionsEnd`, `LinkRecovers`, `JogStops`, `NodeWaitSettles`, `RecipeEnds`,
`LastStateEntered`, `DockEnds`) is beyond the prover. Every invariant, refinement and other action
property of the runs has a theorem.

## 6. What is not modelled

Inside the modelled components: the geometry behind last-node tracking, which is reduced to its
outcomes (`ReportPose`, `Bootstrapped`). `localize` (8752-8790), `initPosition` and the arrival of
`gotoNearestNode` (7484-7605) set the last node by command, with sequenceId 0 or that of the nearest
node; the first two are accepted during an order, and a `localize` then has the effect of
`proximity` (tried with TLC: `NothingSkipped` and `EdgeHeldUntilPassed` fail). Also what travels in
a message besides identities; the zone and corridor fields of VDA5050; the SEER command catalogue
and the polling tasks, which are requests like any other. `asyncio.wait_for` of Python 3.11 may
swallow a cancellation that arrives together with its result; the model lets the cancellation win.
After a stop that failed, the NONE and SINGLE actions of the point are never run and stay WAITING
(`skipped` in `ActionScheduler`); nothing says what should become of them, and no property is about
it. The client closes its ports without their locks (`client.py` 307-309), and a request in flight
may reopen one: `SeerConnection` has the step, and no property forbids it.

A command that timed out may be executed by the controller after a newer one has been answered. The
protocol cannot recall it and the code does not claim otherwise, so there is no property.

Hazards that were met and have no property: a stop that fails in the manual drive's watchdog is not
repeated; an action that the registry abandons on a timeout and that has no cancel handler runs on;
a joystick that takes over during the wait for the motor; the wait after docking without a bound of
its own (6881-6891); an off command of the relay hold that times out leaves the relay unknown;
`cancelOrder` does not await the worker it cancels (9217); what section 4 lists without a liberty.

In the new modules: the JIBOT command catalogue, the parsing of frames, and `disconnect()`, which ends
the program; the pose and the arrival tolerance (one Boolean in `NodeMotion`); the resolution of a
recipe's parameters; the publisher behind the relay hold; move segments and dock-work node paths
(6713-6841), whose phases end on pose and camera data; the names and the map of PIO lines, and
`pioReadIn`, which changes nothing.

Not modelled at all: the intake, retention and pruning of instant actions (9502-9541) beyond the
completion bridge; the SEER runtime control, a mailbox of files and ownership tables; SEER docking
and last-node geometry, which are closed loops on numbers; the elevator and air shower workflows,
whose lines and recipes `PioLink` covers; drivers, editors, configuration, the web interface,
process control and simulators. The last group is most of the repository's lines and has no
interleaving that a state machine would say more about than its tests; the share of lines that the
modules stand for is small for that reason.

## 7. Plan

Done: the order engine, action scheduling, the loss guard, both clients' links, the node wait with the
manual drive, recipes, state actions, docking and charging, PIO. Next, in this order:

1. `InstantActions` (9502-9745): statuses only move forward, each accepted action ends.
2. `MoveSegment` (6713-6841): the worker's drive refined into its primitives, shown to implement the
   drive of `OrderEngine`.
3. A composition of `OrderEngine`'s worker with `PauseGuard` and `NodeMotion`, in place of
   `Dispatch` and `Arrive`.
4. The SEER control mailbox.

Proofs to come: the order contract of `OrderEngine` as a refinement of an abstract
order (accepted, driven in sequence, ended), for which `OrderInv` and `ServedInv` have the facts.

## 8. Running it

    tlc -workers 2 -config OrderAny.cfg MCOrderEngine
    tlapm PauseGuardProofs.tla

`PROJECT.json` lists the runs with their configurations, the lines each definition stands for, the
hazards with the properties that cover them, and for each property a change of the model, named
`...Fault`, under which TLC finds it violated.
