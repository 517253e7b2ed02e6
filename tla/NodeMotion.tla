------------------------------- MODULE NodeMotion -------------------------------
(* Who moves the robot while the order worker waits for a node: the worker's   *)
(* goto and the stall guard that sends it again, the operator's manualDrive,   *)
(* manualMove and manualStop with their watchdog, startPause and stopPause,    *)
(* and the joystick on the robot itself (adaptor/adapter_jibot.py).            *)
(*                                                                             *)
(* Handlers of instant actions run on the MQTT thread and leave a coroutine    *)
(* for the event loop, which runs them first in, first out. A send is over at  *)
(* once; the waits are the poll of the node, the acknowledgement of a goto and *)
(* the start of the motor. The robot is known only by its polled status.       *)
(*                                                                             *)
(* Definitions whose name ends in Fault are the faults that the properties are *)
(* tried on: no action uses them.                                              *)
EXTENDS Naturals, Sequences

CONSTANTS
  RetryLimit,   \* node_goto_retry_limit
  MaxManual,    \* bound on the operator's instant actions
  MaxTrouble,   \* bound on joystick takeovers, obstacles, motor-offs and pauses
  May           \* liberties: "driveFails", "stopBeforeDrive"

ASSUME NodeMotionAssumption ==
  /\ RetryLimit \in Nat
  /\ MaxManual \in Nat
  /\ MaxTrouble \in Nat

VARIABLES
  motion,      \* the robot: "stopped", "goto", "braked", "jog", "near" or "hand"
  at,          \* the robot is in the reach zone of the node
  motor,       \* the drive motor is on
  seen,        \* the status and pose polled last
  worker,      \* where the order worker is in _process_v3_node_step
  stalledFor,  \* time.monotonic() - stalled_since: 0, past the first, past both delays
  retries,     \* retries_used
  reported,    \* unreached_error_reported
  gaveUp,      \* gave_up, reported as FATAL
  paused,      \* _motion_paused
  resuming,    \* stopPause waits for the acknowledgement of its goto
  active,      \* _manual_control_active
  watchdog,    \* _manual_drive_watchdog: "none", "armed" or "fired"
  strays,      \* armed timers that _manual_drive_watchdog no longer refers to
  jobs,        \* coroutines the loop has not started yet
  nearest,     \* gotoNearestNode polls for its arrival
  manuals,     \* manual instant actions so far
  troubles     \* troubles so far

robot == <<motion, at, motor>>
guard == <<stalledFor, retries, reported, gaveUp>>
pause == <<paused, resuming>>
manual == <<active, watchdog, strays, jobs, nearest>>
bounds == <<manuals, troubles>>
vars == <<robot, seen, worker, guard, pause, manual, bounds>>

\* _active_goto_node is set
Waiting == {"waiting", "rearm", "resend", "reack"}
NoOrder == {"idle", "reached"}

\* A coroutine of this kind waits for its turn on the loop.
Queued(job) == \E i \in DOMAIN jobs : jobs[i] = job

-------------------------------------------------------------------------------
(* The robot *)

\* A command has no effect on a robot whose motor is off.
Commanded(m) == motion' = IF motor THEN m ELSE motion

Moving == motion \in {"goto", "jog", "near", "hand"}

\* UmStop; the joystick is not stopped by it.
Halted == motion' = IF motion = "hand" THEN "hand" ELSE "stopped"

Drives ==
  /\ motion = "goto"
  /\ motion' = "stopped"
  /\ at' = TRUE
  /\ UNCHANGED <<motor, seen, worker, guard, pause, manual, bounds>>

\* Status and pose are polled: what is known is older than what is.
Poll ==
  /\ seen' = [stopped |-> ~Moving, braked |-> motion = "braked",
              manual |-> motion \in {"hand", "jog"}, motor |-> motor, at |-> at]
  /\ UNCHANGED <<robot, worker, guard, pause, manual, bounds>>

Trouble ==
  /\ troubles < MaxTrouble
  /\ troubles' = troubles + 1
  /\ UNCHANGED <<seen, worker, guard, manuals>>

\* A hand on the joystick discards whatever the robot was doing.
HandTakes ==
  /\ Trouble
  /\ motor /\ motion # "hand"
  /\ motion' = "hand"
  /\ at' \in BOOLEAN
  /\ UNCHANGED <<motor, pause, manual>>

HandLeaves ==
  /\ motion = "hand"
  /\ motion' = "stopped"
  /\ UNCHANGED <<at, motor, seen, worker, guard, pause, manual, bounds>>

ObstacleStops ==
  /\ Trouble
  /\ motion = "goto"
  /\ motion' = "braked"
  /\ UNCHANGED <<at, motor, pause, manual>>

ObstacleClears ==
  /\ motion = "braked"
  /\ motion' = "goto"
  /\ UNCHANGED <<at, motor, seen, worker, guard, pause, manual, bounds>>

MotorOff ==
  /\ Trouble
  /\ motor
  /\ motor' = FALSE
  /\ motion' = "stopped"
  /\ UNCHANGED <<at, pause, manual>>

-------------------------------------------------------------------------------
(* The order worker at one node *)

\* _ensure_motor_enabled_before_order_motion: what the flag said last decides;
\* a motor that does not confirm in time ends the attempt.
EnableMotor(from, to, blocked) ==
  /\ worker = from
  /\ \/ /\ seen.motor
        /\ worker' = to
        /\ UNCHANGED motor
     \/ /\ ~seen.motor
        /\ motor' \in {motor, TRUE}
        /\ worker' \in {from, blocked}
  /\ UNCHANGED <<motion, at, seen, pause, manual, bounds>>

BeginNode ==
  /\ EnableMotor("begin", "send", "failed")
  /\ UNCHANGED guard

SendGoto(from, to) ==
  /\ worker = from
  /\ Commanded("goto")
  /\ worker' = to
  /\ UNCHANGED <<at, motor, seen, guard, pause, manual, bounds>>

\* No frame within the timeout is not a rejection; the guard is made then.
StartWait ==
  /\ worker = "ack"
  /\ worker' \in {"waiting", "failed"}
  /\ UNCHANGED <<robot, seen, guard, pause, manual, bounds>>

Reached ==
  /\ worker = "waiting"
  /\ seen.at
  /\ worker' = "reached"
  /\ UNCHANGED <<robot, seen, guard, pause, manual, bounds>>

\* Nobody drives the robot, and nobody but the worker should.
Stalled == seen.stopped /\ ~seen.braked /\ ~seen.manual /\ ~active /\ ~paused

\* The stall clock runs while no sample resets it.
Tick ==
  /\ worker = "waiting"
  /\ stalledFor < 2
  /\ stalledFor' = stalledFor + 1
  /\ UNCHANGED <<robot, seen, worker, retries, reported, gaveUp, pause, manual, bounds>>

ObserveOwned ==
  /\ worker = "waiting" /\ ~seen.at /\ ~Stalled
  /\ stalledFor' = 0
  /\ IF seen.stopped
     THEN UNCHANGED <<retries, reported, gaveUp>>
     ELSE retries' = 0 /\ reported' = FALSE /\ gaveUp' = FALSE
  /\ UNCHANGED <<robot, seen, worker, pause, manual, bounds>>

ObserveStallFault ==
  /\ worker = "waiting" /\ ~seen.at /\ Stalled
  /\ stalledFor = 1
  /\ reported' = TRUE
  /\ UNCHANGED <<robot, seen, worker, stalledFor, retries, gaveUp, pause, manual, bounds>>

MayRetry == retries < RetryLimit

\* One sample of a standstill: it is reported, then the goto is sent again, and
\* when the retries are used up it is escalated.
ObserveStall ==
  /\ worker = "waiting" /\ ~seen.at /\ Stalled
  /\ stalledFor >= 1
  /\ reported' = TRUE
  /\ \/ /\ stalledFor = 2 /\ MayRetry
        /\ retries' = retries + 1
        /\ worker' = "rearm"
        /\ UNCHANGED gaveUp
     \/ /\ stalledFor = 2 /\ ~MayRetry
        /\ gaveUp' = TRUE
        /\ UNCHANGED <<retries, worker>>
     \/ /\ stalledFor = 1
        /\ UNCHANGED <<retries, worker, gaveUp>>
  /\ UNCHANGED <<robot, seen, stalledFor, pause, manual, bounds>>

\* _resend_node_goto: blocked or sent, the clock starts again after it.
Rearm ==
  /\ EnableMotor("rearm", "resend", "reack")
  /\ UNCHANGED guard

EndResend ==
  /\ worker = "reack"
  /\ worker' = "waiting"
  /\ stalledFor' = 0
  /\ reported' = FALSE
  /\ UNCHANGED <<robot, seen, retries, gaveUp, pause, manual, bounds>>

AcceptOrder ==
  /\ worker = "idle"
  /\ worker' = "begin"
  /\ UNCHANGED <<robot, seen, guard, pause, manual, bounds>>

-------------------------------------------------------------------------------
(* Instant actions: handlers *)

Instant ==
  /\ manuals < MaxManual
  /\ manuals' = manuals + 1
  /\ UNCHANGED <<robot, seen, worker, guard, pause, watchdog, strays, nearest, troubles>>

\* _manual_blocked_reason is asked here, the drive is sent later.
HandleDrive ==
  /\ Instant
  /\ worker \in NoOrder
  /\ jobs' = Append(jobs, "drive")
  /\ UNCHANGED active

\* manualMove raises the flag already here.
HandleMove ==
  /\ Instant
  /\ worker \in NoOrder
  /\ jobs' = Append(jobs, "move")
  /\ active' = TRUE

\* An operator can always stop. The flag is lowered here, the watchdog is
\* cancelled when the coroutine runs.
HandleStop ==
  /\ Instant
  /\ Queued("drive") => "stopBeforeDrive" \in May
  /\ jobs' = Append(jobs, "stop")
  /\ active' = FALSE

HandleGotoNearest ==
  /\ Instant
  /\ worker \in {"idle", "reached", "failed"}
  /\ ~nearest
  /\ jobs' = Append(jobs, "nearest")
  /\ UNCHANGED active

HandleStartPause ==
  /\ Trouble
  /\ ~paused /\ ~Queued("pause")
  /\ jobs' = Append(jobs, "pause")
  /\ UNCHANGED <<robot, pause, active, watchdog, strays, nearest>>

HandleStopPause ==
  /\ paused /\ ~resuming /\ ~Queued("resume")
  /\ jobs' = Append(jobs, "resume")
  /\ UNCHANGED <<robot, seen, worker, guard, pause, active, watchdog, strays, nearest, bounds>>

-------------------------------------------------------------------------------
(* Instant actions: coroutines on the loop *)

Run(job) ==
  /\ jobs # <<>> /\ Head(jobs) = job
  /\ jobs' = Tail(jobs)
  /\ UNCHANGED <<at, motor, seen, worker, guard, bounds>>

RunDriveFault ==
  /\ Run("drive")
  /\ \/ /\ Commanded("jog")
        /\ active' = TRUE
        /\ watchdog' = "armed"
     \/ /\ "driveFails" \in May
        /\ active' = FALSE
        /\ watchdog' = "none"
        /\ UNCHANGED motion
  /\ UNCHANGED <<strays, pause, nearest>>

\* The flag is raised after the command was sent, and the watchdog armed anew.
RunDrive ==
  /\ Run("drive")
  /\ \/ /\ Commanded("jog")
        /\ active' = TRUE
        /\ watchdog' = "armed"
     \/ /\ "driveFails" \in May
        /\ active' = FALSE
        /\ UNCHANGED <<motion, watchdog>>
  /\ UNCHANGED <<strays, pause, nearest>>

RunMove ==
  /\ Run("move")
  /\ Commanded("near")
  /\ active' = FALSE
  /\ UNCHANGED <<watchdog, strays, pause, nearest>>

RunStop ==
  /\ Run("stop")
  /\ watchdog' = "none"
  /\ Halted
  /\ UNCHANGED <<active, strays, pause, nearest>>

RunTimeoutFault ==
  /\ Run("timeout")
  /\ strays' = IF watchdog = "armed" THEN strays + 1 ELSE strays
  /\ watchdog' = "none"
  /\ Halted
  /\ UNCHANGED <<active, pause, nearest>>

\* _manual_drive_timeout forgets the handle: a timer that was armed since then
\* can no longer be cancelled.
RunTimeout ==
  /\ Run("timeout")
  /\ strays' = IF watchdog = "armed" THEN strays + 1 ELSE strays
  /\ watchdog' = "none"
  /\ active' = FALSE
  /\ Halted
  /\ UNCHANGED <<pause, nearest>>

TimerFires ==
  /\ \/ watchdog = "armed" /\ watchdog' = "fired" /\ UNCHANGED strays
     \/ strays > 0 /\ strays' = strays - 1 /\ UNCHANGED watchdog
  /\ jobs' = Append(jobs, "timeout")
  /\ UNCHANGED <<robot, seen, worker, guard, pause, active, nearest, bounds>>

RunNearest ==
  /\ Run("nearest")
  /\ Commanded("near")
  /\ nearest' = TRUE
  /\ UNCHANGED <<active, watchdog, strays, pause>>

\* Reached, or the timeout: then the robot is stopped, whoever drives it now.
EndNearest ==
  /\ nearest
  /\ nearest' = FALSE
  /\ Halted \/ UNCHANGED motion
  /\ UNCHANGED <<at, motor, seen, worker, guard, pause, active, watchdog, strays, jobs, bounds>>

\* A manual move or a drive to the nearest node ends by itself.
NearEnds ==
  /\ motion = "near"
  /\ motion' = "stopped"
  /\ UNCHANGED <<at, motor, seen, worker, guard, pause, manual, bounds>>

RunPause ==
  /\ Run("pause")
  /\ Halted
  /\ paused' = TRUE
  /\ UNCHANGED <<resuming, active, watchdog, strays, nearest>>

\* The goto of a waiting node is sent again and its acknowledgement awaited
\* before the pause is lifted.
RunResume ==
  /\ Run("resume")
  /\ IF worker \in Waiting
     THEN /\ Commanded("goto")
          /\ resuming' = TRUE
          /\ UNCHANGED paused
     ELSE /\ paused' = FALSE
          /\ UNCHANGED <<motion, resuming>>
  /\ UNCHANGED <<active, watchdog, strays, nearest>>

EndResume ==
  /\ resuming
  /\ resuming' = FALSE
  /\ paused' = FALSE
  /\ UNCHANGED <<robot, seen, worker, guard, manual, bounds>>

-------------------------------------------------------------------------------

Init ==
  /\ motion = "stopped"
  /\ at = FALSE
  /\ motor \in BOOLEAN
  /\ seen = [stopped |-> TRUE, braked |-> FALSE, manual |-> FALSE, motor |-> motor, at |-> FALSE]
  /\ worker = "idle"
  /\ stalledFor = 0
  /\ retries = 0
  /\ reported = FALSE
  /\ gaveUp = FALSE
  /\ paused = FALSE
  /\ resuming = FALSE
  /\ active = FALSE
  /\ watchdog = "none"
  /\ strays = 0
  /\ jobs = <<>>
  /\ nearest = FALSE
  /\ manuals = 0
  /\ troubles = 0

RunJob == RunDrive \/ RunMove \/ RunStop \/ RunTimeout \/ RunNearest \/ RunPause \/ RunResume

Work ==
  \/ BeginNode \/ SendGoto("send", "ack") \/ StartWait
  \/ Reached \/ ObserveOwned \/ ObserveStall
  \/ Rearm \/ SendGoto("resend", "reack") \/ EndResend

World == Drives \/ HandLeaves \/ ObstacleClears \/ NearEnds

Next ==
  \/ World \/ Poll \/ HandTakes \/ ObstacleStops \/ MotorOff
  \/ AcceptOrder \/ Work \/ Tick
  \/ HandleDrive \/ HandleMove \/ HandleStop \/ HandleGotoNearest
  \/ HandleStartPause \/ HandleStopPause
  \/ RunJob \/ TimerFires \/ EndNearest \/ EndResume

Spec == Init /\ [][Next]_vars

\* The loop runs its coroutines and timers, the robot is polled, the worker
\* polls its node, and whoever holds the robot lets go of it.
Fairness ==
  /\ WF_vars(RunJob)
  /\ WF_vars(TimerFires)
  /\ WF_vars(World)
  /\ WF_vars(Poll)
  /\ WF_vars(Work)
  /\ WF_vars(Tick)
  /\ WF_vars(EndNearest)
  /\ WF_vars(EndResume)

FairSpec == Spec /\ Fairness

-------------------------------------------------------------------------------
(* Properties *)

\* The state has the shape the adapter gives it.
TypeOK ==
  /\ motion \in {"stopped", "goto", "braked", "jog", "near", "hand"}
  /\ at \in BOOLEAN
  /\ motor \in BOOLEAN
  /\ seen \in [stopped : BOOLEAN, braked : BOOLEAN, manual : BOOLEAN, motor : BOOLEAN,
               at : BOOLEAN]
  /\ worker \in NoOrder \cup Waiting \cup {"begin", "send", "ack", "failed"}
  /\ stalledFor \in 0..2
  /\ retries \in 0..RetryLimit
  /\ reported \in BOOLEAN
  /\ gaveUp \in BOOLEAN
  /\ paused \in BOOLEAN
  /\ resuming \in BOOLEAN
  /\ active \in BOOLEAN
  /\ watchdog \in {"none", "armed", "fired"}
  /\ strays \in Nat
  /\ jobs \in Seq({"drive", "move", "stop", "timeout", "nearest", "pause", "resume"})
  /\ nearest \in BOOLEAN
  /\ manuals \in 0..MaxManual
  /\ troubles \in 0..MaxTrouble

\* The manual flag is raised only as long as something will lower it: an armed
\* watchdog, the timeout that follows it, or the end of a manualMove. A flag
\* that stays raised keeps the stall guard and the idle capture off for good.
FlagIsWatched ==
  active => \/ watchdog = "armed"
            \/ strays > 0
            \/ Queued("timeout")
            \/ Queued("move")

\* A robot that was set in motion by manualDrive comes to rest when the
\* commands cease: a fresh command, a stop or a late timeout never leaves it
\* without a timer.
JogStops == motion = "jog" ~> motion # "jog"

\* A worker that waits for its node reaches it or reports that it gave up,
\* whatever stopped the robot on the way: a watchdog or a manualStop that was
\* meant for the drive before the order, the joystick, an obstacle, the motor
\* or a pause that was ended. Nobody owes the end of a pause.
NodeWaitSettles == worker = "waiting" ~> worker = "reached" \/ gaveUp \/ paused
=============================================================================
