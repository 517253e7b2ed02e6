------------------------------- MODULE PauseGuard -------------------------------
(***************************************************************************)
(* The guard of adaptor/adapter_jibot.py that pauses the robot when the    *)
(* link to the fleet manager is lost, and the startPause and stopPause     *)
(* instant actions that share its flags.                                   *)
(*                                                                         *)
(* The MQTT thread records the state of the link and posts callbacks to    *)
(* the adapter's loop, one statement at a time: its steps interleave with  *)
(* everything the loop does.  The loop runs its ready queue in order: what *)
(* was posted, an expired timer, the first step of a coroutine and its     *)
(* continuation when what it awaits has ended.  A coroutine in a state of  *)
(* Sync has not come to an await yet: the loop does nothing else.          *)
(* Pausing and resuming await a command sent to the robot; the command     *)
(* takes effect some time before its answer arrives.  The two coroutines   *)
(* of the guard hold an asyncio.Lock, which is granted in the order asked; *)
(* startPause and stopPause do not take it.                                *)
(*                                                                         *)
(* Definitions whose name ends in Fault are the faults that the properties *)
(* are tried on: no action uses them.                                      *)
(*                                                                         *)
(* Bounds: MaxChanges link events, MaxOperator operator actions, and the   *)
(* coroutines that live at the same time (Coroutines).                     *)
(***************************************************************************)
EXTENDS Integers, Sequences, FiniteSets

CONSTANTS
  Coroutines,   \* identities of the coroutines that pause or resume
  Seer,         \* the SEER bridge has replaced startPause and stopPause
  MaxChanges, MaxOperator,
  May           \* what may happen besides the loss and return of the link

Liberties == {"operator",             \* startPause and stopPause are sent
              "failures",             \* the robot may refuse a command
              "dispatchDuringPause"}  \* the order worker, busy with an action when the
                                      \* robot is paused, goes on to its next node

ASSUME PauseGuardAssumption ==
  /\ Seer \in BOOLEAN
  /\ MaxChanges \in Nat /\ MaxOperator \in Nat
  /\ May \subseteq Liberties

VARIABLES
  link,      \* _acs_broker_connected
  ever,      \* _mqtt_ever_connected
  client,    \* where the MQTT thread is in _on_acs_broker_change
  timer,     \* _mqtt_disconnect_timer: "off", "armed", or "due" in the ready queue
  ready,     \* the ready queue of the event loop
  kind,      \* which function each coroutine runs
  pc,        \* where each coroutine is
  lock,      \* _mqtt_guard_lock: its holder, then those that wait for it
  paused,    \* _motion_paused, and the state's paused
  byLoss,    \* _paused_by_mqtt_loss
  going,     \* _active_goto_node: the worker waits to arrive
  moving,    \* the robot executes a motion command
  changes,   \* link events so far
  operated,  \* operator actions so far
  held       \* history: a startPause has finished and no stopPause was sent since

linkVars == <<link, ever, client, changes>>
robotVars == <<going, moving>>
flagVars == <<paused, byLoss>>
coVars == <<kind, pc>>
operatorVars == <<operated, held>>
vars == <<linkVars, timer, ready, coVars, lock, flagVars, robotVars, operatorVars>>

Kinds == {"lossPause", "recovery", "startPause", "stopPause"}
Callback == [do : {"cancelTimer", "armTimer", "grace"}]
            \cup [do : {"create"}, kind : Kinds \ {"lossPause"}]
            \cup [do : {"run"}, who : Coroutines]

Sync == {"locked", "recheck"}
LoopFree == \A c \in Coroutines : pc[c] \notin Sync
IsNext(what) == LoopFree /\ ready # <<>> /\ Head(ready).do = what
IsQueued(callback) == \E i \in 1..Len(ready) : ready[i] = callback
IsStarting(k) == IsQueued([do |-> "create", kind |-> k])
IsRunning(k) == \E c \in Coroutines : pc[c] # "free" /\ kind[c] = k

-----------------------------------------------------------------------------
(* The MQTT thread: _on_acs_broker_change *)

LinkUp ==
  /\ client = "idle" /\ ~link
  /\ changes < MaxChanges
  /\ link' = TRUE /\ client' = "up" /\ changes' = changes + 1
  /\ UNCHANGED <<ever, timer, ready, coVars, lock, flagVars, robotVars, operatorVars>>

\* _mqtt_ever_connected is set, then the cancellation of the timer is posted
PostCancel ==
  /\ client = "up"
  /\ ever' = TRUE /\ client' = "up2"
  /\ ready' = Append(ready, [do |-> "cancelTimer"])
  /\ UNCHANGED <<link, changes, timer, coVars, lock, flagVars, robotVars, operatorVars>>

\* The thread reads a flag that the loop owns
PostRecovery ==
  /\ client = "up2"
  /\ client' = "idle"
  /\ ready' = IF byLoss THEN Append(ready, [do |-> "create", kind |-> "recovery"]) ELSE ready
  /\ UNCHANGED <<link, ever, changes, timer, coVars, lock, flagVars, robotVars, operatorVars>>

\* A lost link, or a connection that was refused
LinkDown ==
  /\ client = "idle"
  /\ changes < MaxChanges
  /\ link' = FALSE /\ client' = "down" /\ changes' = changes + 1
  /\ UNCHANGED <<ever, timer, ready, coVars, lock, flagVars, robotVars, operatorVars>>

PostArm ==
  /\ client = "down"
  /\ client' = "idle"
  /\ ready' = Append(ready, [do |-> "armTimer"])
  /\ UNCHANGED <<link, ever, changes, timer, coVars, lock, flagVars, robotVars, operatorVars>>

\* startPause and stopPause arrive over the link and post their coroutine
Operate(k) ==
  /\ "operator" \in May
  /\ client = "idle" /\ link
  /\ operated < MaxOperator
  /\ operated' = operated + 1
  /\ held' = (held /\ k # "stopPause")
  /\ ready' = Append(ready, [do |-> "create", kind |-> k])
  /\ UNCHANGED <<linkVars, timer, coVars, lock, flagVars, robotVars>>

-----------------------------------------------------------------------------
(* The timer and the ready queue *)

\* asyncio.create_task, with the rest of the ready queue
CreateTask(k, rest) ==
  \E c \in Coroutines :
    /\ pc[c] = "free"
    /\ kind' = [kind EXCEPT ![c] = k]
    /\ pc' = [pc EXCEPT ![c] = "ready"]
    /\ ready' = Append(rest, [do |-> "run", who |-> c])

\* _cancel_mqtt_disconnect_timer
CancelTimer ==
  /\ IsNext("cancelTimer")
  /\ ready' = Tail(ready) /\ timer' = "off"
  /\ UNCHANGED <<linkVars, coVars, lock, flagVars, robotVars, operatorVars>>

\* _arm_mqtt_disconnect_timer: a broker never reached is not lost
ArmTimer == timer' = IF timer = "off" /\ ever THEN "armed" ELSE timer

RunArm ==
  /\ IsNext("armTimer")
  /\ ready' = Tail(ready) /\ ArmTimer
  /\ UNCHANGED <<linkVars, coVars, lock, flagVars, robotVars, operatorVars>>

RunCreate ==
  /\ IsNext("create")
  /\ CreateTask(Head(ready).kind, Tail(ready))
  /\ UNCHANGED <<linkVars, timer, lock, flagVars, robotVars, operatorVars>>

\* The grace is over
GraceElapses ==
  /\ timer = "armed" /\ timer' = "due"
  /\ ready' = Append(ready, [do |-> "grace"])
  /\ UNCHANGED <<linkVars, coVars, lock, flagVars, robotVars, operatorVars>>

\* _on_mqtt_disconnect_grace_elapsed, unless the timer was cancelled meanwhile
RunGrace ==
  /\ IsNext("grace")
  /\ \/ /\ timer = "due" /\ ~link /\ ~paused
        /\ timer' = "off"
        /\ CreateTask("lossPause", Tail(ready))
     \/ /\ timer = "due" /\ (link \/ paused)
        /\ timer' = "off"
        /\ ready' = Tail(ready) /\ UNCHANGED coVars
     \/ /\ timer # "due"
        /\ ready' = Tail(ready) /\ UNCHANGED <<timer, coVars>>
  /\ UNCHANGED <<linkVars, lock, flagVars, robotVars, operatorVars>>

-----------------------------------------------------------------------------
(* The coroutines *)

IsNextOf(c) == IsNext("run") /\ Head(ready).who = c

GoTo(c, label) == pc' = [pc EXCEPT ![c] = label] /\ UNCHANGED kind

\* async with self._mqtt_guard_lock(): entering, and leaving
TakeLock(c, k) ==
  /\ kind' = [kind EXCEPT ![c] = k]
  /\ lock' = Append(lock, c)
  /\ pc' = [pc EXCEPT ![c] = IF lock = <<>> THEN "locked" ELSE "waiting"]

ReleaseLock(rest) ==
  /\ lock' = Tail(lock)
  /\ ready' = IF Tail(lock) = <<>> THEN rest
              ELSE Append(rest, [do |-> "run", who |-> Head(Tail(lock))])

Guarded(c) == kind[c] \in {"lossPause", "recovery"}
Holds(c) ==
  Guarded(c) /\ pc[c] \in {"locked", "stop", "stopped", "wakeStopped", "goto", "sent", "wakeSent"}

\* The coroutine is done with its command: the guard leaves the lock
Finish(c, rest) ==
  IF Guarded(c)
  THEN ReleaseLock(rest) /\ GoTo(c, "recheck")
  ELSE ready' = rest /\ UNCHANGED lock /\ GoTo(c, "free")

\* The guard returns from inside the lock, without looking at the link again
GiveUp(c, rest) ==
  /\ GoTo(c, "free")
  /\ IF Guarded(c) THEN ReleaseLock(rest) ELSE ready' = rest /\ UNCHANGED lock

\* _resume_motion clears the flags; the SEER stopPause only _motion_paused
Resumed(c) ==
  /\ paused' = FALSE
  /\ byLoss' = (byLoss /\ Seer /\ kind[c] = "stopPause")

\* _resume_motion re-issues an interrupted goto, and awaits only if there is
\* one; the SEER stopPause always sends its command
BeginResume(c, rest) ==
  IF going \/ (Seer /\ kind[c] = "stopPause")
  THEN GoTo(c, "goto") /\ ready' = rest /\ UNCHANGED <<flagVars, lock>>
  ELSE Resumed(c) /\ Finish(c, rest)

\* The first step of a coroutine, up to the lock, the command or its end
Begin(c) ==
  /\ IsNextOf(c) /\ pc[c] = "ready"
  /\ \/ /\ Guarded(c)
        /\ TakeLock(c, kind[c]) /\ ready' = Tail(ready) /\ UNCHANGED flagVars
     \/ /\ kind[c] = "startPause"
        /\ GoTo(c, "stop") /\ ready' = Tail(ready) /\ UNCHANGED <<lock, flagVars>>
     \/ /\ kind[c] = "stopPause"
        /\ BeginResume(c, Tail(ready))
  /\ UNCHANGED <<linkVars, timer, robotVars, operatorVars>>

\* The lock has been granted
Granted(c) ==
  /\ IsNextOf(c) /\ pc[c] = "waiting"
  /\ lock # <<>> /\ Head(lock) = c
  /\ ready' = Tail(ready)
  /\ GoTo(c, "locked")
  /\ UNCHANGED <<linkVars, timer, lock, flagVars, robotVars, operatorVars>>

\* The conditions that the two coroutines of the guard check under the lock
Locked(c) ==
  /\ pc[c] = "locked"
  /\ \/ /\ kind[c] = "lossPause" /\ (link \/ paused)
        /\ GiveUp(c, ready) /\ UNCHANGED flagVars
     \/ /\ kind[c] = "lossPause" /\ ~(link \/ paused)
        /\ GoTo(c, "stop") /\ UNCHANGED <<ready, lock, flagVars>>
     \/ /\ kind[c] = "recovery" /\ ~byLoss
        /\ GiveUp(c, ready) /\ UNCHANGED flagVars
     \/ /\ kind[c] = "recovery" /\ byLoss
        /\ BeginResume(c, ready)
  /\ UNCHANGED <<linkVars, timer, robotVars, operatorVars>>

\* The robot obeys
StopTakesEffect(c) ==
  /\ pc[c] = "stop"
  /\ moving' = FALSE
  /\ GoTo(c, "stopped")
  /\ UNCHANGED <<linkVars, timer, ready, lock, flagVars, going, operatorVars>>

GotoTakesEffect(c) ==
  /\ pc[c] = "goto"
  /\ moving' = going
  /\ GoTo(c, "sent")
  /\ UNCHANGED <<linkVars, timer, ready, lock, flagVars, going, operatorVars>>

\* Its answer, or a timeout of the command, wakes the coroutine
Answer(c) ==
  /\ pc[c] \in {"stopped", "sent"}
  /\ GoTo(c, IF pc[c] = "stopped" THEN "wakeStopped" ELSE "wakeSent")
  /\ ready' = Append(ready, [do |-> "run", who |-> c])
  /\ UNCHANGED <<linkVars, timer, lock, flagVars, robotVars, operatorVars>>

\* The end of _pause_motion, then of _pause_for_mqtt_loss or of startPause
StopEnds(c) ==
  /\ IsNextOf(c) /\ pc[c] = "wakeStopped"
  /\ paused' = TRUE
  /\ byLoss' = (byLoss \/ kind[c] = "lossPause")
  /\ held' = IF kind[c] = "startPause"
             THEN ~(IsStarting("stopPause") \/ IsRunning("stopPause")) ELSE held
  /\ Finish(c, Tail(ready))
  /\ UNCHANGED <<linkVars, timer, robotVars, operated>>

\* The end of _resume_motion, then of _resume_after_mqtt_recovery or of stopPause
GotoEnds(c) ==
  /\ IsNextOf(c) /\ pc[c] = "wakeSent"
  /\ Resumed(c)
  /\ Finish(c, Tail(ready))
  /\ UNCHANGED <<linkVars, timer, robotVars, operatorVars>>

\* An exception: the pause is given up, or the resumption, and then the guard
\* lets go of the pause it made
CommandFails(c) ==
  /\ "failures" \in May
  /\ IsNextOf(c) /\ pc[c] \in {"wakeStopped", "wakeSent"}
  /\ byLoss' = (byLoss /\ kind[c] # "recovery")
  /\ GiveUp(c, Tail(ready))
  /\ UNCHANGED <<linkVars, timer, paused, robotVars, operatorVars>>

\* Fault: a pause that lasted until the link was back is not undone
RecheckLossFault(c) ==
  /\ pc[c] = "recheck"
  /\ IF kind[c] = "recovery" /\ ~link THEN ArmTimer ELSE UNCHANGED timer
  /\ GoTo(c, "free")
  /\ UNCHANGED <<linkVars, lock, ready, flagVars, robotVars, operatorVars>>

\* Fault: a resumption that lasted until the link was lost arms no timer
RecheckRecoveryFault(c) ==
  /\ pc[c] = "recheck"
  /\ IF kind[c] = "lossPause" /\ link THEN TakeLock(c, "recovery")
     ELSE GoTo(c, "free") /\ UNCHANGED lock
  /\ UNCHANGED <<linkVars, timer, ready, flagVars, robotVars, operatorVars>>

\* Both coroutines of the guard read the link again when they are done
Recheck(c) ==
  /\ pc[c] = "recheck"
  /\ \/ /\ kind[c] = "lossPause" /\ link
        /\ TakeLock(c, "recovery") /\ UNCHANGED timer
     \/ /\ kind[c] = "recovery" /\ ~link
        /\ ArmTimer /\ GoTo(c, "free") /\ UNCHANGED lock
     \/ /\ link = (kind[c] = "recovery")
        /\ GoTo(c, "free") /\ UNCHANGED <<lock, timer>>
  /\ UNCHANGED <<linkVars, ready, flagVars, robotVars, operatorVars>>

-----------------------------------------------------------------------------
(* The order worker and the robot *)

IsPausing == paused \/ IsRunning("lossPause") \/ IsRunning("startPause")

\* The worker sends the goto of its next node; it does not read _motion_paused
Dispatch ==
  /\ LoopFree
  /\ ~going
  /\ IsPausing => "dispatchDuringPause" \in May
  /\ going' = TRUE /\ moving' = TRUE
  /\ UNCHANGED <<linkVars, timer, ready, coVars, lock, flagVars, operatorVars>>

Arrive ==
  /\ LoopFree
  /\ going /\ moving
  /\ going' = FALSE /\ moving' = FALSE
  /\ UNCHANGED <<linkVars, timer, ready, coVars, lock, flagVars, operatorVars>>

-----------------------------------------------------------------------------
Init ==
  /\ link = FALSE /\ ever = FALSE /\ client = "idle" /\ changes = 0
  /\ timer = "off" /\ ready = <<>> /\ lock = <<>>
  /\ kind = [c \in Coroutines |-> "lossPause"] /\ pc = [c \in Coroutines |-> "free"]
  /\ paused = FALSE /\ byLoss = FALSE
  /\ going = FALSE /\ moving = FALSE
  /\ operated = 0 /\ held = FALSE

Thread == PostCancel \/ PostRecovery \/ PostArm
Events == LinkUp \/ LinkDown \/ Operate("startPause") \/ Operate("stopPause")
Queue == CancelTimer \/ RunArm \/ RunCreate \/ RunGrace
Coroutine(c) ==
  Begin(c) \/ Granted(c) \/ Locked(c) \/ StopEnds(c) \/ GotoEnds(c) \/ CommandFails(c)
  \/ Recheck(c)
Robot(c) == StopTakesEffect(c) \/ GotoTakesEffect(c) \/ Answer(c)

Next ==
  \/ Events \/ Thread \/ Queue \/ GraceElapses
  \/ \E c \in Coroutines : Coroutine(c) \/ Robot(c)
  \/ Dispatch \/ Arrive

Spec == Init /\ [][Next]_vars

\* The thread finishes its callback, the loop runs what is ready, the timer
\* expires and the robot answers.  Nothing is promised about the link, the
\* operator or the orders.
Fairness ==
  /\ WF_vars(Thread) /\ WF_vars(Queue) /\ WF_vars(GraceElapses)
  /\ \A c \in Coroutines : WF_vars(Coroutine(c)) /\ WF_vars(Robot(c))

FairSpec == Spec /\ Fairness

-----------------------------------------------------------------------------
(* Properties *)

Labels == {"free", "ready", "waiting", "locked", "stop", "stopped", "wakeStopped", "goto", "sent",
           "wakeSent", "recheck"}

\* Every variable keeps the shape the code gives it.
TypeOK ==
  /\ link \in BOOLEAN /\ ever \in BOOLEAN /\ timer \in {"off", "armed", "due"}
  /\ client \in {"idle", "up", "up2", "down"}
  /\ ready \in Seq(Callback)
  /\ kind \in [Coroutines -> Kinds] /\ pc \in [Coroutines -> Labels]
  /\ lock \in Seq(Coroutines)
  /\ paused \in BOOLEAN /\ byLoss \in BOOLEAN
  /\ going \in BOOLEAN /\ moving \in BOOLEAN
  /\ changes \in 0..MaxChanges /\ operated \in 0..MaxOperator /\ held \in BOOLEAN

\* The guard never pauses and resumes at the same time: the command of one of its
\* coroutines has been answered, or has failed, before another one is sent.
GuardSerialized == \A c, d \in Coroutines : Holds(c) /\ Holds(d) => c = d

\* A robot whose broker has never been reached is not paused by the guard, nor
\* about to be, however often a connection is refused.
NotLostBeforeFound ==
  ~ever => timer = "off" /\ ~byLoss /\ ~IsRunning("lossPause")

\* A pause that the guard owns does not outlive the loss: with the link up and
\* the MQTT thread idle, the resumption is queued, runs, or the pause that has
\* just been made is about to read the link again.
RecoveredIsResumed ==
  link /\ client = "idle" /\ byLoss =>
    \/ IsStarting("recovery") \/ IsRunning("recovery")
    \/ \E c \in Coroutines : kind[c] = "lossPause" /\ pc[c] = "recheck"

\* A grace timer runs only while the link is down or its cancellation is queued:
\* a reconnection within the grace never leaves a timer behind.
TimerMeansLost ==
  timer # "off" /\ link => client = "up" \/ IsQueued([do |-> "cancelTimer"])

\* While the link is down, the robot is paused or something will pause it: the
\* timer is armed or about to be, or a coroutine of the guard will pause the
\* robot or look at the link again.
LostLinkIsWatched ==
  ever /\ ~link /\ client = "idle" =>
    \/ paused \/ timer # "off"
    \/ IsQueued([do |-> "armTimer"])
    \/ IsRunning("lossPause")
    \/ \E c \in Coroutines : kind[c] = "recovery" /\ pc[c] = "recheck"

\* What startPause has paused stays paused until a stopPause is sent.
OperatorPauseHolds == held => paused

\* A link that comes back for good ends the pause the guard made.
PauseEndsWithLoss == <>[]link => <>[]~byLoss

\* A link that is lost for good ends with the robot paused.
LossEndsInPause == <>[](ever /\ ~link) => <>[]paused

=============================================================================
