---------------------------- MODULE NodeMotionProofs ----------------------------
(* Proofs about NodeMotion: the types, and that a raised manual flag is always    *)
(* watched as long as no manualStop overtakes a drive that waits for the loop.    *)
EXTENDS NodeMotion, TLAPS

Jobs == {"drive", "move", "stop", "timeout", "nearest", "pause", "resume"}

\* No stop waits behind a drive.
StopsFirst == \A i, j \in DOMAIN jobs : jobs[i] = "drive" /\ jobs[j] = "stop" => j < i

\* The stop that waits lowered the flag; only a move can have raised it again.
StopLowered == Queued("stop") /\ active => Queued("move")

Watched == StopsFirst /\ StopLowered /\ FlagIsWatched

-------------------------------------------------------------------------------
\* A coroutine is handed to the loop.
LEMMA AppendJob ==
  ASSUME jobs \in Seq(Jobs), NEW job \in Jobs, jobs' = Append(jobs, job)
  PROVE  /\ jobs' \in Seq(Jobs)
         /\ \A k : Queued(k)' <=> Queued(k) \/ k = job
         /\ StopsFirst /\ (job = "stop" => ~Queued("drive")) => StopsFirst'
<1> DEFINE n == Len(jobs)
<1>1. /\ jobs' \in Seq(Jobs) /\ n \in Nat
      /\ DOMAIN jobs = 1..n /\ DOMAIN jobs' = 1..(n + 1)
      /\ \A i \in 1..n : jobs'[i] = jobs[i]
      /\ jobs'[n + 1] = job
  OBVIOUS
<1> HIDE DEF n
<1>2. 1..(n + 1) = (1..n) \cup {n + 1}
  BY <1>1
<1>3. \A k : Queued(k)' <=> Queued(k) \/ k = job
  BY <1>1, <1>2 DEF Queued
<1>4. ASSUME StopsFirst, job = "stop" => ~Queued("drive") PROVE StopsFirst'
  <2> SUFFICES ASSUME NEW i \in 1..(n + 1), NEW j \in 1..(n + 1), jobs'[i] = "drive", jobs'[j] = "stop"
               PROVE  j < i
    BY <1>1 DEF StopsFirst
  <2>1. CASE i \in 1..n /\ j \in 1..n
    BY <1>1, <1>4, <2>1 DEF StopsFirst
  <2>2. CASE i = n + 1 /\ j \in 1..n
    BY <1>1, <2>2
  <2>3. CASE j = n + 1
    <3>1. job = "stop" /\ i # n + 1
      BY <1>1, <2>3
    <3>2. i \in 1..n /\ jobs[i] = "drive"
      BY <1>1, <1>2, <3>1
    <3> QED BY <1>1, <1>4, <3>1, <3>2 DEF Queued
  <2> QED BY <1>2, <2>1, <2>2, <2>3
<1> QED BY <1>1, <1>3, <1>4

\* The loop starts the coroutine at the head.
LEMMA TailJob ==
  ASSUME jobs \in Seq(Jobs), NEW job, Run(job)
  PROVE  /\ jobs' \in Seq(Jobs) /\ Queued(job)
         /\ \A k : Queued(k)' => Queued(k)
         /\ \A k : Queued(k) /\ k # job => Queued(k)'
         /\ StopsFirst => StopsFirst'
         /\ StopsFirst /\ job = "drive" => ~Queued("stop")'
<1> DEFINE n == Len(jobs)
<1>1. jobs # <<>> /\ job = Head(jobs) /\ jobs' = Tail(jobs)
  BY DEF Run
<1>2. /\ jobs' \in Seq(Jobs) /\ n \in Nat \ {0}
      /\ DOMAIN jobs = 1..n /\ DOMAIN jobs' = 1..(n - 1)
      /\ \A i \in 1..(n - 1) : jobs'[i] = jobs[i + 1]
      /\ jobs[1] = job
  BY <1>1
<1> HIDE DEF n
<1>3. Queued(job) /\ \A k : Queued(k)' => Queued(k)
  BY <1>2 DEF Queued
<1>4. ASSUME NEW k, Queued(k), k # job PROVE Queued(k)'
  <2>1. PICK i \in 1..n : jobs[i] = k
    BY <1>2, <1>4 DEF Queued
  <2>2. i - 1 \in 1..(n - 1) /\ jobs'[i - 1] = k
    BY <1>2, <1>4, <2>1
  <2> QED BY <1>2, <2>2 DEF Queued
<1>5. ASSUME StopsFirst PROVE StopsFirst'
  <2> SUFFICES ASSUME NEW i \in 1..(n - 1), NEW j \in 1..(n - 1), jobs'[i] = "drive", jobs'[j] = "stop"
               PROVE  j < i
    BY <1>2 DEF StopsFirst
  <2>1. i + 1 \in 1..n /\ j + 1 \in 1..n /\ jobs[i + 1] = "drive" /\ jobs[j + 1] = "stop"
    BY <1>2
  <2>2. j + 1 < i + 1
    BY <1>2, <1>5, <2>1 DEF StopsFirst
  <2> QED BY <2>2
<1>6. ASSUME StopsFirst, job = "drive" PROVE ~Queued("stop")'
  <2> SUFFICES ASSUME NEW j \in 1..(n - 1), jobs'[j] = "stop" PROVE FALSE
    BY <1>2 DEF Queued
  <2>1. j + 1 \in 1..n /\ 1 \in 1..n /\ jobs[j + 1] = "stop" /\ jobs[1] = "drive"
    BY <1>2, <1>6
  <2>2. j + 1 < 1
    BY <1>2, <1>6, <2>1 DEF StopsFirst
  <2> QED BY <2>2
<1> QED BY <1>2, <1>3, <1>4, <1>5, <1>6

\* A step that leaves the manual control alone.
LEMMA ManualStays ==
  ASSUME Watched, UNCHANGED manual
  PROVE  Watched'
<1>1. UNCHANGED <<active, watchdog, strays, jobs>>
  BY DEF manual
<1> QED BY <1>1 DEF Watched, StopsFirst, StopLowered, FlagIsWatched, Queued

-------------------------------------------------------------------------------
\* The robot, its polled status and the order worker leave the manual control alone.
Apart ==
  \/ World \/ Poll \/ HandTakes \/ ObstacleStops \/ MotorOff
  \/ AcceptOrder \/ Work \/ Tick \/ EndResume

\* They do.
LEMMA ApartStays ==
  ASSUME Apart
  PROVE  UNCHANGED manual
<1> USE DEF Apart
<1>1. CASE World
  BY <1>1 DEF World, Drives, HandLeaves, ObstacleClears, NearEnds
<1>2. CASE Poll
  BY <1>2 DEF Poll
<1>3. CASE HandTakes \/ ObstacleStops \/ MotorOff
  BY <1>3 DEF HandTakes, ObstacleStops, MotorOff
<1>4. CASE AcceptOrder \/ Tick \/ EndResume
  BY <1>4 DEF AcceptOrder, Tick, EndResume
<1>5. CASE Work
  BY <1>5 DEF Work, BeginNode, EnableMotor, SendGoto, StartWait, Reached, ObserveOwned,
              ObserveStall, Rearm, EndResend
<1> QED BY <1>1, <1>2, <1>3, <1>4, <1>5

RobotTypes ==
  /\ motion \in {"stopped", "goto", "braked", "jog", "near", "hand"}
  /\ at \in BOOLEAN
  /\ motor \in BOOLEAN
  /\ seen \in [stopped : BOOLEAN, braked : BOOLEAN, manual : BOOLEAN, motor : BOOLEAN,
               at : BOOLEAN]

Places == NoOrder \cup Waiting \cup {"begin", "send", "ack", "failed"}

WorkerTypes ==
  /\ worker \in Places
  /\ stalledFor \in 0..2
  /\ retries \in 0..RetryLimit
  /\ reported \in BOOLEAN
  /\ gaveUp \in BOOLEAN

RestTypes ==
  /\ paused \in BOOLEAN
  /\ resuming \in BOOLEAN
  /\ manuals \in 0..MaxManual
  /\ troubles \in 0..MaxTrouble

ManualTypes ==
  /\ active \in BOOLEAN
  /\ watchdog \in {"none", "armed", "fired"}
  /\ strays \in Nat
  /\ jobs \in Seq(Jobs)
  /\ nearest \in BOOLEAN

IInv == RobotTypes /\ WorkerTypes /\ RestTypes /\ ManualTypes /\ Watched

\* A step that leaves the variables of a part alone keeps the part.
LEMMA PartsStay ==
  /\ RobotTypes /\ UNCHANGED <<robot, seen>> => RobotTypes'
  /\ WorkerTypes /\ UNCHANGED <<worker, guard>> => WorkerTypes'
  /\ RestTypes /\ UNCHANGED <<pause, bounds>> => RestTypes'
  /\ ManualTypes /\ UNCHANGED manual => ManualTypes'
<1>1. RobotTypes /\ UNCHANGED <<robot, seen>> => RobotTypes'
  BY DEF RobotTypes, robot
<1>2. WorkerTypes /\ UNCHANGED <<worker, guard>> => WorkerTypes'
  BY DEF WorkerTypes, guard
<1>3. RestTypes /\ UNCHANGED <<pause, bounds>> => RestTypes'
  BY DEF RestTypes, pause, bounds
<1>4. ManualTypes /\ UNCHANGED manual => ManualTypes'
  BY DEF ManualTypes, manual
<1> QED BY <1>1, <1>2, <1>3, <1>4

\* The robot moves, is polled or gets into trouble.
LEMMA RobotParts ==
  ASSUME RobotTypes, WorkerTypes, RestTypes,
         World \/ Poll \/ HandTakes \/ ObstacleStops \/ MotorOff
  PROVE  RobotTypes' /\ WorkerTypes' /\ RestTypes'
<1> USE NodeMotionAssumption
<1>1. CASE World
  <2>1. UNCHANGED <<motor, seen, worker, guard, pause, bounds>>
    BY <1>1 DEF World, Drives, HandLeaves, ObstacleClears, NearEnds
  <2>2. motion' \in {"stopped", "goto"} /\ at' \in BOOLEAN
    BY <1>1 DEF World, Drives, HandLeaves, ObstacleClears, NearEnds, RobotTypes
  <2>3. RobotTypes'
    BY <2>1, <2>2 DEF RobotTypes
  <2> QED BY <2>1, <2>3, PartsStay
<1>2. CASE Poll
  <2>1. seen' \in [stopped : BOOLEAN, braked : BOOLEAN, manual : BOOLEAN, motor : BOOLEAN,
                   at : BOOLEAN]
    BY <1>2 DEF Poll, Moving, RobotTypes
  <2>2. UNCHANGED <<robot, worker, guard, pause, bounds>>
    BY <1>2 DEF Poll
  <2>3. RobotTypes'
    BY <2>1, <2>2 DEF RobotTypes, robot
  <2> QED BY <2>2, <2>3, PartsStay
<1>3. CASE HandTakes \/ ObstacleStops \/ MotorOff
  <2>1. /\ troubles < MaxTrouble /\ troubles' = troubles + 1
        /\ UNCHANGED <<seen, worker, guard, manuals, pause>>
    BY <1>3 DEF HandTakes, ObstacleStops, MotorOff, Trouble
  <2>2. motion' \in {"hand", "braked", "stopped"}
    BY <1>3 DEF HandTakes, ObstacleStops, MotorOff
  <2>3. at' \in BOOLEAN
    BY <1>3 DEF HandTakes, ObstacleStops, MotorOff, RobotTypes
  <2>4. motor' \in BOOLEAN
    BY <1>3 DEF HandTakes, ObstacleStops, MotorOff, RobotTypes
  <2>5. RobotTypes'
    BY <2>1, <2>2, <2>3, <2>4 DEF RobotTypes
  <2>6. RestTypes'
    BY <2>1 DEF RestTypes, pause
  <2> QED BY <2>1, <2>5, <2>6, PartsStay
<1> QED BY <1>1, <1>2, <1>3

\* One step of the order worker.
LEMMA WorkerParts ==
  ASSUME RobotTypes, WorkerTypes, RestTypes, AcceptOrder \/ Work \/ Tick \/ EndResume
  PROVE  RobotTypes' /\ WorkerTypes' /\ RestTypes'
<1> USE NodeMotionAssumption
<1>1. ASSUME worker' \in Places, UNCHANGED <<robot, seen, guard, pause, bounds>>
      PROVE  RobotTypes' /\ WorkerTypes' /\ RestTypes'
  <2>1. WorkerTypes'
    BY <1>1 DEF WorkerTypes, guard
  <2> QED BY <1>1, <2>1, PartsStay
<1>2. CASE AcceptOrder \/ StartWait \/ Reached
  <2>1. worker' \in Places
    BY <1>2 DEF AcceptOrder, StartWait, Reached, Places, NoOrder, Waiting
  <2> QED BY <1>1, <1>2, <2>1 DEF AcceptOrder, StartWait, Reached
<1>3. ASSUME NEW from \in Places, NEW to \in Places, NEW blocked \in Places,
             EnableMotor(from, to, blocked), UNCHANGED guard
      PROVE  RobotTypes' /\ WorkerTypes' /\ RestTypes'
  <2>1. /\ motor' \in {motor, TRUE} /\ worker' \in Places
        /\ UNCHANGED <<motion, at, seen, pause, bounds>>
    BY <1>3 DEF EnableMotor
  <2>2. RobotTypes'
    BY <2>1 DEF RobotTypes
  <2>3. WorkerTypes'
    BY <1>3, <2>1 DEF WorkerTypes, guard
  <2> QED BY <2>1, <2>2, <2>3, PartsStay
<1>4. CASE BeginNode \/ Rearm
  BY <1>3, <1>4 DEF BeginNode, Rearm, Places, Waiting
<1>5. ASSUME NEW from, NEW to \in Places, SendGoto(from, to)
      PROVE  RobotTypes' /\ WorkerTypes' /\ RestTypes'
  <2>1. /\ motion' \in {"goto", motion} /\ worker' = to
        /\ UNCHANGED <<at, motor, seen, guard, pause, bounds>>
    BY <1>5 DEF SendGoto, Commanded
  <2>2. RobotTypes'
    BY <2>1 DEF RobotTypes
  <2>3. WorkerTypes'
    BY <2>1 DEF WorkerTypes, guard
  <2> QED BY <2>1, <2>2, <2>3, PartsStay
<1>6. CASE SendGoto("send", "ack") \/ SendGoto("resend", "reack")
  BY <1>5, <1>6 DEF Places, Waiting
<1>7. ASSUME UNCHANGED <<robot, seen, pause, bounds>>, WorkerTypes'
      PROVE  RobotTypes' /\ WorkerTypes' /\ RestTypes'
  BY <1>7, PartsStay
<1>8. CASE ObserveOwned
  <2>1. /\ stalledFor' = 0 /\ UNCHANGED <<robot, seen, worker, pause, bounds>>
    BY <1>8 DEF ObserveOwned
  <2>2. retries' \in {0, retries}
    BY <1>8 DEF ObserveOwned
  <2>3. reported' \in BOOLEAN /\ gaveUp' \in BOOLEAN
    <3>1. CASE UNCHANGED <<retries, reported, gaveUp>>
      BY <3>1 DEF WorkerTypes
    <3>2. CASE reported' = FALSE /\ gaveUp' = FALSE
      BY <3>2
    <3> QED BY <1>8, <3>1, <3>2 DEF ObserveOwned
  <2>4. WorkerTypes'
    BY <2>1, <2>2, <2>3 DEF WorkerTypes
  <2> QED BY <1>7, <2>1, <2>4
<1>9. CASE EndResend
  <2>1. WorkerTypes'
    <3>1. worker' \in Places
      BY <1>9 DEF EndResend, Places, Waiting
    <3>2. /\ stalledFor' = 0 /\ reported' = FALSE /\ UNCHANGED <<retries, gaveUp>>
      BY <1>9 DEF EndResend
    <3>3. reported' \in BOOLEAN
      BY <3>2
    <3>4. gaveUp' \in BOOLEAN
      BY <3>2 DEF WorkerTypes
    <3>5. stalledFor' \in 0..2 /\ retries' \in 0..RetryLimit
      BY <3>2 DEF WorkerTypes
    <3> QED BY <3>1, <3>3, <3>4, <3>5 DEF WorkerTypes
  <2> QED BY <1>7, <1>9, <2>1 DEF EndResend
<1>10. CASE ObserveStall
  <2>1. reported' = TRUE /\ UNCHANGED <<robot, seen, stalledFor, pause, bounds>>
    BY <1>10 DEF ObserveStall
  <2>2. retries' \in 0..RetryLimit
    BY <1>10 DEF ObserveStall, MayRetry, WorkerTypes
  <2>3. gaveUp' \in BOOLEAN
    BY <1>10 DEF ObserveStall, WorkerTypes
  <2>4. worker' \in {worker, "rearm"}
    BY <1>10 DEF ObserveStall
  <2>5. worker' \in Places
    BY <2>4 DEF WorkerTypes, Places, Waiting
  <2>6. WorkerTypes'
    BY <2>1, <2>2, <2>3, <2>5 DEF WorkerTypes
  <2> QED BY <1>7, <2>1, <2>6
<1>11. CASE Tick
  <2>1. WorkerTypes'
    BY <1>11 DEF Tick, WorkerTypes
  <2> QED BY <1>7, <1>11, <2>1 DEF Tick
<1>12. CASE EndResume
  <2>1. RestTypes'
    BY <1>12 DEF EndResume, RestTypes, bounds
  <2> QED BY <1>12, <2>1, PartsStay DEF EndResume
<1> QED BY <1>2, <1>4, <1>6, <1>8, <1>9, <1>10, <1>11, <1>12 DEF Work

-------------------------------------------------------------------------------
\* A handler of an instant action.
LEMMA HandlerInv ==
  ASSUME RobotTypes, WorkerTypes, RestTypes, ManualTypes, Watched,
         "stopBeforeDrive" \notin May,
         \/ HandleDrive \/ HandleMove \/ HandleStop \/ HandleGotoNearest
         \/ HandleStartPause \/ HandleStopPause
  PROVE  RobotTypes' /\ WorkerTypes' /\ RestTypes' /\ ManualTypes' /\ Watched'
<1> USE NodeMotionAssumption
<1>1. /\ UNCHANGED <<robot, seen, worker, guard, pause, watchdog, strays, nearest>>
      /\ manuals' \in 0..MaxManual /\ troubles' \in 0..MaxTrouble
  <2>1. CASE HandleDrive \/ HandleMove \/ HandleStop \/ HandleGotoNearest
    <3>1. Instant
      BY <2>1 DEF HandleDrive, HandleMove, HandleStop, HandleGotoNearest
    <3> QED BY <3>1 DEF Instant, RestTypes
  <2>2. CASE HandleStartPause
    BY <2>2 DEF HandleStartPause, Trouble, RestTypes
  <2>3. CASE HandleStopPause
    BY <2>3 DEF HandleStopPause, bounds, RestTypes
  <2> QED BY <2>1, <2>2, <2>3
<1>2. PICK job \in Jobs :
        /\ jobs' = Append(jobs, job)
        /\ job = "stop" => ~Queued("drive") /\ ~active'
        /\ active' => active \/ job = "move"
        /\ active' \in BOOLEAN
  <2>1. CASE HandleDrive \/ HandleGotoNearest \/ HandleStartPause \/ HandleStopPause
    <3>1. active' = active
      BY <2>1 DEF HandleDrive, HandleGotoNearest, HandleStartPause, HandleStopPause
    <3>2. \E job \in Jobs \ {"stop"} : jobs' = Append(jobs, job)
      BY <2>1 DEF HandleDrive, HandleGotoNearest, HandleStartPause, HandleStopPause, Jobs
    <3> QED BY <3>1, <3>2 DEF ManualTypes
  <2>2. CASE HandleMove
    BY <2>2 DEF HandleMove, Jobs
  <2>3. CASE HandleStop
    BY <2>3 DEF HandleStop, Jobs
  <2> QED BY <2>1, <2>2, <2>3
<1>3. /\ jobs' \in Seq(Jobs)
      /\ \A k : Queued(k)' <=> Queued(k) \/ k = job
      /\ StopsFirst'
  BY <1>2, AppendJob DEF ManualTypes, Watched
<1>4. RestTypes' /\ ManualTypes'
  BY <1>1, <1>2, <1>3 DEF RestTypes, ManualTypes, pause
<1>5. StopLowered'
  BY <1>2, <1>3 DEF StopLowered, Watched
<1>6. FlagIsWatched'
  BY <1>1, <1>2, <1>3 DEF FlagIsWatched, Watched
<1> QED BY <1>1, <1>3, <1>4, <1>5, <1>6, PartsStay DEF Watched

\* A coroutine that the loop starts.
LEMMA RunInv ==
  ASSUME RobotTypes, WorkerTypes, RestTypes, ManualTypes, Watched, RunJob
  PROVE  RobotTypes' /\ WorkerTypes' /\ RestTypes' /\ ManualTypes' /\ Watched'
<1>1. PICK job \in Jobs :
        /\ Run(job)
        /\ job = "drive" => RunDrive
        /\ job = "move" => RunMove
        /\ job = "stop" => RunStop
        /\ job = "timeout" => RunTimeout
        /\ job \in {"nearest", "pause", "resume"} => UNCHANGED <<active, watchdog, strays>>
        /\ RunJob
  BY DEF RunJob, RunDrive, RunMove, RunStop, RunTimeout, RunNearest, RunPause, RunResume, Jobs
<1>2. /\ jobs' \in Seq(Jobs) /\ Queued(job)
      /\ \A k : Queued(k)' => Queued(k)
      /\ \A k : Queued(k) /\ k # job => Queued(k)'
      /\ StopsFirst' /\ (job = "drive" => ~Queued("stop")')
  BY <1>1, TailJob DEF ManualTypes, Watched
<1>3. UNCHANGED <<at, motor, seen, worker, guard, bounds>>
  BY <1>1 DEF Run
<1>4. motion' \in {motion, "jog", "near", "goto", "hand", "stopped"}
  BY DEF RunJob, RunDrive, RunMove, RunStop, RunTimeout, RunNearest, RunPause, RunResume,
         Commanded, Halted
<1>5. RobotTypes'
  BY <1>3, <1>4 DEF RobotTypes
<1>6. paused' \in BOOLEAN /\ resuming' \in BOOLEAN
  <2>1. CASE RunDrive \/ RunMove \/ RunStop \/ RunTimeout \/ RunNearest
    BY <2>1 DEF RunDrive, RunMove, RunStop, RunTimeout, RunNearest, pause, RestTypes
  <2>2. CASE RunPause
    BY <2>2 DEF RunPause, RestTypes
  <2>3. CASE RunResume
    BY <2>3 DEF RunResume, RestTypes
  <2> QED BY <2>1, <2>2, <2>3 DEF RunJob
<1>7. RestTypes'
  BY <1>3, <1>6 DEF RestTypes, bounds
<1>8. /\ active' \in BOOLEAN /\ nearest' \in BOOLEAN
      /\ watchdog' \in {"none", "armed", "fired"} /\ strays' \in Nat
  <2>1. CASE RunDrive
    BY <2>1 DEF RunDrive, ManualTypes
  <2>2. CASE RunMove \/ RunStop
    BY <2>2 DEF RunMove, RunStop, ManualTypes
  <2>5. CASE RunTimeout
    <3>1. /\ active' = FALSE /\ nearest' = nearest /\ watchdog' = "none"
          /\ strays' \in {strays, strays + 1}
      BY <2>5 DEF RunTimeout
    <3>2. strays' \in Nat /\ watchdog' \in {"none", "armed", "fired"}
      BY <3>1 DEF ManualTypes
    <3>3. active' \in BOOLEAN
      BY <3>1
    <3>4. nearest' \in BOOLEAN
      BY <3>1 DEF ManualTypes
    <3> QED BY <3>2, <3>3, <3>4
  <2>3. CASE RunNearest
    BY <2>3 DEF RunNearest, ManualTypes
  <2>4. CASE RunPause \/ RunResume
    BY <2>4 DEF RunPause, RunResume, ManualTypes
  <2> QED BY <2>1, <2>2, <2>3, <2>4, <2>5 DEF RunJob
<1>9. ManualTypes'
  BY <1>2, <1>8 DEF ManualTypes
<1>10. StopLowered' /\ FlagIsWatched'
  <2>1. CASE job = "drive"
    <3>1. active' => watchdog' = "armed"
      BY <1>1, <2>1 DEF RunDrive
    <3> QED BY <1>2, <2>1, <3>1 DEF StopLowered, FlagIsWatched
  <2>2. CASE job = "move" \/ job = "timeout"
    <3>1. ~active'
      BY <1>1, <2>2 DEF RunMove, RunTimeout
    <3> QED BY <3>1 DEF StopLowered, FlagIsWatched
  <2>3. CASE job = "stop"
    <3>1. active' = active
      BY <1>1, <2>3 DEF RunStop
    <3>2. active => Queued("move")
      BY <1>2, <2>3 DEF Watched, StopLowered
    <3>3. active' => Queued("move")'
      BY <1>2, <2>3, <3>1, <3>2
    <3> QED BY <3>3 DEF StopLowered, FlagIsWatched
  <2>4. CASE job \in {"nearest", "pause", "resume"}
    <3>1. UNCHANGED <<active, watchdog, strays>>
      BY <1>1, <2>4
    <3>2. \A k : k \in {"stop", "move", "timeout"} => (Queued(k)' <=> Queued(k))
      BY <1>2, <2>4
    <3> QED BY <3>1, <3>2 DEF Watched, StopLowered, FlagIsWatched
  <2> QED BY <2>1, <2>2, <2>3, <2>4 DEF Jobs
<1> QED BY <1>2, <1>3, <1>5, <1>7, <1>9, <1>10, PartsStay DEF Watched

\* A timer hands the timeout to the loop.
LEMMA TimerInv ==
  ASSUME RobotTypes, WorkerTypes, RestTypes, ManualTypes, Watched, TimerFires
  PROVE  RobotTypes' /\ WorkerTypes' /\ RestTypes' /\ ManualTypes' /\ Watched'
<1>1. /\ jobs' = Append(jobs, "timeout")
      /\ UNCHANGED <<robot, seen, worker, guard, pause, active, nearest, bounds>>
  BY DEF TimerFires
<1>2. watchdog' \in {watchdog, "fired"} /\ strays' \in Nat
  BY DEF TimerFires, ManualTypes
<1>3. /\ jobs' \in Seq(Jobs)
      /\ \A k : Queued(k)' <=> Queued(k) \/ k = "timeout"
      /\ StopsFirst'
  BY <1>1, AppendJob DEF ManualTypes, Watched, Jobs
<1>4. ManualTypes'
  BY <1>1, <1>2, <1>3 DEF ManualTypes
<1>5. StopLowered' /\ FlagIsWatched'
  BY <1>1, <1>3 DEF Watched, StopLowered, FlagIsWatched
<1> QED BY <1>1, <1>3, <1>4, <1>5, PartsStay DEF Watched

\* gotoNearestNode ends.
LEMMA EndNearestInv ==
  ASSUME RobotTypes, WorkerTypes, RestTypes, ManualTypes, Watched, EndNearest
  PROVE  RobotTypes' /\ WorkerTypes' /\ RestTypes' /\ ManualTypes' /\ Watched'
<1>1. /\ nearest' = FALSE
      /\ UNCHANGED <<at, motor, seen, worker, guard, pause, active, watchdog, strays, jobs, bounds>>
  BY DEF EndNearest
<1>2. motion' \in {motion, "hand", "stopped"}
  BY DEF EndNearest, Halted
<1>3. RobotTypes'
  <2>1. motion' \in {"stopped", "goto", "braked", "jog", "near", "hand"}
    BY <1>2 DEF RobotTypes
  <2>2. QED
    BY <1>1, <2>1 DEF RobotTypes
<1>4. ManualTypes'
  BY <1>1 DEF ManualTypes
<1>5. Watched'
  BY <1>1 DEF Watched, StopsFirst, StopLowered, FlagIsWatched, Queued
<1> QED BY <1>1, <1>3, <1>4, <1>5, PartsStay

-------------------------------------------------------------------------------
\* The start.
LEMMA InitInv ==
  ASSUME Init
  PROVE  IInv
<1> USE NodeMotionAssumption
<1>1. <<>> \in Seq(Jobs)
  OBVIOUS
<1>2. RobotTypes
  BY DEF Init, RobotTypes
<1>3. worker \in Places
  BY DEF Init, Places, NoOrder
<1>6. WorkerTypes
  <2>1. stalledFor \in 0..2 /\ retries \in 0..RetryLimit
    BY DEF Init
  <2>2. reported \in BOOLEAN /\ gaveUp \in BOOLEAN
    BY DEF Init
  <2> QED BY <1>3, <2>1, <2>2 DEF WorkerTypes
<1>7. RestTypes
  <2>1. manuals \in 0..MaxManual /\ troubles \in 0..MaxTrouble
    BY DEF Init
  <2>2. paused \in BOOLEAN /\ resuming \in BOOLEAN
    BY DEF Init
  <2> QED BY <2>1, <2>2 DEF RestTypes
<1>4. ManualTypes
  BY <1>1 DEF Init, ManualTypes
<1>5. Watched
  BY DEF Init, Watched, StopsFirst, StopLowered, FlagIsWatched
<1> QED BY <1>2, <1>6, <1>7, <1>4, <1>5 DEF IInv

\* Every step keeps the invariant.
LEMMA NextInv ==
  ASSUME IInv, "stopBeforeDrive" \notin May, [Next]_vars
  PROVE  IInv'
<1> DEFINE Parts == RobotTypes /\ WorkerTypes /\ RestTypes /\ ManualTypes
<1>1. Parts /\ Watched
  BY DEF IInv
<1>2. CASE Apart
  <2>1. UNCHANGED manual
    BY <1>2, ApartStays
  <2>2. RobotTypes' /\ WorkerTypes' /\ RestTypes'
    BY <1>1, <1>2, RobotParts, WorkerParts DEF Apart
  <2>3. ManualTypes' /\ Watched'
    BY <1>1, <2>1, ManualStays, PartsStay
  <2> QED BY <2>2, <2>3 DEF IInv
<1>3. CASE \/ HandleDrive \/ HandleMove \/ HandleStop \/ HandleGotoNearest
           \/ HandleStartPause \/ HandleStopPause
  BY <1>1, <1>3, HandlerInv DEF IInv
<1>4. CASE RunJob
  BY <1>1, <1>4, RunInv DEF IInv
<1>5. CASE TimerFires
  BY <1>1, <1>5, TimerInv DEF IInv
<1>6. CASE EndNearest
  BY <1>1, <1>6, EndNearestInv DEF IInv
<1>7. CASE UNCHANGED vars
  <2>1. UNCHANGED <<robot, seen, worker, guard, pause, manual, bounds>>
    BY <1>7 DEF vars
  <2>2. Parts'
    BY <1>1, <2>1, PartsStay
  <2>3. Watched'
    BY <1>1, <2>1, ManualStays
  <2> QED BY <2>2, <2>3 DEF IInv
<1> QED BY <1>2, <1>3, <1>4, <1>5, <1>6, <1>7 DEF Next, Apart

\* The invariant holds throughout.
LEMMA Invariance == "stopBeforeDrive" \notin May /\ Spec => []IInv
<1>1. "stopBeforeDrive" \notin May /\ IInv /\ [Next]_vars => IInv'
  BY NextInv
<1>2. CASE "stopBeforeDrive" \notin May
  <2>1. IInv /\ [Next]_vars => IInv'
    BY <1>1, <1>2
  <2> QED BY <2>1, InitInv, PTL DEF Spec
<1> QED BY <1>2

\* Every variable keeps the type the adapter gives it.
THEOREM TypeCorrect == "stopBeforeDrive" \notin May /\ Spec => []TypeOK
<1>1. IInv => TypeOK
  BY DEF IInv, TypeOK, RobotTypes, WorkerTypes, RestTypes, ManualTypes, Places, Jobs
<1> QED BY <1>1, Invariance, PTL

\* A manual flag that is raised has a timer, a timeout or the end of a move to
\* lower it, however many drives, stops and late timeouts cross each other.
THEOREM FlagNeverForgotten == "stopBeforeDrive" \notin May /\ Spec => []FlagIsWatched
<1>1. IInv => FlagIsWatched
  BY DEF IInv, Watched
<1> QED BY <1>1, Invariance, PTL
===============================================================================
