---------------------------- MODULE PauseGuardProofs ----------------------------
(***************************************************************************)
(* Theorems of PauseGuard, for any number of coroutines, link events and   *)
(* operator actions, with the JIBOT and with the SEER handlers.  They hold *)
(* with every liberty of the surroundings, but for the last one, which     *)
(* names the two that it excludes.                                         *)
(***************************************************************************)
EXTENDS PauseGuard, TLAPS

-----------------------------------------------------------------------------
(* Type correctness, and the mutual exclusion of the guard *)

\* The coroutine that holds the guard's lock is the first of its queue.
HolderIsFirst == \A c \in Coroutines : Holds(c) => lock # <<>> /\ Head(lock) = c

\* A stop is awaited by those that pause, a goto by those that resume.
CommandOfKind ==
  \A c \in Coroutines :
    /\ pc[c] \in {"stop", "stopped", "wakeStopped"} => kind[c] \in {"lossPause", "startPause"}
    /\ pc[c] \in {"goto", "sent", "wakeSent"} => kind[c] \in {"recovery", "stopPause"}
    /\ pc[c] \in {"waiting", "locked", "recheck"} => kind[c] \in {"lossPause", "recovery"}

TypeInv == TypeOK /\ HolderIsFirst /\ CommandOfKind

\* What the loop may find in its ready queue.
LEMMA Callbacks ==
  /\ \A w \in {"cancelTimer", "armTimer", "grace"} : [do |-> w] \in Callback
  /\ \A k \in Kinds \ {"lossPause"} : [do |-> "create", kind |-> k] \in Callback
  /\ \A c \in Coroutines : [do |-> "run", who |-> c] \in Callback
BY DEF Callback

\* What the first callback of a typed queue can be, and that a "create" is determined by its kind.
LEMMA HeadOfReady ==
  ASSUME ready \in Seq(Callback), ready # <<>>
  PROVE  /\ Head(ready) \in Callback
         /\ Tail(ready) \in Seq(Callback)
         /\ Head(ready).do = "create" => /\ Head(ready).kind \in Kinds \ {"lossPause"}
                                         /\ Head(ready) = [do |-> "create",
                                                           kind |-> Head(ready).kind]
<1>1. Head(ready) \in Callback /\ Tail(ready) \in Seq(Callback)
  OBVIOUS
<1>2. QED
  BY <1>1 DEF Callback

\* A coroutine that goes to another label without touching the lock, and would not
\* hold it there unless it did before.
LEMMA GoToTypes ==
  ASSUME TypeInv, NEW c \in Coroutines, NEW label \in Labels, GoTo(c, label), UNCHANGED lock,
         Guarded(c) => label \in {"free", "recheck"} \/ Holds(c),
         CommandOfKind'
  PROVE  /\ kind' \in [Coroutines -> Kinds] /\ pc' \in [Coroutines -> Labels]
         /\ HolderIsFirst'
BY DEF GoTo, TypeInv, TypeOK, HolderIsFirst, Holds, Guarded

\* Taking the lock, or queueing for it.
LEMMA TakeLockTypes ==
  ASSUME TypeInv, NEW c \in Coroutines, NEW k \in {"lossPause", "recovery"}, TakeLock(c, k)
  PROVE  /\ kind' \in [Coroutines -> Kinds] /\ pc' \in [Coroutines -> Labels]
         /\ lock' \in Seq(Coroutines)
         /\ HolderIsFirst' /\ CommandOfKind'
<1> USE DEF TypeInv, TypeOK, TakeLock
<1>1. /\ kind' \in [Coroutines -> Kinds] /\ pc' \in [Coroutines -> Labels]
      /\ lock' \in Seq(Coroutines)
  BY DEF Kinds, Labels
<1>2. CommandOfKind'
  BY DEF CommandOfKind
<1>3. HolderIsFirst'
  <2>1. CASE lock = <<>>
    <3>1. lock' = <<c>>
      BY <2>1
    <3>2. \A d \in Coroutines : d # c => ~Holds(d)'
      BY <2>1 DEF HolderIsFirst, Holds, Guarded
    <3>3. QED
      BY <3>1, <3>2 DEF HolderIsFirst
  <2>2. CASE lock # <<>>
    <3>1. lock' # <<>> /\ Head(lock') = Head(lock)
      BY <2>2
    <3>2. \A d \in Coroutines : Holds(d)' => Holds(d)
      BY <2>2 DEF Holds, Guarded
    <3>3. QED
      BY <3>1, <3>2 DEF HolderIsFirst
  <2>3. QED
    BY <2>1, <2>2
<1>4. QED
  BY <1>1, <1>2, <1>3

\* The holder leaves the lock to the next in the queue: then nobody holds it, until
\* the wakeup that was queued is run.
LEMMA ReleaseTypes ==
  ASSUME TypeInv, NEW c \in Coroutines, NEW rest \in Seq(Callback),
         NEW label \in {"free", "recheck"}, Holds(c), ReleaseLock(rest), GoTo(c, label)
  PROVE  /\ kind' \in [Coroutines -> Kinds] /\ pc' \in [Coroutines -> Labels]
         /\ lock' \in Seq(Coroutines) /\ ready' \in Seq(Callback)
         /\ HolderIsFirst' /\ CommandOfKind'
<1> USE DEF TypeInv, TypeOK, GoTo
<1>1. lock # <<>> /\ lock' = Tail(lock) /\ lock' \in Seq(Coroutines)
  BY DEF HolderIsFirst, ReleaseLock
<1>2. ready' \in Seq(Callback)
  <2>1. CASE Tail(lock) = <<>>
    BY <2>1 DEF ReleaseLock
  <2>2. CASE Tail(lock) # <<>>
    <3>1. Head(Tail(lock)) \in Coroutines
      BY <1>1, <2>2
    <3>2. [do |-> "run", who |-> Head(Tail(lock))] \in Callback
      BY <3>1, Callbacks
    <3>3. QED
      BY <2>2, <3>2 DEF ReleaseLock
  <2>3. QED
    BY <2>1, <2>2
<1>3. \A d \in Coroutines : ~Holds(d)'
  BY DEF HolderIsFirst, Holds, Guarded
<1>4. CommandOfKind'
  BY DEF CommandOfKind, Holds, Guarded
<1>5. QED
  BY <1>1, <1>2, <1>3, <1>4 DEF HolderIsFirst, Labels

\* Both ends of a command: with the lock released, or without a lock.
LEMMA EndOfCommand ==
  ASSUME TypeInv, NEW c \in Coroutines, NEW rest \in Seq(Callback),
         Finish(c, rest) \/ GiveUp(c, rest), Guarded(c) => Holds(c)
  PROVE  /\ kind' \in [Coroutines -> Kinds] /\ pc' \in [Coroutines -> Labels]
         /\ lock' \in Seq(Coroutines) /\ ready' \in Seq(Callback)
         /\ HolderIsFirst' /\ CommandOfKind'
<1>1. CASE Guarded(c)
  BY <1>1, ReleaseTypes DEF Finish, GiveUp
<1>2. CASE ~Guarded(c)
  <2>1. GoTo(c, "free") /\ UNCHANGED lock /\ ready' = rest
    BY <1>2 DEF Finish, GiveUp
  <2>2. CommandOfKind'
    BY <2>1 DEF CommandOfKind, GoTo, TypeInv, TypeOK
  <2>3. QED
    BY <1>2, <2>1, <2>2, GoToTypes DEF Labels, TypeInv, TypeOK
<1>3. QED
  BY <1>1, <1>2

\* A task made by a callback is a coroutine of a known kind, and joins the end of the queue.
LEMMA CreateTaskTypes ==
  ASSUME TypeInv, NEW k \in Kinds, NEW rest \in Seq(Callback), CreateTask(k, rest),
         UNCHANGED lock
  PROVE  /\ kind' \in [Coroutines -> Kinds] /\ pc' \in [Coroutines -> Labels]
         /\ ready' \in Seq(Callback)
         /\ HolderIsFirst' /\ CommandOfKind'
<1>1. PICK c \in Coroutines :
        /\ pc[c] = "free"
        /\ kind' = [kind EXCEPT ![c] = k] /\ pc' = [pc EXCEPT ![c] = "ready"]
        /\ ready' = Append(rest, [do |-> "run", who |-> c])
  BY DEF CreateTask
<1>2. ready' \in Seq(Callback)
  BY <1>1, Callbacks
<1>3. QED
  BY <1>1, <1>2 DEF TypeInv, TypeOK, Labels, HolderIsFirst, Holds, Guarded, CommandOfKind

\* The step of resuming, whether or not a goto has to be awaited.
LEMMA BeginResumeTypes ==
  ASSUME TypeInv, NEW c \in Coroutines, NEW rest \in Seq(Callback), BeginResume(c, rest),
         kind[c] \in {"recovery", "stopPause"}, Guarded(c) => Holds(c)
  PROVE  /\ kind' \in [Coroutines -> Kinds] /\ pc' \in [Coroutines -> Labels]
         /\ lock' \in Seq(Coroutines) /\ ready' \in Seq(Callback)
         /\ paused' \in BOOLEAN /\ byLoss' \in BOOLEAN
         /\ HolderIsFirst' /\ CommandOfKind'
<1>1. CASE GoTo(c, "goto") /\ ready' = rest /\ UNCHANGED <<flagVars, lock>>
  <2>1. CommandOfKind'
    BY <1>1 DEF CommandOfKind, GoTo, TypeInv, TypeOK
  <2>2. \A d \in Coroutines : Holds(d)' => Holds(d)
    BY <1>1 DEF GoTo, Holds, Guarded, TypeInv, TypeOK
  <2>3. HolderIsFirst'
    BY <1>1, <2>2 DEF HolderIsFirst, TypeInv
  <2>4. QED
    BY <1>1, <2>1, <2>3 DEF GoTo, TypeInv, TypeOK, Labels, flagVars
<1>2. CASE Resumed(c) /\ Finish(c, rest)
  BY <1>2, EndOfCommand DEF Resumed
<1>3. QED
  BY <1>1, <1>2 DEF BeginResume

\* Every step keeps the type invariant, with the lock and command parts it needs.
LEMMA StepTypes ==
  ASSUME TypeInv, [Next]_vars
  PROVE  TypeInv'
<1> USE DEF linkVars, robotVars, flagVars, coVars, operatorVars
<1>0. /\ TypeOK /\ HolderIsFirst /\ CommandOfKind
      /\ ready \in Seq(Callback)
  BY DEF TypeInv, TypeOK
<1>1. CASE UNCHANGED <<coVars, lock>> /\ TypeOK'
  BY <1>0, <1>1 DEF TypeInv, HolderIsFirst, CommandOfKind, Holds, Guarded
<1>2. CASE LinkUp \/ LinkDown
  <2>1. changes \in Nat /\ changes < MaxChanges /\ changes' = changes + 1
    BY <1>0, <1>2 DEF LinkUp, LinkDown, TypeOK
  <2>2. changes' \in 0..MaxChanges
    BY <2>1, PauseGuardAssumption
  <2>3. /\ link' \in BOOLEAN /\ client' \in {"idle", "up", "up2", "down"}
        /\ UNCHANGED <<ever, timer, ready, coVars, lock, flagVars, robotVars, operatorVars>>
    BY <1>2 DEF LinkUp, LinkDown
  <2>4. TypeOK'
    BY <1>0, <2>2, <2>3 DEF TypeOK
  <2>5. QED
    BY <1>1, <2>3, <2>4
<1>3. ASSUME NEW k \in {"startPause", "stopPause"}, Operate(k) PROVE TypeInv'
  <2>1. [do |-> "create", kind |-> k] \in Callback
    BY Callbacks DEF Kinds
  <2>2. TypeOK'
    BY <1>0, <1>3, <2>1, PauseGuardAssumption DEF Operate, TypeOK
  <2>3. QED
    BY <1>1, <1>3, <2>2 DEF Operate
<1>4. CASE PostCancel \/ PostRecovery \/ PostArm
  <2>1. /\ [do |-> "cancelTimer"] \in Callback /\ [do |-> "armTimer"] \in Callback
        /\ [do |-> "create", kind |-> "recovery"] \in Callback
    BY Callbacks DEF Kinds
  <2>2. ready' \in Seq(Callback)
    BY <1>0, <1>4, <2>1 DEF PostCancel, PostRecovery, PostArm
  <2>3. /\ ever' \in BOOLEAN /\ client' \in {"idle", "up", "up2", "down"}
        /\ UNCHANGED <<link, changes, timer, coVars, lock, flagVars, robotVars, operatorVars>>
    BY <1>0, <1>4 DEF PostCancel, PostRecovery, PostArm, TypeOK
  <2>4. TypeOK'
    BY <1>0, <2>2, <2>3 DEF TypeOK
  <2>5. QED
    BY <1>1, <2>3, <2>4
<1>5. CASE CancelTimer \/ RunArm
  <2>1. ready' \in Seq(Callback)
    BY <1>0, <1>5, HeadOfReady DEF CancelTimer, RunArm, IsNext
  <2>2. /\ timer' \in {"off", "armed", "due"}
        /\ UNCHANGED <<linkVars, coVars, lock, flagVars, robotVars, operatorVars>>
    BY <1>0, <1>5 DEF CancelTimer, RunArm, ArmTimer, TypeOK
  <2>3. TypeOK'
    BY <1>0, <2>1, <2>2 DEF TypeOK
  <2>4. QED
    BY <1>1, <2>2, <2>3
<1>6. CASE GraceElapses
  <2>1. TypeOK'
    BY <1>0, <1>6, Callbacks DEF GraceElapses, TypeOK
  <2>2. QED
    BY <1>1, <1>6, <2>1 DEF GraceElapses
<1>7. CASE RunCreate
  <2>1. /\ ready # <<>> /\ Head(ready).do = "create"
        /\ CreateTask(Head(ready).kind, Tail(ready))
        /\ UNCHANGED <<linkVars, timer, lock, flagVars, robotVars, operatorVars>>
    BY <1>7 DEF RunCreate, IsNext
  <2>2. Head(ready).kind \in Kinds /\ Tail(ready) \in Seq(Callback)
    BY <1>0, <2>1, HeadOfReady
  <2>3. /\ kind' \in [Coroutines -> Kinds] /\ pc' \in [Coroutines -> Labels]
        /\ ready' \in Seq(Callback) /\ HolderIsFirst' /\ CommandOfKind'
    BY <2>1, <2>2, CreateTaskTypes
  <2>4. QED
    BY <1>0, <2>1, <2>3 DEF TypeInv, TypeOK
<1>8. CASE RunGrace
  <2>1. ready # <<>> /\ Tail(ready) \in Seq(Callback)
    BY <1>0, <1>8, HeadOfReady DEF RunGrace, IsNext
  <2>2. CASE CreateTask("lossPause", Tail(ready)) /\ timer' = "off"
    BY <1>0, <1>8, <2>1, <2>2, CreateTaskTypes DEF RunGrace, TypeInv, TypeOK, Kinds
  <2>3. CASE ready' = Tail(ready) /\ UNCHANGED coVars
    BY <1>0, <1>1, <1>8, <2>1, <2>3 DEF RunGrace, TypeOK
  <2>4. QED
    BY <1>8, <2>2, <2>3 DEF RunGrace
<1>9. ASSUME NEW c \in Coroutines, Begin(c) PROVE TypeInv'
  <2>1. ready # <<>> /\ Tail(ready) \in Seq(Callback)
    BY <1>0, <1>9, HeadOfReady DEF Begin, IsNextOf, IsNext
  <2>2. CASE Guarded(c)
    <3>1. /\ TakeLock(c, kind[c]) /\ ready' = Tail(ready)
          /\ UNCHANGED <<linkVars, timer, flagVars, robotVars, operatorVars>>
      BY <1>9, <2>2 DEF Begin, Guarded
    <3>2. /\ kind' \in [Coroutines -> Kinds] /\ pc' \in [Coroutines -> Labels]
          /\ lock' \in Seq(Coroutines)
          /\ HolderIsFirst' /\ CommandOfKind'
      BY <2>2, <3>1, TakeLockTypes DEF Guarded
    <3>3. QED
      BY <1>0, <2>1, <3>1, <3>2 DEF TypeInv, TypeOK
  <2>3. CASE kind[c] = "startPause"
    <3>1. GoTo(c, "stop") /\ ready' = Tail(ready) /\ UNCHANGED <<lock, flagVars>>
      BY <1>9, <2>3 DEF Begin, Guarded
    <3>2. CommandOfKind'
      BY <1>0, <2>3, <3>1 DEF CommandOfKind, GoTo, TypeOK
    <3>3. HolderIsFirst'
      BY <2>3, <3>1, <3>2, GoToTypes DEF Guarded, Labels
    <3>4. QED
      BY <1>0, <1>9, <2>1, <3>1, <3>2, <3>3 DEF Begin, GoTo, TypeInv, TypeOK, Labels
  <2>4. CASE kind[c] = "stopPause"
    <3>1. BeginResume(c, Tail(ready))
      BY <1>9, <2>4 DEF Begin, Guarded
    <3>2. QED
      BY <1>0, <1>9, <2>1, <2>4, <3>1, BeginResumeTypes DEF Begin, Guarded, TypeInv, TypeOK
  <2>5. QED
    BY <1>0, <2>2, <2>3, <2>4 DEF TypeOK, Kinds, Guarded
<1>10. ASSUME NEW c \in Coroutines, Granted(c) PROVE TypeInv'
  <2>1. ready # <<>> /\ Tail(ready) \in Seq(Callback) /\ Head(lock) = c
    BY <1>0, <1>10, HeadOfReady DEF Granted, IsNextOf, IsNext
  <2>2. /\ pc[c] = "waiting" /\ GoTo(c, "locked") /\ ready' = Tail(ready)
        /\ UNCHANGED <<linkVars, timer, lock, flagVars, robotVars, operatorVars>>
    BY <1>10 DEF Granted
  <2>3. TypeOK'
    BY <1>0, <2>1, <2>2 DEF GoTo, TypeOK, Labels
  <2>4. CommandOfKind'
    BY <1>0, <2>2 DEF GoTo, TypeOK, CommandOfKind
  <2>5. lock # <<>>
    BY <1>0, <1>10 DEF Granted
  <2>6. HolderIsFirst'
    BY <1>0, <2>1, <2>2, <2>5 DEF GoTo, TypeOK, HolderIsFirst, Holds, Guarded
  <2>7. QED
    BY <2>3, <2>4, <2>6 DEF TypeInv
<1>11. ASSUME NEW c \in Coroutines, Locked(c) PROVE TypeInv'
  <2>1. Holds(c)
    BY <1>0, <1>11 DEF Locked, Holds, Guarded
  <2>2. CASE GiveUp(c, ready) /\ UNCHANGED flagVars
    BY <1>0, <1>11, <2>1, <2>2, EndOfCommand DEF Locked, TypeInv, TypeOK
  <2>3. CASE GoTo(c, "stop") /\ UNCHANGED <<ready, lock, flagVars>> /\ kind[c] = "lossPause"
    <3>1. CommandOfKind'
      BY <1>0, <2>3 DEF CommandOfKind, GoTo, TypeOK
    <3>2. \A d \in Coroutines : Holds(d)' => Holds(d)
      BY <1>0, <2>1, <2>3 DEF GoTo, Holds, Guarded, TypeOK
    <3>3. QED
      BY <1>0, <1>11, <2>3, <3>1, <3>2
      DEF Locked, GoTo, TypeInv, TypeOK, HolderIsFirst, Labels
  <2>4. CASE kind[c] = "recovery" /\ BeginResume(c, ready)
    BY <1>0, <1>11, <2>1, <2>4, BeginResumeTypes DEF Locked, TypeInv, TypeOK
  <2>5. QED
    BY <1>11, <2>2, <2>3, <2>4 DEF Locked
<1>12. ASSUME NEW c \in Coroutines, Robot(c) PROVE TypeInv'
  <2>0. /\ ready' \in Seq(Callback)
        /\ moving' \in BOOLEAN
        /\ kind' \in [Coroutines -> Kinds] /\ pc' \in [Coroutines -> Labels]
        /\ UNCHANGED <<linkVars, timer, lock, flagVars, going, operatorVars>>
    <3>1. [do |-> "run", who |-> c] \in Callback
      BY Callbacks
    <3>2. ready' \in Seq(Callback)
      BY <1>0, <1>12, <3>1 DEF Robot, StopTakesEffect, GotoTakesEffect, Answer
    <3>3. moving' \in BOOLEAN
      BY <1>0, <1>12 DEF Robot, StopTakesEffect, GotoTakesEffect, Answer, TypeOK
    <3>4. kind' \in [Coroutines -> Kinds] /\ pc' \in [Coroutines -> Labels]
      BY <1>0, <1>12
      DEF Robot, StopTakesEffect, GotoTakesEffect, Answer, GoTo, TypeOK, Labels
    <3>5. UNCHANGED <<linkVars, timer, lock, flagVars, going, operatorVars>>
      BY <1>12 DEF Robot, StopTakesEffect, GotoTakesEffect, Answer
    <3>6. QED
      BY <3>2, <3>3, <3>4, <3>5
  <2>1. TypeOK'
    BY <1>0, <2>0 DEF TypeOK
  <2>2. CommandOfKind' /\ \A d \in Coroutines : Holds(d)' => Holds(d)
    BY <1>0, <1>12
    DEF Robot, StopTakesEffect, GotoTakesEffect, Answer, GoTo, TypeOK, CommandOfKind, Holds,
        Guarded
  <2>3. QED
    BY <1>0, <1>12, <2>1, <2>2
    DEF Robot, StopTakesEffect, GotoTakesEffect, Answer, TypeInv, HolderIsFirst
<1>13. ASSUME NEW c \in Coroutines, StopEnds(c) \/ GotoEnds(c) \/ CommandFails(c) PROVE TypeInv'
  <2>1. ready # <<>> /\ Tail(ready) \in Seq(Callback)
    BY <1>0, <1>13, HeadOfReady DEF StopEnds, GotoEnds, CommandFails, IsNextOf, IsNext
  <2>2. /\ Guarded(c) => Holds(c)
        /\ Finish(c, Tail(ready)) \/ GiveUp(c, Tail(ready))
    BY <1>13 DEF StopEnds, GotoEnds, CommandFails, Holds
  <2>3. /\ paused' \in BOOLEAN /\ byLoss' \in BOOLEAN /\ held' \in BOOLEAN
        /\ UNCHANGED <<linkVars, timer, robotVars, operated>>
    BY <1>0, <1>13 DEF StopEnds, GotoEnds, CommandFails, Resumed, TypeOK
  <2>4. QED
    BY <1>0, <2>1, <2>2, <2>3, EndOfCommand DEF TypeInv, TypeOK
<1>14. ASSUME NEW c \in Coroutines, Recheck(c) PROVE TypeInv'
  <2>1. timer' \in {"off", "armed", "due"}
    BY <1>0, <1>14 DEF Recheck, ArmTimer, TypeOK
  <2>2. CASE TakeLock(c, "recovery")
    BY <1>0, <1>14, <2>1, <2>2, TakeLockTypes DEF Recheck, TypeInv, TypeOK
  <2>3. CASE GoTo(c, "free") /\ UNCHANGED lock
    <3>1. CommandOfKind'
      BY <1>0, <2>3 DEF CommandOfKind, GoTo, TypeOK
    <3>2. QED
      BY <1>0, <1>14, <2>1, <2>3, <3>1, GoToTypes DEF Recheck, TypeInv, TypeOK, Labels
  <2>4. QED
    BY <1>14, <2>2, <2>3 DEF Recheck
<1>15. CASE Dispatch \/ Arrive
  <2>1. TypeOK'
    BY <1>0, <1>15 DEF Dispatch, Arrive, TypeOK
  <2>2. QED
    BY <1>1, <1>15, <2>1 DEF Dispatch, Arrive
<1>16. CASE UNCHANGED vars
  BY <1>0, <1>1, <1>16 DEF vars, TypeOK
<1>17. QED
  BY <1>2, <1>3, <1>4, <1>5, <1>6, <1>7, <1>8, <1>9, <1>10, <1>11, <1>12, <1>13, <1>14, <1>15,
     <1>16
  DEF Next, Events, Thread, Queue, Coroutine

\* The initial states satisfy the type invariant and its strengthening.
LEMMA InitTypes == Init => TypeInv
<1> SUFFICES ASSUME Init PROVE TypeInv
  OBVIOUS
<1>1. TypeOK
  <2>1. <<>> \in Seq(Callback) /\ <<>> \in Seq(Coroutines)
    OBVIOUS
  <2>2. 0 \in 0..MaxChanges /\ 0 \in 0..MaxOperator
    BY PauseGuardAssumption
  <2>3. QED
    BY <2>1, <2>2 DEF Init, TypeOK, Kinds, Labels
<1>2. QED
  BY <1>1 DEF Init, TypeInv, HolderIsFirst, CommandOfKind, Holds

\* Every variable of the guard keeps its shape.
THEOREM TypeCorrect == Spec => []TypeOK
<1>1. TypeInv /\ [Next]_vars => TypeInv'
  BY StepTypes
<1>2. TypeInv => TypeOK
  BY DEF TypeInv
<1>3. QED
  BY InitTypes, <1>1, <1>2, PTL DEF Spec

\* The lock serialises the coroutines of the guard, however many are started: none
\* sends its command before that of the one before it has ended.
THEOREM Serialized == Spec => []GuardSerialized
<1>1. TypeInv /\ [Next]_vars => TypeInv'
  BY StepTypes
<1>2. TypeInv => GuardSerialized
  BY DEF TypeInv, HolderIsFirst, GuardSerialized
<1>3. QED
  BY InitTypes, <1>1, <1>2, PTL DEF Spec
-----------------------------------------------------------------------------
(* The ready queue *)

\* A callback stays queued when another one is appended.
LEMMA QueuedAppend ==
  ASSUME NEW q \in Seq(Callback), NEW x \in Callback, NEW y \in Callback,
         \E i \in 1..Len(q) : q[i] = x
  PROVE  \E i \in 1..Len(Append(q, y)) : Append(q, y)[i] = x
<1>1. PICK i \in 1..Len(q) : q[i] = x
  OBVIOUS
<1>2. i \in 1..Len(Append(q, y)) /\ Append(q, y)[i] = x
  BY <1>1
<1>3. QED
  BY <1>2

\* It stays queued when another one is taken from the head.
LEMMA QueuedTail ==
  ASSUME NEW q \in Seq(Callback), q # <<>>, NEW x \in Callback, Head(q) # x,
         \E i \in 1..Len(q) : q[i] = x
  PROVE  Tail(q) \in Seq(Callback) /\ \E i \in 1..Len(Tail(q)) : Tail(q)[i] = x
<1>1. PICK i \in 1..Len(q) : q[i] = x
  OBVIOUS
<1>2. i # 1
  BY <1>1
<1>3. Len(Tail(q)) = Len(q) - 1 /\ \A j \in 1..(Len(q) - 1) : Tail(q)[j] = q[j + 1]
  OBVIOUS
<1>4. i - 1 \in 1..(Len(q) - 1) /\ (i - 1) + 1 = i
  BY <1>2
<1>5. i - 1 \in 1..Len(Tail(q)) /\ Tail(q)[i - 1] = x
  BY <1>1, <1>3, <1>4
<1>6. Tail(q) \in Seq(Callback)
  OBVIOUS
<1>7. QED
  BY <1>5, <1>6

\* The MQTT thread's callbacks about the grace timer.
Arm == [do |-> "armTimer"]
Cancel == [do |-> "cancelTimer"]

\* They are callbacks of their own, and no coroutine's step.
LEMMA TimerCallbacks ==
  /\ Arm \in Callback /\ Cancel \in Callback
  /\ Arm.do = "armTimer" /\ Cancel.do = "cancelTimer" /\ Arm # Cancel
  /\ \A c : [do |-> "run", who |-> c].do = "run"
<1>1. Arm.do = "armTimer" /\ Cancel.do = "cancelTimer"
  BY DEF Arm, Cancel
<1>2. QED
  BY <1>1, Callbacks DEF Arm, Cancel

\* Wakeup(rest): nothing is appended to rest but the next step of a coroutine.
Wakeup(rest) == ready' = rest \/ \E c \in Coroutines : ready' = Append(rest, [do |-> "run", who |-> c])

\* A coroutine that ends queues at most one wake-up: that of the next one at the lock.
LEMMA EndWakes ==
  ASSUME TypeInv, NEW c \in Coroutines, NEW rest, Finish(c, rest) \/ GiveUp(c, rest),
         Guarded(c) => Holds(c)
  PROVE  Wakeup(rest)
<1>1. CASE Guarded(c) /\ ReleaseLock(rest)
  <2>1. lock \in Seq(Coroutines) /\ lock # <<>>
    BY <1>1 DEF TypeInv, TypeOK, HolderIsFirst
  <2>2. Tail(lock) # <<>> => Head(Tail(lock)) \in Coroutines
    BY <2>1
  <2>3. QED
    BY <1>1, <2>2 DEF ReleaseLock, Wakeup
<1>2. CASE ready' = rest
  BY <1>2 DEF Wakeup
<1>3. QED
  BY <1>1, <1>2 DEF Finish, GiveUp

\* What a step does to the ready queue: it appends one callback, or takes the head.
Appends == \E x \in Callback : /\ ready' = Append(ready, x)
                               /\ x = Arm => PostArm
                               /\ x = Cancel => PostCancel
                               /\ x.do = "create" => \/ x.kind = "recovery"
                                                     \/ Operate("startPause")
                                                     \/ Operate("stopPause")
Takes == /\ ready # <<>> /\ Wakeup(Tail(ready))
         /\ CancelTimer \/ RunArm \/ RunCreate \/ RunGrace \/ Head(ready).do = "run"

\* Every step leaves the loop's queue alone, appends to it, or takes its first callback.
LEMMA QueueStep ==
  ASSUME TypeInv, [Next]_vars
  PROVE  ready' = ready \/ Appends \/ Takes
<1>0. /\ \A w \in {"cancelTimer", "armTimer", "grace"} : [do |-> w] \in Callback
      /\ \A k \in {"recovery", "startPause", "stopPause"} :
            [do |-> "create", kind |-> k] \in Callback
      /\ \A c \in Coroutines : [do |-> "run", who |-> c] \in Callback
  BY Callbacks DEF Kinds
<1> USE DEF Arm, Cancel
<1>1. CASE LinkUp \/ LinkDown \/ Dispatch \/ Arrive \/ UNCHANGED vars
  BY <1>1 DEF LinkUp, LinkDown, Dispatch, Arrive, vars
<1>2. CASE PostCancel \/ PostRecovery \/ PostArm \/ GraceElapses
  BY <1>0, <1>2 DEF PostCancel, PostRecovery, PostArm, GraceElapses, Appends
<1>3. CASE Operate("startPause") \/ Operate("stopPause")
  BY <1>0, <1>3 DEF Operate, Appends
<1>4. CASE CancelTimer \/ RunArm
  BY <1>4 DEF CancelTimer, RunArm, IsNext, Takes, Wakeup
<1>5. CASE RunCreate \/ RunGrace
  BY <1>5 DEF RunCreate, RunGrace, IsNext, CreateTask, Takes, Wakeup
<1>6. ASSUME NEW c \in Coroutines, Begin(c) PROVE Takes
  <2>1. ready # <<>> /\ Head(ready).do = "run" /\ pc[c] = "ready"
    BY <1>6 DEF Begin, IsNextOf, IsNext
  <2>2. CASE ready' = Tail(ready)
    BY <2>1, <2>2 DEF Takes, Wakeup
  <2>3. CASE kind[c] = "stopPause" /\ Finish(c, Tail(ready))
    BY <2>1, <2>3, EndWakes DEF Takes, Guarded
  <2>4. QED
    BY <1>6, <2>2, <2>3 DEF Begin, BeginResume
<1>7. ASSUME NEW c \in Coroutines, Granted(c) PROVE Takes
  BY <1>7 DEF Granted, IsNextOf, IsNext, Takes, Wakeup
<1>8. ASSUME NEW c \in Coroutines, Locked(c) PROVE ready' = ready \/ Appends
  <2>1. Holds(c)
    BY <1>8 DEF Locked, Holds, Guarded
  <2>2. ready' = ready \/ Finish(c, ready) \/ GiveUp(c, ready)
    BY <1>8 DEF Locked, BeginResume
  <2>3. Wakeup(ready)
    BY <2>1, <2>2, EndWakes DEF Wakeup
  <2>4. QED
    BY <1>0, <2>3 DEF Wakeup, Appends
<1>9. ASSUME NEW c \in Coroutines, StopEnds(c) \/ GotoEnds(c) \/ CommandFails(c) PROVE Takes
  <2>1. /\ ready # <<>> /\ Head(ready).do = "run"
        /\ Guarded(c) => Holds(c)
        /\ Finish(c, Tail(ready)) \/ GiveUp(c, Tail(ready))
    BY <1>9 DEF StopEnds, GotoEnds, CommandFails, IsNextOf, IsNext, Holds
  <2>2. QED
    BY <2>1, EndWakes DEF Takes
<1>10. ASSUME NEW c \in Coroutines, Robot(c) \/ Recheck(c) PROVE ready' = ready \/ Appends
  BY <1>0, <1>10
  DEF Robot, StopTakesEffect, GotoTakesEffect, Answer, Recheck, Appends
<1>11. QED
  BY <1>1, <1>2, <1>3, <1>4, <1>5, <1>6, <1>7, <1>8, <1>9, <1>10
  DEF Next, Events, Thread, Queue, Coroutine

\* A callback that is not a coroutine's step leaves the queue by being run.
LEMMA QueuedStays ==
  ASSUME TypeInv, [Next]_vars, NEW x \in Callback, x.do # "run", IsQueued(x)
  PROVE  \/ IsQueued(x)'
         \/ Head(ready) = x /\ (CancelTimer \/ RunArm \/ RunCreate \/ RunGrace)
<1>0. ready \in Seq(Callback)
  BY DEF TypeInv, TypeOK
<1>1. \E i \in 1..Len(ready) : ready[i] = x
  BY DEF IsQueued
<1>2. CASE ready' = ready
  BY <1>1, <1>2 DEF IsQueued
<1>3. CASE Appends
  BY <1>0, <1>1, <1>3, QueuedAppend DEF Appends, IsQueued
<1>4. CASE Takes /\ Head(ready) # x
  <2>1. Tail(ready) \in Seq(Callback) /\ \E i \in 1..Len(Tail(ready)) : Tail(ready)[i] = x
    BY <1>0, <1>1, <1>4, QueuedTail DEF Takes
  <2>2. CASE ready' = Tail(ready)
    BY <2>1, <2>2 DEF IsQueued
  <2>3. ASSUME NEW c \in Coroutines, ready' = Append(Tail(ready), [do |-> "run", who |-> c])
        PROVE  IsQueued(x)'
    BY <2>1, <2>3, Callbacks, QueuedAppend DEF IsQueued
  <2>4. QED
    BY <1>4, <2>2, <2>3 DEF Takes, Wakeup
<1>5. CASE Takes /\ Head(ready) = x
  BY <1>5 DEF Takes
<1>6. QED
  BY <1>2, <1>3, <1>4, <1>5, QueueStep

-----------------------------------------------------------------------------
(* A broker that was never reached is not lost *)

\* Every step keeps that a broker never reached is not lost.
LEMMA NeverLostStep ==
  ASSUME TypeInv, NotLostBeforeFound, [Next]_vars
  PROVE  NotLostBeforeFound'
<1> SUFFICES ASSUME ~ever'
             PROVE  timer' = "off" /\ ~byLoss' /\ ~IsRunning("lossPause")'
  BY DEF NotLostBeforeFound
<1> USE DEF linkVars, robotVars, flagVars, coVars, operatorVars
<1>0. kind \in [Coroutines -> Kinds] /\ pc \in [Coroutines -> Labels] /\ ready \in Seq(Callback)
  BY DEF TypeInv, TypeOK
<1>1. ~PostCancel /\ UNCHANGED ever
  BY DEF Next, Events, Thread, Queue, Coroutine, Robot, LinkUp, LinkDown, Operate, PostCancel,
         PostRecovery, PostArm, CancelTimer, RunArm, RunCreate, RunGrace, GraceElapses, Begin,
         Granted, Locked, StopEnds, GotoEnds, CommandFails, Recheck, StopTakesEffect,
         GotoTakesEffect, Answer, Dispatch, Arrive, vars
<1>2. /\ ~ever /\ timer = "off" /\ ~byLoss
      /\ \A c \in Coroutines : pc[c] = "free" \/ kind[c] # "lossPause"
  BY <1>1 DEF NotLostBeforeFound, IsRunning
<1>3. CASE timer' = timer /\ byLoss' = byLoss /\ UNCHANGED coVars
  BY <1>2, <1>3 DEF IsRunning
<1>4. CASE LinkUp \/ LinkDown \/ PostRecovery \/ PostArm \/ Operate("startPause")
           \/ Operate("stopPause") \/ Dispatch \/ Arrive \/ UNCHANGED vars
  BY <1>3, <1>4
  DEF LinkUp, LinkDown, PostRecovery, PostArm, Operate, Dispatch, Arrive, vars
<1>5. CASE CancelTimer \/ RunArm \/ GraceElapses
  BY <1>2, <1>3, <1>5 DEF CancelTimer, RunArm, ArmTimer, GraceElapses
<1>6. CASE RunCreate
  <2>1. Head(ready).kind # "lossPause"
    BY <1>0, <1>6, HeadOfReady DEF RunCreate, IsNext
  <2>2. QED
    BY <1>0, <1>2, <1>6, <2>1 DEF RunCreate, CreateTask, IsRunning
<1>7. CASE RunGrace
  BY <1>2, <1>3, <1>7 DEF RunGrace
<1>8. ASSUME NEW c \in Coroutines, Coroutine(c) \/ Robot(c)
      PROVE  timer' = "off" /\ ~byLoss' /\ ~IsRunning("lossPause")'
  <2>1. kind[c] # "lossPause" /\ pc[c] # "free"
    BY <1>2, <1>8
    DEF Coroutine, Robot, Begin, Granted, Locked, StopEnds, GotoEnds, CommandFails, Recheck,
        StopTakesEffect, GotoTakesEffect, Answer
  <2>2. timer' = "off"
    BY <1>2, <1>8
    DEF Coroutine, Robot, Begin, Granted, Locked, StopEnds, GotoEnds, CommandFails, Recheck,
        StopTakesEffect, GotoTakesEffect, Answer, ArmTimer
  <2>3. byLoss' = byLoss \/ byLoss' = FALSE
    <3>1. CASE Begin(c) \/ Locked(c)
      BY <1>2, <3>1 DEF Begin, Locked, BeginResume, Resumed
    <3>2. CASE Granted(c) \/ Robot(c) \/ Recheck(c)
      BY <3>2
      DEF Granted, Robot, Recheck, StopTakesEffect, GotoTakesEffect, Answer
    <3>3. CASE StopEnds(c) \/ GotoEnds(c) \/ CommandFails(c)
      BY <1>2, <2>1, <3>3 DEF StopEnds, GotoEnds, CommandFails, Resumed
    <3>4. QED
      BY <1>8, <3>1, <3>2, <3>3 DEF Coroutine
  <2>4. \A d \in Coroutines : /\ kind'[d] # "lossPause" \/ kind'[d] = kind[d]
                              /\ d # c => kind'[d] = kind[d] /\ pc'[d] = pc[d]
    BY <1>0, <1>8, <2>1
    DEF Coroutine, Robot, Begin, Granted, Locked, StopEnds, GotoEnds, CommandFails, Recheck,
        StopTakesEffect, GotoTakesEffect, Answer, BeginResume, Finish, GiveUp, TakeLock, GoTo
  <2>5. QED
    BY <1>2, <2>1, <2>2, <2>3, <2>4 DEF IsRunning
<1>9. QED
  BY <1>1, <1>4, <1>5, <1>6, <1>7, <1>8 DEF Next, Events, Thread, Queue

\* The guard leaves a robot alone whose broker has never been reached.
THEOREM NeverLost == Spec => []NotLostBeforeFound
<1>1. Init => TypeInv /\ NotLostBeforeFound
  BY InitTypes DEF Init, NotLostBeforeFound, IsRunning
<1>2. TypeInv /\ NotLostBeforeFound /\ [Next]_vars => TypeInv' /\ NotLostBeforeFound'
  BY StepTypes, NeverLostStep
<1>3. QED
  BY <1>1, <1>2, PTL DEF Spec

-----------------------------------------------------------------------------
(* A reconnection leaves no grace timer behind *)

\* Every a in the queue is followed by a b.
Followed(q, a, b) == \A i \in 1..Len(q) : q[i] = a => \E j \in (i + 1)..Len(q) : q[j] = b

\* The MQTT thread has told the loop of a link that is up.
LinkTold == link /\ client # "up"

TimerInv ==
  /\ client = "down" => ~link
  /\ LinkTold => Followed(ready, Arm, Cancel) /\ (timer # "off" => IsQueued(Cancel))

\* Appending any callback but an a keeps every a followed by a b.
LEMMA FollowedAppend ==
  ASSUME NEW q \in Seq(Callback), NEW a, NEW b, NEW x \in Callback, Followed(q, a, b), x # a
  PROVE  Followed(Append(q, x), a, b)
<1>1. /\ Len(Append(q, x)) = Len(q) + 1 /\ Append(q, x)[Len(q) + 1] = x
      /\ \A i \in 1..Len(q) : Append(q, x)[i] = q[i]
  OBVIOUS
<1>2. QED
  BY <1>1 DEF Followed

\* A b at the end of the queue follows every a before it.
LEMMA FollowedByLast ==
  ASSUME NEW q \in Seq(Callback), NEW a, NEW b \in Callback, a # b
  PROVE  Followed(Append(q, b), a, b)
<1>1. Len(q) \in Nat /\ Len(Append(q, b)) = Len(q) + 1 /\ Append(q, b)[Len(q) + 1] = b
  OBVIOUS
<1>2. \A i \in 1..(Len(q) + 1) : i # Len(q) + 1 => Len(q) + 1 \in (i + 1)..(Len(q) + 1)
  BY <1>1
<1>3. QED
  BY <1>1, <1>2 DEF Followed

\* Taking the first callback keeps every a followed by a b.
LEMMA FollowedTail ==
  ASSUME NEW q \in Seq(Callback), NEW a, NEW b, q # <<>>, Followed(q, a, b)
  PROVE  Followed(Tail(q), a, b)
<1>1. /\ Len(q) \in Nat /\ Len(Tail(q)) = Len(q) - 1
      /\ \A j \in 1..(Len(q) - 1) : Tail(q)[j] = q[j + 1]
  OBVIOUS
<1>2. SUFFICES ASSUME NEW i \in 1..(Len(q) - 1), Tail(q)[i] = a
               PROVE  \E j \in (i + 1)..(Len(q) - 1) : Tail(q)[j] = b
  BY <1>1 DEF Followed
<1>3. i + 1 \in 1..Len(q) /\ q[i + 1] = a
  BY <1>1, <1>2
<1>4. PICK k \in (i + 1 + 1)..Len(q) : q[k] = b
  BY <1>3 DEF Followed
<1>5. k - 1 \in (i + 1)..(Len(q) - 1) /\ k - 1 \in 1..(Len(q) - 1) /\ (k - 1) + 1 = k
  BY <1>1, <1>4
<1>6. Tail(q)[k - 1] = b
  BY <1>1, <1>4, <1>5
<1>7. QED
  BY <1>5, <1>6

\* When an a is at the head of the queue, a b follows.
LEMMA FollowedHead ==
  ASSUME NEW q \in Seq(Callback), NEW a, NEW b, q # <<>>, Followed(q, a, b), Head(q) = a
  PROVE  \E j \in 1..Len(Tail(q)) : Tail(q)[j] = b
<1>1. /\ Len(q) \in Nat /\ Len(q) >= 1 /\ Len(Tail(q)) = Len(q) - 1 /\ q[1] = Head(q)
      /\ \A j \in 1..(Len(q) - 1) : Tail(q)[j] = q[j + 1]
  OBVIOUS
<1>2. PICK k \in (1 + 1)..Len(q) : q[k] = b
  BY <1>1 DEF Followed
<1>3. k - 1 \in 1..(Len(q) - 1) /\ (k - 1) + 1 = k
  BY <1>1, <1>2
<1>4. QED
  BY <1>1, <1>2, <1>3

\* Only the posting of an arming can leave one that no cancellation follows, and only
\* the posting of a cancellation one that no arming follows.
LEMMA FollowedStep ==
  ASSUME TypeInv, [Next]_vars, NEW a, NEW b, Followed(ready, a, b),
         (a = Arm /\ ~PostArm) \/ (a = Cancel /\ ~PostCancel)
  PROVE  Followed(ready, a, b)'
<1>0. ready \in Seq(Callback)
  BY DEF TypeInv, TypeOK
<1>1. CASE ready' = ready
  BY <1>1 DEF Followed
<1>2. CASE Appends
  <2>1. PICK x \in Callback : ready' = Append(ready, x) /\ x # a
    BY <1>2 DEF Appends
  <2>2. Followed(Append(ready, x), a, b)
    BY <1>0, <2>1, FollowedAppend
  <2>3. QED
    BY <2>1, <2>2 DEF Followed
<1>3. CASE Takes
  <2>1. ready # <<>> /\ Tail(ready) \in Seq(Callback) /\ Followed(Tail(ready), a, b)
    BY <1>0, <1>3, FollowedTail DEF Takes
  <2>2. CASE ready' = Tail(ready)
    BY <2>1, <2>2 DEF Followed
  <2>3. ASSUME NEW c \in Coroutines, ready' = Append(Tail(ready), [do |-> "run", who |-> c])
        PROVE  Followed(ready, a, b)'
    <3>1. [do |-> "run", who |-> c] \in Callback /\ [do |-> "run", who |-> c] # a
      BY Callbacks, TimerCallbacks
    <3>2. Followed(Append(Tail(ready), [do |-> "run", who |-> c]), a, b)
      BY <2>1, <3>1, FollowedAppend
    <3>3. QED
      BY <2>3, <3>2 DEF Followed
  <2>4. QED
    BY <1>3, <2>2, <2>3 DEF Takes, Wakeup
<1>4. QED
  BY <1>1, <1>2, <1>3, QueueStep

\* Every step keeps the invariant about the grace timer.
LEMMA TimerStep ==
  ASSUME TypeInv, TimerInv, [Next]_vars
  PROVE  TimerInv'
<1> USE DEF linkVars, robotVars, flagVars, coVars, operatorVars
<1>0. /\ ready \in Seq(Callback)
      /\ link \in BOOLEAN /\ timer \in {"off", "armed", "due"}
      /\ client \in {"idle", "up", "up2", "down"}
  BY DEF TypeInv, TypeOK
<1>1. (client = "down" => ~link)'
  BY <1>0
  DEF TimerInv, Next, Events, Thread, Queue, Coroutine, Robot, LinkUp, LinkDown, Operate,
      PostCancel, PostRecovery, PostArm, CancelTimer, RunArm, RunCreate, RunGrace, GraceElapses,
      Begin, Granted, Locked, StopEnds, GotoEnds, CommandFails, Recheck, StopTakesEffect,
      GotoTakesEffect, Answer, Dispatch, Arrive, vars
<1>2. CASE PostCancel
  <2>1. ready' = Append(ready, Cancel)
    BY <1>2 DEF PostCancel, Cancel
  <2>2. Followed(ready, Arm, Cancel)'
    <3>1. Followed(Append(ready, Cancel), Arm, Cancel)
      BY <1>0, TimerCallbacks, FollowedByLast
    <3>2. QED
      BY <2>1, <3>1 DEF Followed
  <2>3. IsQueued(Cancel)'
    <3>1. Len(ready') = Len(ready) + 1 /\ ready'[Len(ready) + 1] = Cancel
      BY <1>0, <2>1, TimerCallbacks
    <3>2. Len(ready) + 1 \in 1..(Len(ready) + 1)
      BY <1>0
    <3>3. QED
      BY <3>1, <3>2 DEF IsQueued
  <2>4. QED
    BY <1>1, <2>2, <2>3 DEF TimerInv
<1>3. CASE LinkDown \/ LinkUp \/ PostArm
  <2>1. ~LinkTold'
    BY <1>3, <1>0 DEF LinkDown, LinkUp, PostArm, TimerInv, LinkTold
  <2>2. QED
    BY <1>1, <2>1 DEF TimerInv
<1>4. CASE LinkTold' /\ ~PostCancel /\ ~PostArm /\ ~LinkDown /\ ~LinkUp
  <2>1. link' = link /\ (client' = client \/ PostRecovery)
    BY <1>4
    DEF Next, Events, Thread, Queue, Coroutine, Robot, Operate, CancelTimer, RunArm,
        RunCreate, RunGrace, GraceElapses, Begin, Granted, Locked, StopEnds, GotoEnds,
        CommandFails, Recheck, StopTakesEffect, GotoTakesEffect, Answer, Dispatch, Arrive, vars,
        PostRecovery
  <2>2. LinkTold
    BY <1>4, <2>1 DEF LinkTold, PostRecovery
  <2>3. Followed(ready, Arm, Cancel)'
    BY <1>4, <2>2, FollowedStep DEF TimerInv
  <2>4. CASE RunArm
    <3>1. /\ ready # <<>> /\ Head(ready).do = "armTimer" /\ ready' = Tail(ready)
      BY <2>4 DEF RunArm, IsNext
    <3>2. Head(ready) = Arm
      BY <1>0, <3>1, HeadOfReady DEF Callback, Arm
    <3>3. IsQueued(Cancel)'
      BY <1>0, <2>2, <3>1, <3>2, FollowedHead DEF TimerInv, IsQueued
    <3>4. QED
      BY <1>1, <2>3, <3>3 DEF TimerInv
  <2>5. CASE CancelTimer
    BY <1>1, <2>3, <2>5 DEF CancelTimer, TimerInv
  <2>6. CASE ~RunArm /\ ~CancelTimer /\ timer' # "off"
    <3>1. timer # "off"
      BY <1>4, <2>1, <2>2, <2>6
      DEF LinkTold, Next, Events, Thread, Queue, Coroutine, Robot, Operate,
          RunCreate, RunGrace, GraceElapses, Begin, Granted, Locked, StopEnds, GotoEnds,
          CommandFails, Recheck, StopTakesEffect, GotoTakesEffect, Answer, Dispatch, Arrive,
          vars, PostRecovery
    <3>2. IsQueued(Cancel)
      BY <2>2, <3>1 DEF TimerInv
    <3>3. Cancel \in Callback /\ Cancel.do = "cancelTimer"
      BY TimerCallbacks
    <3>4. ~(Head(ready) = Cancel /\ (RunCreate \/ RunGrace))
      BY <3>3 DEF RunCreate, RunGrace, IsNext
    <3>5. IsQueued(Cancel)'
      BY <2>6, <3>2, <3>3, <3>4, QueuedStays
    <3>6. QED
      BY <1>1, <2>3, <3>5 DEF TimerInv
  <2>7. CASE timer' = "off"
    BY <1>1, <2>3, <2>7 DEF TimerInv
  <2>8. QED
    BY <2>4, <2>5, <2>6, <2>7
<1>5. CASE ~LinkTold'
  BY <1>1, <1>5 DEF TimerInv
<1>6. QED
  BY <1>2, <1>3, <1>4, <1>5

\* A grace timer that runs while the link is up is about to be cancelled.
THEOREM NoTimerLeft == Spec => []TimerMeansLost
<1>1. Init => TypeInv /\ TimerInv
  BY InitTypes DEF Init, TimerInv, LinkTold
<1>2. TypeInv /\ TimerInv /\ [Next]_vars => TypeInv' /\ TimerInv'
  BY StepTypes, TimerStep
<1>3. TimerInv => TimerMeansLost
  BY DEF TimerInv, LinkTold, TimerMeansLost, Cancel
<1>4. QED
  BY <1>1, <1>2, <1>3, PTL DEF Spec

-----------------------------------------------------------------------------
(* A pause that the guard owns ends with the loss *)

\* The loop runs one stretch of code without an await at a time.
OneInSync == \A c, d \in Coroutines : pc[c] \in Sync /\ pc[d] \in Sync => c = d

\* Somebody ends the pause: the third disjunct is the pause that reads the link next.
ResumedBySomeone ==
  \/ IsStarting("recovery") \/ IsRunning("recovery")
  \/ \E c \in Coroutines : kind[c] = "lossPause" /\ pc[c] = "recheck"

RecoveryInv ==
  /\ OneInSync
  /\ client = "down" => ~link
  /\ \A c \in Coroutines : kind[c] = "recovery" /\ pc[c] = "recheck" => ~byLoss
  /\ link /\ client = "idle" /\ byLoss => ResumedBySomeone

\* A coroutine enters Sync from the ready queue, when no other one is there.
LEMMA SyncStep ==
  ASSUME TypeInv, OneInSync, [Next]_vars
  PROVE  OneInSync'
<1>0. kind \in [Coroutines -> Kinds] /\ pc \in [Coroutines -> Labels]
  BY DEF TypeInv, TypeOK
<1>1. CASE UNCHANGED pc
  BY <1>1 DEF OneInSync
<1>2. CASE Events \/ Thread \/ Queue \/ GraceElapses \/ Dispatch \/ Arrive \/ UNCHANGED vars
  BY <1>0, <1>1, <1>2
  DEF Events, Thread, Queue, LinkUp, LinkDown, Operate, PostCancel, PostRecovery, PostArm,
      CancelTimer, RunArm, RunCreate, RunGrace, CreateTask, GraceElapses, Dispatch, Arrive, vars,
      coVars, OneInSync, Sync
<1>3. ASSUME NEW c \in Coroutines, Coroutine(c) \/ Robot(c) PROVE OneInSync'
  <2>1. \A d \in Coroutines : d # c => pc'[d] = pc[d]
    BY <1>0, <1>3
    DEF Coroutine, Robot, Begin, Granted, Locked, StopEnds, GotoEnds, CommandFails, Recheck,
        StopTakesEffect, GotoTakesEffect, Answer, BeginResume, Finish, GiveUp, TakeLock, GoTo
  <2>2. pc[c] \in Sync \/ LoopFree \/ pc'[c] \notin Sync
    BY <1>0, <1>3
    DEF Coroutine, Robot, Begin, Granted, Locked, StopEnds, GotoEnds, CommandFails, Recheck,
        StopTakesEffect, GotoTakesEffect, Answer, IsNextOf, IsNext, GoTo, Sync
  <2>3. QED
    BY <2>1, <2>2 DEF OneInSync, LoopFree
<1>4. QED
  BY <1>2, <1>3 DEF Next

\* The resumption that is queued stays queued until its coroutine exists.
LEMMA StartingStays ==
  ASSUME TypeInv, [Next]_vars, IsStarting("recovery")
  PROVE  IsStarting("recovery")' \/ IsRunning("recovery")'
<1> DEFINE x == [do |-> "create", kind |-> "recovery"]
<1>1. x \in Callback /\ x.do = "create" /\ x.kind = "recovery"
  BY Callbacks DEF Kinds
<1>2. IsQueued(x)' \/ (Head(ready) = x /\ (CancelTimer \/ RunArm \/ RunCreate \/ RunGrace))
  BY <1>1, QueuedStays DEF IsStarting
<1>3. CASE Head(ready) = x /\ RunCreate
  <2>1. CreateTask("recovery", Tail(ready))
    BY <1>1, <1>3 DEF RunCreate
  <2>2. QED
    BY <2>1 DEF CreateTask, IsRunning, TypeInv, TypeOK
<1>4. ~(Head(ready) = x /\ (CancelTimer \/ RunArm \/ RunGrace))
  BY <1>1 DEF CancelTimer, RunArm, RunGrace, IsNext
<1>5. QED
  BY <1>2, <1>3, <1>4 DEF IsStarting

\* Steps of the thread, the timer and the worker leave the coroutines alone, and a
\* new one takes an identity that is free.
LEMMA SomeoneStays ==
  ASSUME TypeInv, [Next]_vars, ResumedBySomeone,
         Events \/ Thread \/ Queue \/ GraceElapses \/ Dispatch \/ Arrive \/ UNCHANGED vars
  PROVE  ResumedBySomeone'
<1>0. kind \in [Coroutines -> Kinds] /\ pc \in [Coroutines -> Labels]
  BY DEF TypeInv, TypeOK
<1>1. CASE IsStarting("recovery")
  BY <1>1, StartingStays DEF ResumedBySomeone
<1>2. CASE \E c \in Coroutines : \/ pc[c] # "free" /\ kind[c] = "recovery"
                                 \/ pc[c] = "recheck" /\ kind[c] = "lossPause"
  <2>1. PICK c \in Coroutines : \/ pc[c] # "free" /\ kind[c] = "recovery"
                                \/ pc[c] = "recheck" /\ kind[c] = "lossPause"
    BY <1>2
  <2>2. pc'[c] = pc[c] /\ kind'[c] = kind[c]
    BY <1>0, <2>1
    DEF Events, Thread, Queue, LinkUp, LinkDown, Operate, PostCancel, PostRecovery, PostArm,
        CancelTimer, RunArm, RunCreate, RunGrace, CreateTask, GraceElapses, Dispatch, Arrive,
        vars, coVars
  <2>3. QED
    BY <2>1, <2>2 DEF ResumedBySomeone, IsRunning
<1>3. QED
  BY <1>1, <1>2 DEF ResumedBySomeone, IsRunning

\* Every step keeps that a held pause of the guard has a resume on its way.
LEMMA RecoveryStep ==
  ASSUME TypeInv, RecoveryInv, [Next]_vars
  PROVE  RecoveryInv'
<1> USE DEF linkVars, robotVars, flagVars, coVars, operatorVars
<1>0. /\ kind \in [Coroutines -> Kinds] /\ pc \in [Coroutines -> Labels]
      /\ ready \in Seq(Callback)
      /\ link \in BOOLEAN /\ byLoss \in BOOLEAN
      /\ client \in {"idle", "up", "up2", "down"}
  BY DEF TypeInv, TypeOK
<1>1. OneInSync'
  BY SyncStep DEF RecoveryInv
<1>2. (client = "down" => ~link)'
  BY <1>0
  DEF RecoveryInv, Next, Events, Thread, Queue, Coroutine, Robot, LinkUp, LinkDown, Operate,
      PostCancel, PostRecovery, PostArm, CancelTimer, RunArm, RunCreate, RunGrace, GraceElapses,
      Begin, Granted, Locked, StopEnds, GotoEnds, CommandFails, Recheck, StopTakesEffect,
      GotoTakesEffect, Answer, Dispatch, Arrive, vars
<1> DEFINE Surroundings == Events \/ Thread \/ Queue \/ GraceElapses \/ Dispatch \/ Arrive
                           \/ UNCHANGED vars
           Done == \A c \in Coroutines : kind[c] = "recovery" /\ pc[c] = "recheck" => ~byLoss
           Owned == link /\ client = "idle" /\ byLoss => ResumedBySomeone
<1>3. CASE Surroundings
  <2>1. byLoss' = byLoss
    BY <1>3
    DEF Events, Thread, Queue, LinkUp, LinkDown, Operate, PostCancel, PostRecovery, PostArm,
        CancelTimer, RunArm, RunCreate, RunGrace, GraceElapses, Dispatch, Arrive, vars
  <2>2. \A c \in Coroutines : pc'[c] = "recheck" => pc[c] = "recheck" /\ kind'[c] = kind[c]
    BY <1>0, <1>3
    DEF Events, Thread, Queue, LinkUp, LinkDown, Operate, PostCancel, PostRecovery, PostArm,
        CancelTimer, RunArm, RunCreate, RunGrace, CreateTask, GraceElapses, Dispatch, Arrive, vars
  <2>3. Done'
    BY <2>1, <2>2 DEF RecoveryInv
  <2>4. CASE PostRecovery /\ byLoss
    <3>1. ready' = Append(ready, [do |-> "create", kind |-> "recovery"])
      BY <2>4 DEF PostRecovery
    <3>2. Len(ready') = Len(ready) + 1 /\ Len(ready) + 1 \in 1..(Len(ready) + 1)
          /\ ready'[Len(ready) + 1] = [do |-> "create", kind |-> "recovery"]
      BY <1>0, <3>1
    <3>3. IsStarting("recovery")'
      BY <3>2 DEF IsStarting, IsQueued
    <3>4. QED
      BY <1>1, <1>2, <2>3, <3>3 DEF RecoveryInv, ResumedBySomeone
  <2>5. CASE ~(PostRecovery /\ byLoss) /\ (link /\ client = "idle" /\ byLoss)'
    <3>1. link /\ client = "idle" /\ byLoss
      BY <1>0, <1>3, <2>1, <2>5
      DEF RecoveryInv, Events, Thread, Queue, LinkUp, LinkDown, Operate, PostCancel,
          PostRecovery, PostArm, CancelTimer, RunArm, RunCreate, RunGrace, GraceElapses,
          Dispatch, Arrive, vars
    <3>2. ResumedBySomeone'
      BY <1>3, <3>1, SomeoneStays DEF RecoveryInv
    <3>3. QED
      BY <1>1, <1>2, <2>3, <3>2 DEF RecoveryInv
  <2>6. CASE ~(link /\ client = "idle" /\ byLoss)'
    BY <1>1, <1>2, <2>3, <2>6 DEF RecoveryInv
  <2>7. QED
    BY <2>4, <2>5, <2>6
<1>4. ASSUME NEW c \in Coroutines, Coroutine(c) \/ Robot(c) PROVE RecoveryInv'
  <2>1. \A d \in Coroutines : d # c => pc'[d] = pc[d] /\ kind'[d] = kind[d]
    BY <1>0, <1>4
    DEF Coroutine, Robot, Begin, Granted, Locked, StopEnds, GotoEnds, CommandFails, Recheck,
        StopTakesEffect, GotoTakesEffect, Answer, BeginResume, Finish, GiveUp, TakeLock, GoTo
  <2>2. link' = link /\ client' = client /\ pc[c] # "free"
    BY <1>4
    DEF Coroutine, Robot, Begin, Granted, Locked, StopEnds, GotoEnds, CommandFails, Recheck,
        StopTakesEffect, GotoTakesEffect, Answer
  \* What c does to the flag, by its kind
  <2>3. /\ byLoss' \in BOOLEAN
        /\ kind[c] # "lossPause" => (byLoss' => byLoss)
        /\ kind[c] = "lossPause" /\ byLoss' /\ ~byLoss
             => pc'[c] = "recheck" /\ kind'[c] = "lossPause" /\ LoopFree
    <3>1. CASE Begin(c) \/ Locked(c)
      <4>1. byLoss' = byLoss \/ byLoss' = (byLoss /\ Seer /\ kind[c] = "stopPause")
        BY <3>1 DEF Begin, Locked, BeginResume, Resumed
      <4>2. byLoss' \in BOOLEAN
        BY <1>0, <4>1
      <4>3. byLoss' => byLoss
        BY <4>1
      <4>4. QED
        BY <4>2, <4>3
    <3>2. CASE Granted(c) \/ Robot(c) \/ Recheck(c)
      BY <1>0, <3>2 DEF Granted, Robot, Recheck, StopTakesEffect, GotoTakesEffect, Answer
    <3>3. CASE StopEnds(c)
      BY <1>0, <3>3
      DEF StopEnds, Finish, Guarded, GoTo, IsNextOf, IsNext
    <3>4. CASE GotoEnds(c) \/ CommandFails(c)
      BY <1>0, <3>4 DEF GotoEnds, CommandFails, Resumed
    <3>5. QED
      BY <1>4, <3>1, <3>2, <3>3, <3>4 DEF Coroutine
  \* A recovery that ends has cleared the flag, or had nothing to do
  <2>4. kind'[c] = "recovery" /\ pc'[c] \in {"recheck", "free"} => ~byLoss' \/ ~link
    <3>1. CASE Begin(c) \/ Granted(c) \/ Robot(c)
      BY <1>0, <3>1
      DEF Begin, Granted, Robot, StopTakesEffect, GotoTakesEffect, Answer, TakeLock, GoTo,
          BeginResume, Finish, Guarded
    <3>2. CASE Locked(c)
      BY <1>0, <3>2 DEF Locked, BeginResume, Resumed, Finish, GiveUp, Guarded, GoTo
    <3>3. CASE StopEnds(c)
      BY <1>0, <3>3 DEF StopEnds, Finish, Guarded, GoTo, TypeInv, CommandOfKind
    <3>4. CASE GotoEnds(c) \/ CommandFails(c)
      BY <1>0, <3>4 DEF GotoEnds, CommandFails, Resumed, Finish, GiveUp, Guarded, GoTo
    <3>5. CASE Recheck(c)
      BY <1>0, <3>5 DEF Recheck, TakeLock, GoTo, RecoveryInv
    <3>6. QED
      BY <1>4, <3>1, <3>2, <3>3, <3>4, <3>5 DEF Coroutine
  <2>5. kind'[c] = "recovery" /\ pc'[c] = "recheck" => ~byLoss'
    <3>1. CASE Begin(c) \/ Granted(c) \/ Robot(c)
      BY <1>0, <3>1
      DEF Begin, Granted, Robot, StopTakesEffect, GotoTakesEffect, Answer, TakeLock, GoTo,
          BeginResume, Finish, Guarded
    <3>2. CASE Locked(c)
      BY <1>0, <3>2 DEF Locked, BeginResume, Resumed, Finish, GiveUp, Guarded, GoTo
    <3>3. CASE StopEnds(c)
      BY <1>0, <3>3 DEF StopEnds, Finish, Guarded, GoTo, TypeInv, CommandOfKind
    <3>4. CASE GotoEnds(c) \/ CommandFails(c)
      BY <1>0, <3>4 DEF GotoEnds, CommandFails, Resumed, Finish, GiveUp, Guarded, GoTo
    <3>5. CASE Recheck(c)
      BY <1>0, <3>5 DEF Recheck, TakeLock, GoTo
    <3>6. QED
      BY <1>4, <3>1, <3>2, <3>3, <3>4, <3>5 DEF Coroutine
  <2>6. Done'
    <3>1. SUFFICES ASSUME NEW d \in Coroutines, d # c, kind[d] = "recovery", pc[d] = "recheck"
                   PROVE  ~byLoss'
      BY <2>1, <2>5
    <3>2. ~byLoss /\ ~LoopFree
      BY <3>1 DEF RecoveryInv, LoopFree, Sync
    <3>3. QED
      BY <1>0, <2>3, <3>2 DEF Kinds
  <2>7. ASSUME (link /\ client = "idle" /\ byLoss)' PROVE ResumedBySomeone'
    <3>1. CASE kind[c] = "lossPause" /\ ~byLoss
      BY <2>3, <2>7, <3>1 DEF ResumedBySomeone
    <3>2. CASE byLoss
      <4>1. ResumedBySomeone
        BY <2>2, <2>7, <3>2 DEF RecoveryInv
      <4>2. CASE IsStarting("recovery")
        BY <4>2, StartingStays DEF ResumedBySomeone
      <4>3. CASE kind[c] = "recovery"
        <5>1. kind'[c] = "recovery"
          BY <1>0, <1>4, <4>3
          DEF Coroutine, Robot, Begin, Granted, Locked, StopEnds, GotoEnds, CommandFails,
              Recheck, StopTakesEffect, GotoTakesEffect, Answer, BeginResume, Finish, GiveUp,
              TakeLock, GoTo
        <5>2. QED
          BY <2>2, <2>4, <2>7, <5>1 DEF ResumedBySomeone, IsRunning
      <4>4. CASE kind[c] = "lossPause" /\ pc[c] = "recheck"
        <5>1. Recheck(c)
          BY <1>4, <4>4
          DEF Coroutine, Robot, Begin, Granted, Locked, StopEnds, GotoEnds, CommandFails,
              StopTakesEffect, GotoTakesEffect, Answer
        <5>2. TakeLock(c, "recovery")
          BY <2>2, <2>7, <4>4, <5>1 DEF Recheck
        <5>3. kind'[c] = "recovery" /\ pc'[c] # "free"
          BY <1>0, <5>2 DEF TakeLock
        <5>4. QED
          BY <5>3 DEF ResumedBySomeone, IsRunning
      <4>5. CASE \E d \in Coroutines : /\ d # c
                                        /\ \/ pc[d] # "free" /\ kind[d] = "recovery"
                                           \/ pc[d] = "recheck" /\ kind[d] = "lossPause"
        BY <2>1, <4>5 DEF ResumedBySomeone, IsRunning
      <4>6. QED
        BY <4>1, <4>2, <4>3, <4>4, <4>5 DEF ResumedBySomeone, IsRunning
    <3>3. QED
      BY <1>0, <2>3, <2>7, <3>1, <3>2
  <2>8. QED
    BY <1>1, <1>2, <2>6, <2>7 DEF RecoveryInv
<1>5. QED
  BY <1>3, <1>4 DEF Next

\* Whatever the link does, and whatever the operator and the worker do meanwhile, a
\* pause of the guard is never left without somebody to end it once the link is back.
THEOREM RecoveryFollows == Spec => []RecoveredIsResumed
<1>1. Init => TypeInv /\ RecoveryInv
  BY InitTypes DEF Init, RecoveryInv, OneInSync, Sync
<1>2. TypeInv /\ RecoveryInv /\ [Next]_vars => TypeInv' /\ RecoveryInv'
  BY StepTypes, RecoveryStep
<1>3. RecoveryInv => RecoveredIsResumed
  BY DEF RecoveryInv, ResumedBySomeone, RecoveredIsResumed
<1>4. QED
  BY <1>1, <1>2, <1>3, PTL DEF Spec

-----------------------------------------------------------------------------
(* A lost link is watched *)

\* The guard has the robot to itself: nobody has sent a startPause or a stopPause.
GuardAlone ==
  /\ \A c \in Coroutines : pc[c] # "free" => Guarded(c)
  /\ \A i \in 1..Len(ready) : ready[i].do = "create" => ready[i].kind = "recovery"

\* Somebody pauses the robot, or looks at the link again.
Watched ==
  \/ paused \/ timer # "off" \/ IsQueued(Arm) \/ IsRunning("lossPause")
  \/ \E c \in Coroutines : kind[c] = "recovery" /\ pc[c] = "recheck"

\* The MQTT thread has told the loop of a link that is down.
LossTold == ~link /\ client = "idle"

WatchInv ==
  /\ OneInSync /\ GuardAlone
  /\ client \in {"up", "up2"} => link
  /\ LossTold => Followed(ready, Cancel, Arm)
  /\ \A c \in Coroutines : kind[c] = "lossPause" /\ pc[c] = "recheck" => paused
  /\ ever /\ LossTold => Watched

\* Without an operator, only the guard's coroutines are made.
LEMMA AloneStep ==
  ASSUME "operator" \notin May, TypeInv, GuardAlone, [Next]_vars
  PROVE  GuardAlone'
<1> USE DEF linkVars, robotVars, flagVars, coVars, operatorVars
<1>0. /\ kind \in [Coroutines -> Kinds] /\ pc \in [Coroutines -> Labels]
      /\ ready \in Seq(Callback)
      /\ ~Operate("startPause") /\ ~Operate("stopPause")
  BY DEF TypeInv, TypeOK, Operate
<1> DEFINE OK(q) == \A i \in 1..Len(q) : q[i].do = "create" => q[i].kind = "recovery"
<1>1. ASSUME NEW q \in Seq(Callback), NEW x \in Callback, OK(q),
             x.do = "create" => x.kind = "recovery"
      PROVE  OK(Append(q, x))
  <2>1. /\ Len(Append(q, x)) = Len(q) + 1 /\ Append(q, x)[Len(q) + 1] = x
        /\ \A i \in 1..Len(q) : Append(q, x)[i] = q[i]
    OBVIOUS
  <2>2. QED
    BY <1>1, <2>1
<1>2. ASSUME NEW q \in Seq(Callback), q # <<>>, OK(q)
      PROVE  Tail(q) \in Seq(Callback) /\ OK(Tail(q))
  <2>1. /\ Len(q) \in Nat /\ Len(Tail(q)) = Len(q) - 1 /\ Tail(q) \in Seq(Callback)
        /\ \A j \in 1..(Len(q) - 1) : Tail(q)[j] = q[j + 1] /\ j + 1 \in 1..Len(q)
    BY <1>2
  <2>2. QED
    BY <1>2, <2>1
<1>3. OK(ready)
  BY DEF GuardAlone
<1> HIDE DEF OK
<1>4. OK(ready')
  <2>1. CASE ready' = ready
    BY <1>3, <2>1
  <2>2. CASE Appends
    BY <1>0, <1>1, <1>3, <2>2 DEF Appends
  <2>3. CASE Takes
    <3>1. Tail(ready) \in Seq(Callback) /\ OK(Tail(ready))
      BY <1>0, <1>2, <1>3, <2>3 DEF Takes
    <3>2. ASSUME NEW c \in Coroutines PROVE OK(Append(Tail(ready), [do |-> "run", who |-> c]))
      BY <1>1, <3>1, Callbacks, TimerCallbacks
    <3>3. QED
      BY <2>3, <3>1, <3>2 DEF Takes, Wakeup
  <2>4. QED
    BY <2>1, <2>2, <2>3, QueueStep
<1>5. (\A c \in Coroutines : pc[c] # "free" => Guarded(c))'
  <2>1. CASE RunCreate
    <3>1. ready # <<>> /\ Head(ready).do = "create" /\ CreateTask(Head(ready).kind, Tail(ready))
      BY <2>1 DEF RunCreate, IsNext
    <3>2. 1 \in 1..Len(ready) /\ ready[1] = Head(ready)
      BY <1>0, <3>1
    <3>3. Head(ready).kind = "recovery"
      BY <3>1, <3>2 DEF GuardAlone
    <3>4. QED
      BY <1>0, <3>1, <3>3 DEF CreateTask, GuardAlone, Guarded
  <2>2. CASE RunGrace
    BY <1>0, <2>2 DEF RunGrace, CreateTask, GuardAlone, Guarded
  <2>3. CASE UNCHANGED coVars
    BY <2>3 DEF GuardAlone, Guarded
  <2>4. ASSUME NEW c \in Coroutines, Coroutine(c) \/ Robot(c)
        PROVE  (\A d \in Coroutines : pc[d] # "free" => Guarded(d))'
    <3>1. \A d \in Coroutines : d # c => pc'[d] = pc[d] /\ kind'[d] = kind[d]
      BY <1>0, <2>4
      DEF Coroutine, Robot, Begin, Granted, Locked, StopEnds, GotoEnds, CommandFails, Recheck,
          StopTakesEffect, GotoTakesEffect, Answer, BeginResume, Finish, GiveUp, TakeLock, GoTo
    <3>2. pc[c] # "free" /\ (kind'[c] = kind[c] \/ kind'[c] = "recovery")
      BY <1>0, <2>4
      DEF Coroutine, Robot, Begin, Granted, Locked, StopEnds, GotoEnds, CommandFails, Recheck,
          StopTakesEffect, GotoTakesEffect, Answer, BeginResume, Finish, GiveUp, TakeLock, GoTo
    <3>3. QED
      BY <3>1, <3>2 DEF GuardAlone, Guarded
  <2>5. QED
    BY <1>0, <2>1, <2>2, <2>3, <2>4
    DEF Next, Events, Thread, Queue, LinkUp, LinkDown, PostCancel, PostRecovery, PostArm,
        CancelTimer, RunArm, GraceElapses, Dispatch, Arrive, vars
<1>6. QED
  BY <1>4, <1>5 DEF GuardAlone, OK

\* What the thread does about the link, and what it has posted when it is done.
LEMMA LossStep ==
  ASSUME TypeInv, client \in {"up", "up2"} => link, LossTold => Followed(ready, Cancel, Arm),
         [Next]_vars
  PROVE  /\ (client \in {"up", "up2"} => link)'
         /\ (LossTold => Followed(ready, Cancel, Arm))'
         /\ LossTold' => PostArm \/ (LossTold /\ UNCHANGED <<link, client, ever>>)
<1> USE DEF linkVars, robotVars, flagVars, coVars, operatorVars
<1>0. /\ ready \in Seq(Callback) /\ link \in BOOLEAN /\ client \in {"idle", "up", "up2", "down"}
  BY DEF TypeInv, TypeOK
<1>1. /\ (client \in {"up", "up2"} => link)'
      /\ LossTold' => PostArm \/ (LossTold /\ UNCHANGED <<link, client, ever>>)
  BY <1>0
  DEF LossTold, Next, Events, Thread, Queue, Coroutine, Robot, LinkUp, LinkDown, Operate,
      PostCancel, PostRecovery, PostArm, CancelTimer, RunArm, RunCreate, RunGrace, GraceElapses,
      Begin, Granted, Locked, StopEnds, GotoEnds, CommandFails, Recheck, StopTakesEffect,
      GotoTakesEffect, Answer, Dispatch, Arrive, vars
<1>2. CASE PostArm
  <2>1. ready' = Append(ready, Arm)
    BY <1>2 DEF PostArm, Arm
  <2>2. Followed(Append(ready, Arm), Cancel, Arm)
    BY <1>0, TimerCallbacks, FollowedByLast
  <2>3. QED
    BY <1>1, <2>1, <2>2 DEF Followed
<1>3. CASE LossTold' /\ ~PostArm
  <2>1. LossTold /\ ~PostCancel
    BY <1>1, <1>3 DEF LossTold, PostCancel
  <2>2. Followed(ready, Cancel, Arm)'
    BY <2>1, FollowedStep
  <2>3. QED
    BY <1>1, <2>2
<1>4. QED
  BY <1>1, <1>2, <1>3

\* Only a resumption clears the pause, and it looks at the link next; a coroutine that
\* has paused the robot looks at the link while it is paused.
LEMMA PausedStep ==
  ASSUME "failures" \notin May, TypeInv, WatchInv, [Next]_vars
  PROVE  /\ paused /\ ~paused'
              => \E c \in Coroutines : kind'[c] = "recovery" /\ pc'[c] = "recheck"
         /\ (\A c \in Coroutines : kind[c] = "lossPause" /\ pc[c] = "recheck" => paused)'
<1> USE DEF linkVars, robotVars, flagVars, coVars, operatorVars
<1>0. kind \in [Coroutines -> Kinds] /\ pc \in [Coroutines -> Labels] /\ paused \in BOOLEAN
  BY DEF TypeInv, TypeOK
<1>1. CASE Events \/ Thread \/ Queue \/ GraceElapses \/ Dispatch \/ Arrive \/ UNCHANGED vars
  <2>1. paused' = paused
    BY <1>1
    DEF Events, Thread, Queue, LinkUp, LinkDown, Operate, PostCancel, PostRecovery, PostArm,
        CancelTimer, RunArm, RunCreate, RunGrace, GraceElapses, Dispatch, Arrive, vars
  <2>2. \A c \in Coroutines : pc'[c] = "recheck" => pc[c] = "recheck" /\ kind'[c] = kind[c]
    BY <1>0, <1>1
    DEF Events, Thread, Queue, LinkUp, LinkDown, Operate, PostCancel, PostRecovery, PostArm,
        CancelTimer, RunArm, RunCreate, RunGrace, CreateTask, GraceElapses, Dispatch, Arrive, vars
  <2>3. QED
    BY <2>1, <2>2 DEF WatchInv
<1>2. ASSUME NEW c \in Coroutines, Coroutine(c) \/ Robot(c)
      PROVE  /\ paused /\ ~paused'
                  => \E d \in Coroutines : kind'[d] = "recovery" /\ pc'[d] = "recheck"
             /\ (\A d \in Coroutines : kind[d] = "lossPause" /\ pc[d] = "recheck" => paused)'
  <2>1. \A d \in Coroutines : d # c => pc'[d] = pc[d] /\ kind'[d] = kind[d]
    BY <1>0, <1>2
    DEF Coroutine, Robot, Begin, Granted, Locked, StopEnds, GotoEnds, CommandFails, Recheck,
        StopTakesEffect, GotoTakesEffect, Answer, BeginResume, Finish, GiveUp, TakeLock, GoTo
  <2>2. pc[c] # "free" /\ kind[c] \in {"lossPause", "recovery"}
    BY <1>2
    DEF Coroutine, Robot, Begin, Granted, Locked, StopEnds, GotoEnds, CommandFails, Recheck,
        StopTakesEffect, GotoTakesEffect, Answer, WatchInv, GuardAlone, Guarded
  <2>3. /\ paused /\ ~paused' => /\ kind'[c] = "recovery" /\ pc'[c] = "recheck"
                                 /\ LoopFree \/ pc[c] = "locked"
        /\ kind'[c] = "lossPause" /\ pc'[c] = "recheck" => paused'
    <3>1. CASE Begin(c) \/ Granted(c) \/ Robot(c)
      BY <1>0, <2>2, <3>1
      DEF Begin, Granted, Robot, StopTakesEffect, GotoTakesEffect, Answer, TakeLock, GoTo,
          Guarded
    <3>2. CASE Locked(c)
      BY <1>0, <3>2 DEF Locked, BeginResume, Resumed, Finish, GiveUp, Guarded, GoTo
    <3>3. CASE StopEnds(c)
      BY <1>0, <3>3 DEF StopEnds
    <3>4. CASE GotoEnds(c)
      BY <1>0, <2>2, <3>4
      DEF GotoEnds, Resumed, Finish, Guarded, GoTo, IsNextOf, IsNext, TypeInv, CommandOfKind
    <3>5. CASE Recheck(c)
      BY <1>0, <3>5 DEF Recheck, TakeLock, GoTo
    <3>6. QED
      BY <1>2, <3>1, <3>2, <3>3, <3>4, <3>5 DEF Coroutine, CommandFails
  <2>4. ASSUME NEW d \in Coroutines, d # c, kind[d] = "lossPause", pc[d] = "recheck"
        PROVE  paused'
    <3>1. paused /\ ~LoopFree /\ pc[c] # "locked"
      BY <2>4 DEF WatchInv, LoopFree, OneInSync, Sync
    <3>2. QED
      BY <2>3, <3>1
  <2>5. paused /\ ~paused' => kind'[c] = "recovery" /\ pc'[c] = "recheck"
    BY <2>3
  <2>6. ASSUME NEW d \in Coroutines, kind'[d] = "lossPause", pc'[d] = "recheck" PROVE paused'
    BY <2>1, <2>3, <2>4, <2>6
  <2>7. QED
    BY <2>5, <2>6
<1>3. QED
  BY <1>1, <1>2 DEF Next

\* A coroutine of the guard does not end, while the link is lost, without a pause or a
\* timer that it leaves behind.
LEMMA WatchersStay ==
  ASSUME "failures" \notin May, TypeInv, WatchInv, ever /\ LossTold, Watched,
         UNCHANGED <<link, client, ever>>,
         NEW c \in Coroutines, Coroutine(c) \/ Robot(c), [Next]_vars,
         ~(CancelTimer \/ RunArm \/ RunCreate \/ RunGrace)
  PROVE  Watched'
<1> USE DEF linkVars, robotVars, flagVars, coVars, operatorVars
<1>0. /\ kind \in [Coroutines -> Kinds] /\ pc \in [Coroutines -> Labels]
      /\ paused \in BOOLEAN /\ timer \in {"off", "armed", "due"}
  BY DEF TypeInv, TypeOK
<1>1. CASE paused
  BY <1>1, PausedStep DEF Watched
<1>2. timer' # "off" \/ timer' = timer
  BY <1>0
  DEF Coroutine, Robot, Begin, Granted, Locked, StopEnds, GotoEnds, CommandFails, Recheck,
      StopTakesEffect, GotoTakesEffect, Answer, ArmTimer
<1>3. CASE IsQueued(Arm)
  BY <1>3, TimerCallbacks, QueuedStays DEF Watched
<1>4. CASE \E d \in Coroutines : /\ d # c
                                  /\ \/ pc[d] # "free" /\ kind[d] = "lossPause"
                                     \/ pc[d] = "recheck" /\ kind[d] = "recovery"
  <2>1. \A d \in Coroutines : d # c => pc'[d] = pc[d] /\ kind'[d] = kind[d]
    BY <1>0
    DEF Coroutine, Robot, Begin, Granted, Locked, StopEnds, GotoEnds, CommandFails, Recheck,
        StopTakesEffect, GotoTakesEffect, Answer, BeginResume, Finish, GiveUp, TakeLock, GoTo
  <2>2. QED
    BY <1>4, <2>1 DEF Watched, IsRunning
<1>5. CASE ~paused /\ pc[c] # "free" /\ kind[c] = "lossPause"
  <2>1. CASE Begin(c) \/ Granted(c) \/ Robot(c)
    <3>1. kind'[c] = "lossPause" /\ pc'[c] # "free"
      BY <1>0, <1>5, <2>1
      DEF Begin, Granted, Robot, StopTakesEffect, GotoTakesEffect, Answer, TakeLock, GoTo,
          Guarded
    <3>2. QED
      BY <3>1 DEF Watched, IsRunning
  <2>2. CASE Locked(c)
    <3>1. GoTo(c, "stop")
      BY <1>5, <2>2 DEF Locked, LossTold
    <3>2. kind'[c] = "lossPause" /\ pc'[c] # "free"
      BY <1>0, <1>5, <3>1 DEF GoTo
    <3>3. QED
      BY <3>2 DEF Watched, IsRunning
  <2>3. CASE StopEnds(c)
    BY <2>3 DEF StopEnds, Watched
  <2>4. ~GotoEnds(c) /\ ~CommandFails(c)
    BY <1>5 DEF GotoEnds, CommandFails, TypeInv, CommandOfKind
  <2>5. ~Recheck(c)
    BY <1>5 DEF Recheck, WatchInv
  <2>6. QED
    BY <2>1, <2>2, <2>3, <2>4, <2>5 DEF Coroutine
<1>6. CASE pc[c] = "recheck" /\ kind[c] = "recovery"
  <2>1. Recheck(c)
    BY <1>6
    DEF Coroutine, Robot, Begin, Granted, Locked, StopEnds, GotoEnds, CommandFails,
        StopTakesEffect, GotoTakesEffect, Answer
  <2>2. timer' # "off"
    BY <1>0, <1>6, <2>1 DEF Recheck, ArmTimer, LossTold
  <2>3. QED
    BY <2>2 DEF Watched
<1>7. QED
  BY <1>1, <1>2, <1>3, <1>4, <1>5, <1>6 DEF Watched, IsRunning

\* Every step keeps a lost link watched.
LEMMA WatchStep ==
  ASSUME "operator" \notin May, "failures" \notin May, TypeInv, WatchInv, [Next]_vars
  PROVE  WatchInv'
<1> USE DEF linkVars, robotVars, flagVars, coVars, operatorVars
<1>0. /\ kind \in [Coroutines -> Kinds] /\ pc \in [Coroutines -> Labels]
      /\ ready \in Seq(Callback) /\ timer \in {"off", "armed", "due"}
  BY DEF TypeInv, TypeOK
<1>1. OneInSync' /\ GuardAlone'
  BY SyncStep, AloneStep DEF WatchInv
<1>2. /\ (client \in {"up", "up2"} => link)'
      /\ (LossTold => Followed(ready, Cancel, Arm))'
      /\ LossTold' => PostArm \/ (LossTold /\ UNCHANGED <<link, client, ever>>)
  BY LossStep DEF WatchInv
<1>3. (\A c \in Coroutines : kind[c] = "lossPause" /\ pc[c] = "recheck" => paused)'
  BY PausedStep
<1>4. ASSUME ever', LossTold' PROVE Watched'
  <2>1. CASE PostArm
    <3>1. ready' = Append(ready, Arm)
      BY <2>1 DEF PostArm, Arm
    <3>2. /\ Len(ready') = Len(ready) + 1 /\ ready'[Len(ready) + 1] = Arm
          /\ Len(ready) + 1 \in 1..(Len(ready) + 1)
      BY <1>0, <3>1, TimerCallbacks
    <3>3. QED
      BY <3>2 DEF Watched, IsQueued
  <2>2. CASE ~PostArm
    <3>1. /\ ever /\ LossTold /\ Watched /\ UNCHANGED <<link, client, ever>>
          /\ Followed(ready, Cancel, Arm)
      BY <1>2, <1>4, <2>2 DEF WatchInv
    <3>2. CASE CancelTimer
      <4>1. ready # <<>> /\ Head(ready).do = "cancelTimer" /\ ready' = Tail(ready)
        BY <3>2 DEF CancelTimer, IsNext
      <4>2. Head(ready) = Cancel
        BY <1>0, <4>1, HeadOfReady DEF Callback, Cancel
      <4>3. QED
        BY <1>0, <3>1, <4>1, <4>2, FollowedHead DEF Watched, IsQueued
    <3>3. CASE RunArm
      BY <1>0, <3>1, <3>3 DEF RunArm, ArmTimer, Watched
    \* The coroutines that watch the link go on, the timer may be replaced by one of them
    <3>4. CASE \/ RunCreate \/ RunGrace \/ GraceElapses \/ Dispatch \/ Arrive \/ UNCHANGED vars
      <4>1. paused' = paused
        BY <3>4 DEF RunCreate, RunGrace, GraceElapses, Dispatch, Arrive, vars
      <4>2. IsQueued(Arm) => IsQueued(Arm)' \/ RunArm
        <5>1. Head(ready) = Arm => ~CancelTimer /\ ~RunCreate /\ ~RunGrace
          BY TimerCallbacks DEF CancelTimer, RunCreate, RunGrace, IsNext
        <5>2. QED
          BY <5>1, TimerCallbacks, QueuedStays
      <4>3. \A c \in Coroutines : pc[c] # "free" => pc'[c] = pc[c] /\ kind'[c] = kind[c]
        BY <1>0, <3>4
        DEF RunCreate, RunGrace, CreateTask, GraceElapses, Dispatch, Arrive, vars
      <4>4. timer # "off" => timer' # "off" \/ paused \/ IsRunning("lossPause")'
        <5>1. CASE RunGrace
          <6>1. CASE CreateTask("lossPause", Tail(ready))
            BY <1>0, <6>1 DEF CreateTask, IsRunning
          <6>2. QED
            BY <3>1, <5>1, <6>1 DEF RunGrace, LossTold
        <5>2. CASE ~RunGrace
          BY <3>4, <5>2 DEF RunCreate, GraceElapses, Dispatch, Arrive, vars
        <5>3. QED
          BY <5>1, <5>2
      <4>5. QED
        BY <3>1, <3>3, <4>1, <4>2, <4>3, <4>4 DEF Watched, IsRunning
    <3>5. ASSUME NEW c \in Coroutines, Coroutine(c) \/ Robot(c),
                 ~(CancelTimer \/ RunArm \/ RunCreate \/ RunGrace)
          PROVE  Watched'
      BY <3>1, <3>5, WatchersStay
    <3>6. ~LinkUp /\ ~LinkDown /\ ~PostCancel /\ ~PostRecovery /\ ~Operate("startPause")
          /\ ~Operate("stopPause")
      BY <3>1 DEF LossTold, LinkUp, LinkDown, PostCancel, PostRecovery, Operate
    <3>7. QED
      BY <2>2, <3>2, <3>3, <3>4, <3>5, <3>6 DEF Next, Events, Thread, Queue
  <2>3. QED
    BY <2>1, <2>2
<1>5. QED
  BY <1>1, <1>2, <1>3, <1>4 DEF WatchInv

\* When nobody else pauses and resumes the robot and it obeys every command, a link that
\* is lost never goes unnoticed: in whatever order the thread's callbacks, the timer and
\* the two coroutines of the guard run, the robot is paused or will be.  Both hypotheses
\* are needed: a stopPause under way when the link is lost ends the pause, and a pause
\* the robot refuses is not tried again.
THEOREM LossIsWatched ==
  ASSUME "operator" \notin May, "failures" \notin May
  PROVE  Spec => []LostLinkIsWatched
<1>1. Init => TypeInv /\ WatchInv
  BY InitTypes
  DEF Init, WatchInv, OneInSync, GuardAlone, Guarded, LossTold, Followed, Sync
<1>2. TypeInv /\ WatchInv /\ [Next]_vars => TypeInv' /\ WatchInv'
  BY StepTypes, WatchStep
<1>3. WatchInv => LostLinkIsWatched
  BY DEF WatchInv, LossTold, Watched, Arm, LostLinkIsWatched
<1>4. QED
  BY <1>1, <1>2, <1>3, PTL DEF Spec
=============================================================================
