---------------------------- MODULE OrderEngineProofs ----------------------------
(***************************************************************************)
(* Theorems of OrderEngine, for every value of its constants: any number   *)
(* of orders, places, sequenceIds, tasks and messages.  The first three    *)
(* hold with every liberty of the surroundings; NoOrderStandsStill with    *)
(* all but one; those about the route of an order for a fleet manager that *)
(* keeps to its protocol (Disciplined), whatever fails or is cancelled;    *)
(* QueueIsServed for surroundings that take no liberty.                    *)
(***************************************************************************)
EXTENDS OrderEngine, TLAPS

-----------------------------------------------------------------------------
(* At most one order worker *)

\* SingleWorker is inductive once the program counters are known to be a
\* function on the tasks.
WorkerInv ==
  /\ pc \in [Tasks -> Labels]
  /\ worker \in Tasks
  /\ SingleWorker

\* What an action may do to the workers: nothing, move a live task, end a task,
\* or make a task the worker when none was alive.
WorkerMove ==
  \/ UNCHANGED <<worker, pc>>
  \/ /\ UNCHANGED worker
     /\ \E t \in Tasks, label \in Labels :
          /\ Alive(t) \/ label = "idle"
          /\ pc' = [pc EXCEPT ![t] = label]
  \/ /\ ~Alive(worker)
     /\ \E t \in Tasks : worker' = t /\ pc' = [pc EXCEPT ![t] = "ready"]

\* A move of that kind keeps the worker single.
LEMMA WorkerMoveKeeps == WorkerInv /\ WorkerMove => WorkerInv'
<1> SUFFICES ASSUME WorkerInv, WorkerMove PROVE WorkerInv'
  OBVIOUS
<1> USE DEF WorkerInv, SingleWorker, Alive, Labels
<1>1. CASE UNCHANGED <<worker, pc>>
  BY <1>1
<1>2. CASE /\ UNCHANGED worker
           /\ \E t \in Tasks, label \in Labels :
                /\ Alive(t) \/ label = "idle"
                /\ pc' = [pc EXCEPT ![t] = label]
  BY <1>2
<1>3. CASE /\ ~Alive(worker)
           /\ \E t \in Tasks : worker' = t /\ pc' = [pc EXCEPT ![t] = "ready"]
  BY <1>3
<1>4. QED
  BY <1>1, <1>2, <1>3 DEF WorkerMove

\* StartTask makes a worker only when the known one is gone: the guard
\* "order_worker_task ... not done()" of _schedule_v3_order_worker.
LEMMA StartTaskMoves ==
  ASSUME NEW cs, NEW last, NEW canc, NEW rest, StartTask(cs, last, canc, rest)
  PROVE  WorkerMove
BY DEF StartTask, WorkerMove

\* The end of a task moves it to "idle".
LEMMA EndTaskMoves ==
  ASSUME NEW t \in Tasks, NEW rest, EndTask(t, rest)
  PROVE  WorkerMove
BY DEF EndTask, WorkerMove, Labels

\* A live task that goes to another label.
LEMMA GoToMoves ==
  ASSUME NEW t \in Tasks, NEW label \in Labels, Alive(t), GoTo(t, label)
  PROVE  WorkerMove
BY DEF GoTo, WorkerMove

\* Every step of the system moves the workers in one of those ways.
LEMMA NextMovesWorkers ==
  ASSUME [Next]_vars
  PROVE  WorkerMove
<1> USE DEF taskVars
<1>1. CASE Fleet
  BY <1>1 DEF Fleet, ReceiveOrder, ReceiveCancel, MoveByHand, WorkerMove
<1>2. CASE HandleOrder
  <2>1. ASSUME NEW m, AcceptOrder(m) PROVE WorkerMove
    BY <2>1, StartTaskMoves DEF AcceptOrder
  <2>2. ASSUME NEW m, UpdateOrder(m) PROVE WorkerMove
    BY <2>2, StartTaskMoves DEF UpdateOrder, MergeOrder
  <2>3. QED
    BY <1>2, <2>1, <2>2 DEF HandleOrder, WorkerMove
<1>3. CASE Restart
  BY <1>3, StartTaskMoves DEF Restart
<1>4. CASE \/ PostRestart \/ CrashDrop \/ EndStray \/ (\E p \in Places : ReportPose(p))
           \/ \E s \in Seqs : EndBackground(s)
           \/ HandleCancel \/ CancelBegin \/ CancelBackgroundEnded \/ CancelEnd
  BY <1>4 DEF PostRestart, CrashDrop, EndStray, ReportPose, EndBackground, HandleCancel,
       CancelBegin, CancelBackgroundEnded, CancelEnd, WorkerMove
<1>5. ASSUME NEW t \in Tasks, WorkerSync(t) PROVE WorkerMove
  <2>1. CASE TakeStep(t)
    BY <2>1, GoToMoves DEF TakeStep, Alive, Labels
  <2>2. CASE WorkerDone(t)
    BY <2>2, EndTaskMoves DEF WorkerDone
  <2>3. CASE BeginStep(t)
    BY <2>3, GoToMoves, EndTaskMoves DEF BeginStep, Requeue, Alive, Labels
  <2>4. CASE DispatchActions(t)
    BY <2>4, GoToMoves DEF DispatchActions, Alive, Labels
  <2>5. CASE ClearStep(t)
    BY <2>5, GoToMoves DEF ClearStep, Alive, Labels
  <2>6. QED
    BY <1>5, <2>1, <2>2, <2>3, <2>4, <2>5 DEF WorkerSync
<1>6. ASSUME NEW t \in Tasks, WorkerAwaits(t) \/ WorkerWorks(t) PROVE WorkerMove
  <2>1. CASE WorkerStart(t)
    BY <2>1, GoToMoves DEF WorkerStart, Alive, Labels
  <2>2. CASE Arrive(t)
    BY <2>2, GoToMoves DEF Arrive, Alive, Labels
  <2>3. CASE DriveFails(t)
    BY <2>3, EndTaskMoves DEF DriveFails, Requeue
  <2>4. CASE StopVehicle(t)
    BY <2>4, GoToMoves, EndTaskMoves DEF StopVehicle, Requeue, Alive, Labels
  <2>5. CASE EndAction(t) \/ EndTick(t)
    BY <2>5, GoToMoves DEF EndAction, EndTick, Alive, Labels
  <2>6. CASE Cancelled(t) \/ StartCancelled(t)
    BY <2>6, EndTaskMoves DEF Cancelled, StartCancelled
  <2>7. QED
    BY <1>6, <2>1, <2>2, <2>3, <2>4, <2>5, <2>6 DEF WorkerAwaits, WorkerWorks
<1>7. ASSUME NEW t \in Tasks, Crash(t) PROVE WorkerMove
  BY <1>7, EndTaskMoves DEF Crash
<1>8. CASE UNCHANGED vars
  BY <1>8 DEF vars, WorkerMove
<1>9. QED
  BY <1>1, <1>2, <1>3, <1>4, <1>5, <1>6, <1>7, <1>8 DEF Next, Loop

\* At most one task ever runs the order queue, whatever orders, updates,
\* cancellations, crashes and restarts come in whatever order.
THEOREM OneWorker == Spec => []SingleWorker
<1>1. Init => WorkerInv
  BY DEF Init, WorkerInv, SingleWorker, Alive, Labels
<1>2. WorkerInv /\ [Next]_vars => WorkerInv'
  BY NextMovesWorkers, WorkerMoveKeeps
<1>3. WorkerInv => SingleWorker
  BY DEF WorkerInv
<1>4. QED
  BY <1>1, <1>2, <1>3, PTL DEF Spec

-----------------------------------------------------------------------------
(* An action is dispatched at most once in the life of its order *)

\* A dispatch is remembered in _dispatched_order_action_ids until the order ends,
\* and the count starts again only with the memory.
DispatchInv ==
  /\ runs \in [Seqs -> Nat]
  /\ \A s \in Seqs : runs[s] <= 1
  /\ \A s \in Seqs : runs[s] = 1 => s \in dispatched

\* What an action may do to the dispatches: nothing, forget all of them with the
\* order, or add one that is not remembered.
DispatchMove ==
  \/ UNCHANGED <<runs, dispatched>>
  \/ runs' = NoRuns
  \/ \E s : /\ s \notin dispatched
            /\ dispatched' = dispatched \cup {s}
            /\ runs' = [runs EXCEPT ![s] = @ + 1]

\* Moves of that kind dispatch nothing twice.
LEMMA DispatchMoveKeeps == DispatchInv /\ DispatchMove => DispatchInv'
<1> SUFFICES ASSUME DispatchInv, DispatchMove PROVE DispatchInv'
  OBVIOUS
<1>1. CASE UNCHANGED <<runs, dispatched>>
  BY <1>1 DEF DispatchInv
<1>2. CASE runs' = NoRuns
  BY <1>2 DEF DispatchInv, NoRuns
<1>3. ASSUME NEW s, s \notin dispatched, dispatched' = dispatched \cup {s},
             runs' = [runs EXCEPT ![s] = @ + 1]
      PROVE  DispatchInv'
  <2>1. s \in Seqs => runs[s] = 0
    BY <1>3 DEF DispatchInv
  <2>2. \A r \in Seqs : runs'[r] = IF r = s THEN 1 ELSE runs[r]
    BY <1>3, <2>1 DEF DispatchInv
  <2>3. runs' \in [Seqs -> Nat]
    <3>1. runs' = [r \in Seqs |-> runs'[r]]
      BY <1>3 DEF DispatchInv
    <3>2. \A r \in Seqs : runs'[r] \in Nat
      BY <2>2 DEF DispatchInv
    <3>3. QED
      BY <3>1, <3>2
  <2>4. QED
    BY <1>3, <2>2, <2>3 DEF DispatchInv
<1>4. QED
  BY <1>1, <1>2, <1>3 DEF DispatchMove

\* Every step of the system treats the dispatches in one of those ways: the
\* worker checks _order_action_is_pending before it dispatches, updates and
\* restarts leave the memory alone.
LEMMA NextMovesDispatches ==
  ASSUME [Next]_vars
  PROVE  DispatchMove
<1> USE DEF actionVars, DispatchMove
<1>1. CASE Fleet
  BY <1>1 DEF Fleet, ReceiveOrder, ReceiveCancel, MoveByHand
<1>2. CASE HandleOrder
  <2>1. ASSUME NEW m, AcceptOrder(m) PROVE DispatchMove
    BY <2>1 DEF AcceptOrder
  <2>2. ASSUME NEW m, UpdateOrder(m) PROVE DispatchMove
    BY <2>2 DEF UpdateOrder, MergeOrder
  <2>3. QED
    BY <1>2, <2>1, <2>2 DEF HandleOrder
<1>3. CASE \/ PostRestart \/ Restart \/ EndStray \/ (\E p \in Places : ReportPose(p))
           \/ \E s \in Seqs : EndBackground(s)
           \/ HandleCancel \/ CancelBegin \/ CancelBackgroundEnded
  BY <1>3 DEF PostRestart, Restart, EndStray, ReportPose, EndBackground, HandleCancel, CancelBegin,
              CancelBackgroundEnded
<1>4. CASE CrashDrop \/ CancelEnd
  BY <1>4 DEF CrashDrop, CancelEnd, ClearOrderState
<1>5. ASSUME NEW t \in Tasks, WorkerSync(t) PROVE DispatchMove
  <2>1. CASE DispatchActions(t)
    <3> DEFINE s == step[t].seq
    <3>1. \/ UNCHANGED <<runs, dispatched>>
          \/ /\ s \notin dispatched
             /\ dispatched' = dispatched \cup {s}
             /\ runs' = [runs EXCEPT ![s] = @ + 1]
      BY <2>1 DEF DispatchActions, IsPending
    <3>2. QED
      BY <3>1
  <2>2. CASE TakeStep(t) \/ WorkerDone(t) \/ BeginStep(t) \/ ClearStep(t)
    BY <2>2 DEF TakeStep, WorkerDone, BeginStep, ClearStep
  <2>3. QED
    BY <1>5, <2>1, <2>2 DEF WorkerSync
<1>6. ASSUME NEW t \in Tasks, WorkerAwaits(t) \/ WorkerWorks(t) \/ Crash(t) PROVE DispatchMove
  BY <1>6 DEF WorkerAwaits, WorkerWorks, WorkerStart, Arrive, DriveFails, StopVehicle, EndAction,
       EndTick, Cancelled, StartCancelled, Crash
<1>7. CASE UNCHANGED vars
  BY <1>7 DEF vars
<1>8. QED
  BY <1>1, <1>2, <1>3, <1>4, <1>5, <1>6, <1>7 DEF Next, Loop

\* However often updates put a step back into the queue and workers are
\* restarted, the action of an item is dispatched at most once in its order.
THEOREM NoSecondDispatch == Spec => []ActionAtMostOnce
<1>1. Init => DispatchInv
  BY DEF Init, DispatchInv, NoRuns
<1>2. DispatchInv /\ [Next]_vars => DispatchInv'
  BY NextMovesDispatches, DispatchMoveKeeps
<1>3. DispatchInv => ActionAtMostOnce
  BY DEF DispatchInv, ActionAtMostOnce
<1>4. QED
  BY <1>1, <1>2, <1>3, PTL DEF Spec

-----------------------------------------------------------------------------
(* The types *)

\* TypeOK is inductive together with StepHeld: a worker that drives or acts holds
\* a step, so the place it reaches and the action whose status it sets exist.
\* There is one lemma per part of TypeOK.
TypeInv == TypeOK /\ StepHeld

-----------------------------------------------------------------------------
(* What the helpers return *)

\* The head of the ready queue, by its kind.
LEMMA HeadOfReady ==
  ASSUME ReadyOK, ready # <<>>
  PROVE  /\ Head(ready).kind = "order" => Head(ready) \in OrderMessage
         /\ Head(ready).kind = "cancel" => Head(ready).id \in Orders \cup {NoOrder}
         /\ Tail(ready) \in Seq(Message \cup Callback)
<1>1. Head(ready) \in Message \cup Callback
  BY DEF ReadyOK
<1>2. Tail(ready) \in Seq(Message \cup Callback)
  BY DEF ReadyOK
<1>3. QED
  BY <1>1, <1>2 DEF Message, OrderMessage, CancelMessage, Callback

\* Sequence ids of nodes and of edges are sequence ids, and 0 is one.
LEMMA SeqIds == 0 \in NodeSeqs /\ NodeSeqs \subseteq Seqs /\ EdgeSeqs \subseteq Seqs
BY OrderEngineAssumption DEF NodeSeqs, EdgeSeqs, Seqs

\* A bootstrap finds a place and a sequence id.
LEMMA BootstrapTypes ==
  ASSUME PlaceOK, NEW m \in OrderMessage, NEW last \in Bootstrapped(m)
  PROVE  last.id \in Places \cup {NoPlace} /\ last.seq \in Seqs
BY SeqIds DEF PlaceOK, Bootstrapped, Remapped, NodesOf

\* A rebuild makes steps of the order out of items.
LEMMA StepsForTypes ==
  ASSUME NEW ns \in SUBSET NodeSeqs, NEW es \in SUBSET EdgeSeqs, NEW rel, NEW o \in Orders,
         NEW last, NEW disp, NEW st
  PROVE  StepsFor(ns, es, rel, o, last, disp, st) \subseteq Step
BY SeqIds DEF StepsFor, Step

\* The callbacks that the loop is given.
LEMMA Callbacks ==
  /\ \A t \in Tasks : [kind |-> "start", task |-> t] \in Callback
  /\ \A k \in {"crash", "done", "restart", "cancelling"} : [kind |-> k] \in Callback
BY DEF Callback

\* Starting and ending tasks queues callbacks only.
LEMMA StartTaskTypes ==
  ASSUME TaskOK, NEW cs, NEW last, NEW canc \in SUBSET Tasks,
         NEW rest \in Seq(Message \cup Callback), StartTask(cs, last, canc, rest)
  PROVE  TaskOK' /\ ReadyOK'
<1>1. CASE Alive(worker)
  BY <1>1 DEF StartTask, TaskOK, ReadyOK
<1>2. CASE ~Alive(worker)
  <2>1. PICK t \in Tasks :
          /\ worker' = t /\ pc' = [pc EXCEPT ![t] = "ready"]
          /\ cancelling' = canc /\ UNCHANGED waiters
          /\ ready' = Append(rest, [kind |-> "start", task |-> t])
    BY <1>2 DEF StartTask
  <2>2. TaskOK'
    BY <2>1 DEF TaskOK, Labels
  <2>3. [kind |-> "start", task |-> t] \in Message \cup Callback
    BY Callbacks
  <2>4. ReadyOK'
    BY <2>1, <2>3 DEF ReadyOK
  <2>5. QED
    BY <2>2, <2>4
<1>3. QED
  BY <1>1, <1>2

\* Ending a task keeps the tasks typed and queues the wake-ups of its waiters.
LEMMA EndTaskTypes ==
  ASSUME TaskOK, NEW t \in Tasks, NEW rest \in Seq(Message \cup Callback), EndTask(t, rest)
  PROVE  TaskOK' /\ ReadyOK'
<1>1. waiters[t] \in Nat
  BY DEF TaskOK
<1>2. [i \in 1..waiters[t] |-> [kind |-> "done"]] \in Seq(Message \cup Callback)
  <2>1. [kind |-> "done"] \in Message \cup Callback
    BY Callbacks
  <2>2. QED
    BY <1>1, <2>1
<1>3. ReadyOK'
  <2> DEFINE done == [i \in 1..waiters[t] |-> [kind |-> "done"]]
  <2>1. ready' = rest \o done
    BY DEF EndTask
  <2> HIDE DEF done
  <2>2. done \in Seq(Message \cup Callback)
    BY <1>2 DEF done
  <2>3. QED
    BY <2>1, <2>2 DEF ReadyOK
<1>4. TaskOK'
  BY DEF EndTask, TaskOK, Labels
<1>5. QED
  BY <1>3, <1>4

-----------------------------------------------------------------------------
(* One lemma per part of TypeOK *)

\* The state of the fleet and of the cancellation stays typed.
LEMMA FleetTypes ==
  ASSUME TypeInv, [Next]_vars
  PROVE  FleetOK'
<1> USE DEF FleetOK, fleetVars, cancelVars
<1>0. FleetOK /\ ReadyOK /\ orderId \in Orders \cup {NoOrder}
  BY DEF TypeInv, TypeOK, OrderOK
<1>1. CASE Fleet
  BY <1>0, <1>1, OrderEngineAssumption DEF Fleet, ReceiveOrder, ReceiveCancel, MoveByHand
<1>2. CASE HandleCancel
  BY <1>0, <1>2, HeadOfReady DEF HandleCancel, IsNext
<1>3. CASE CancelBegin \/ CancelBackgroundEnded \/ CancelEnd
  BY <1>0, <1>3 DEF CancelBegin, CancelBackgroundEnded, CancelEnd
<1>4. CASE HandleOrder \/ PostRestart \/ Restart \/ CrashDrop \/ EndStray
           \/ (\E p \in Places : ReportPose(p))
           \/ \E s \in Seqs : EndBackground(s)
  BY <1>0, <1>4 DEF HandleOrder, PostRestart, Restart, CrashDrop, EndStray, ReportPose,
       EndBackground
<1>5. ASSUME NEW t \in Tasks, WorkerSync(t) PROVE FleetOK'
  BY <1>0, <1>5 DEF WorkerSync, TakeStep, WorkerDone, BeginStep, DispatchActions, ClearStep
<1>6. ASSUME NEW t \in Tasks, WorkerAwaits(t) \/ WorkerWorks(t) \/ Crash(t) PROVE FleetOK'
  BY <1>0, <1>6 DEF WorkerAwaits, WorkerWorks, WorkerStart, Arrive, DriveFails, StopVehicle,
       EndAction, EndTick, Cancelled, StartCancelled, Crash
<1>7. CASE UNCHANGED vars
  BY <1>0, <1>7 DEF vars
<1>8. QED
  BY <1>1, <1>2, <1>3, <1>4, <1>5, <1>6, <1>7 DEF Next, Loop

\* The held order and the published state stay typed: every handler writes sequences of the graph.
LEMMA OrderTypes ==
  ASSUME TypeInv, [Next]_vars
  PROVE  OrderOK'
<1> USE DEF orderVars, stateVars
<1>0. OrderOK /\ PlaceOK /\ ReadyOK
  BY DEF TypeInv, TypeOK
<1>1. CASE Fleet
  BY <1>0, <1>1 DEF Fleet, ReceiveOrder, ReceiveCancel, MoveByHand, OrderOK
<1>2. CASE HandleOrder
  <2> DEFINE m == Head(ready)
  <2>0. m \in OrderMessage
    BY <1>0, <1>2, HeadOfReady DEF HandleOrder, IsNext
  <2>1. /\ m.id \in Orders /\ m.update \in 0..MaxUpdateId
        /\ NodesOf(m) \subseteq NodeSeqs /\ EdgesOf(m) \subseteq EdgeSeqs
        /\ ReleasedOf(m) \subseteq Seqs
    BY <2>0, SeqIds DEF OrderMessage, NodesOf, EdgesOf, ReleasedOf, ItemsOf
  <2> HIDE DEF m
  <2>2. CASE AcceptOrder(m)
    <3>1. PICK last \in Bootstrapped(m) :
            /\ orderId' = m.id /\ updateId' = m.update /\ order' = NodesOf(m)
            /\ released' = ReleasedOf(m)
            /\ nodes' \subseteq NodesOf(m) /\ edges' \subseteq EdgesOf(m)
            /\ visited' = {} /\ demanded' = NodesOf(m)
            /\ baseline' \in {last.seq, None}
      BY <2>2 DEF AcceptOrder, PruneNodes, PruneEdges
    <3>2. last.seq \in Seqs
      BY <1>0, <2>0, BootstrapTypes
    <3>3. QED
      BY <2>1, <3>1, <3>2 DEF OrderOK
  <2>3. CASE UpdateOrder(m)
    BY <1>0, <2>1, <2>3 DEF UpdateOrder, MergeOrder, OrderOK, MergedItems, PruneNodes, PruneEdges
  <2>4. CASE UNCHANGED <<orderVars, stateVars, visited>>
    BY <1>0, <2>4 DEF OrderOK
  <2>5. QED
    BY <1>2, <2>2, <2>3, <2>4 DEF HandleOrder, m
<1>3. CASE CrashDrop \/ CancelEnd
  BY <1>0, <1>3, OrderEngineAssumption DEF CrashDrop, CancelEnd, ClearOrderState, OrderOK
<1>4. CASE \/ PostRestart \/ Restart \/ EndStray \/ (\E p \in Places : ReportPose(p))
           \/ \E s \in Seqs : EndBackground(s)
           \/ HandleCancel \/ CancelBegin \/ CancelBackgroundEnded
  BY <1>0, <1>4 DEF PostRestart, Restart, EndStray, ReportPose, EndBackground, HandleCancel,
       CancelBegin, CancelBackgroundEnded, OrderOK
<1>5. ASSUME NEW t \in Tasks, WorkerSync(t) PROVE OrderOK'
  BY <1>0, <1>5 DEF WorkerSync, TakeStep, WorkerDone, BeginStep, DispatchActions, ClearStep,
                    OrderOK
<1>6. ASSUME NEW t \in Tasks, Arrive(t) PROVE OrderOK'
  BY <1>0, <1>6 DEF Arrive, OrderOK, TypeInv, StepHeld
<1>7. ASSUME NEW t \in Tasks, WorkerAwaits(t) \/ WorkerWorks(t) \/ Crash(t), ~Arrive(t)
      PROVE OrderOK'
  BY <1>0, <1>7 DEF WorkerAwaits, WorkerWorks, WorkerStart, DriveFails, StopVehicle, EndAction,
                    EndTick, Cancelled, StartCancelled, Crash, OrderOK
<1>8. CASE UNCHANGED vars
  BY <1>0, <1>8 DEF vars, OrderOK
<1>9. QED
  BY <1>1, <1>2, <1>3, <1>4, <1>5, <1>6, <1>7, <1>8 DEF Next, Loop

\* The statuses and the run counts of the actions stay typed.
LEMMA ActionTypes ==
  ASSUME TypeInv, [Next]_vars
  PROVE  ActionOK'
<1> USE DEF actionVars, ActionOK
<1>0. ActionOK
  BY DEF TypeInv, TypeOK
<1>1. CASE Fleet
  BY <1>0, <1>1 DEF Fleet, ReceiveOrder, ReceiveCancel, MoveByHand
<1>2. CASE HandleOrder
  <2>1. ASSUME NEW m, AcceptOrder(m) PROVE ActionOK'
    BY <1>0, <2>1 DEF AcceptOrder, NoRuns
  <2>2. ASSUME NEW m, UpdateOrder(m) PROVE ActionOK'
    BY <1>0, <2>2 DEF UpdateOrder, MergeOrder
  <2>3. QED
    BY <1>0, <1>2, <2>1, <2>2 DEF HandleOrder
<1>3. CASE CrashDrop \/ CancelEnd
  <2>1. CASE ClearOrderState
    <3>1. /\ status' = NoStatus /\ dispatched' = {} /\ background' = {} /\ runs' = NoRuns
      BY <2>1 DEF ClearOrderState
    <3>2. stray' \in BOOLEAN
      BY <2>1 DEF ClearOrderState
    <3>3. QED
      BY <3>1, <3>2 DEF NoStatus, NoRuns
  <2>2. CASE UNCHANGED actionVars
    BY <1>0, <2>2
  <2>3. QED
    BY <1>3, <2>1, <2>2 DEF CrashDrop, CancelEnd
<1>4. CASE PostRestart \/ Restart \/ HandleCancel \/ CancelBackgroundEnded
  BY <1>0, <1>4 DEF PostRestart, Restart, HandleCancel, CancelBackgroundEnded
<1>5. CASE EndStray \/ (\E p \in Places : ReportPose(p)) \/ CancelBegin
           \/ \E s \in Seqs : EndBackground(s)
  BY <1>0, <1>5 DEF EndStray, ReportPose, CancelBegin, EndBackground
<1>6. ASSUME NEW t \in Tasks, DispatchActions(t) PROVE ActionOK'
  <2>1. step[t].seq \in Seqs
    BY <1>6 DEF DispatchActions, TypeInv, StepHeld, Step
  <2>2. QED
    BY <1>0, <1>6, <2>1 DEF DispatchActions
<1>7. ASSUME NEW t \in Tasks, WorkerSync(t), ~DispatchActions(t) PROVE ActionOK'
  BY <1>0, <1>7 DEF WorkerSync, TakeStep, WorkerDone, BeginStep, ClearStep
<1>8. ASSUME NEW t \in Tasks, WorkerAwaits(t) \/ WorkerWorks(t) \/ Crash(t) PROVE ActionOK'
  <2>1. CASE StopVehicle(t) \/ EndAction(t)
    BY <1>0, <2>1 DEF StopVehicle, EndAction
  <2>2. CASE \/ WorkerStart(t) \/ Arrive(t) \/ DriveFails(t) \/ EndTick(t)
             \/ Cancelled(t) \/ StartCancelled(t) \/ Crash(t)
    BY <1>0, <2>2 DEF WorkerStart, Arrive, DriveFails, EndTick, Cancelled, StartCancelled, Crash
  <2>3. QED
    BY <1>8, <2>1, <2>2 DEF WorkerAwaits, WorkerWorks
<1>9. CASE UNCHANGED vars
  BY <1>0, <1>9 DEF vars
<1>10. QED
  BY <1>1, <1>2, <1>3, <1>4, <1>5, <1>6, <1>7, <1>8, <1>9 DEF Next, Loop

\* The robot's place, its goal and the reached sequences stay typed.
LEMMA PlaceTypes ==
  ASSUME TypeInv, [Next]_vars
  PROVE  PlaceOK'
<1> USE DEF placeVars, PlaceOK
<1>0. PlaceOK /\ OrderOK /\ ReadyOK
  BY DEF TypeInv, TypeOK
<1>1. CASE Fleet
  BY <1>0, <1>1 DEF Fleet, ReceiveOrder, ReceiveCancel, MoveByHand
<1>2. CASE HandleOrder
  <2>1. Head(ready) \in OrderMessage
    BY <1>0, <1>2, HeadOfReady DEF HandleOrder, IsNext
  <2>2. ASSUME AcceptOrder(Head(ready)), UNCHANGED pos PROVE PlaceOK'
    BY <1>0, <2>1, <2>2, BootstrapTypes DEF AcceptOrder
  <2>3. ASSUME UpdateOrder(Head(ready)), UNCHANGED pos PROVE PlaceOK'
    BY <1>0, <2>3 DEF UpdateOrder, MergeOrder
  <2>4. QED
    BY <1>0, <1>2, <2>2, <2>3 DEF HandleOrder
<1>3. ASSUME NEW p \in Places, ReportPose(p) PROVE PlaceOK'
  <2> DEFINE last == [id |-> lastId, seq |-> lastSeq]
             IsPlace(x) == x.id \in Places \cup {NoPlace} /\ x.seq \in Seqs
  <2>1. PICK near \in [id : {p}, seq : SeqOfPlace(p)] :
          \E r \in Released(last) : \E d \in Seeded(r, near) : \E c \in Captured(d, near) :
            lastId' = c.id /\ lastSeq' = c.seq
    BY <1>3 DEF ReportPose
  <2>2. PICK r \in Released(last) :
          \E d \in Seeded(r, near) : \E c \in Captured(d, near) :
            lastId' = c.id /\ lastSeq' = c.seq
    BY <2>1
  <2>3. PICK d \in Seeded(r, near) :
          \E c \in Captured(d, near) : lastId' = c.id /\ lastSeq' = c.seq
    BY <2>2
  <2>4. SeqOfPlace(p) \subseteq Seqs
    BY <1>0, SeqIds DEF SeqOfPlace, OrderOK
  <2>5. IsPlace(last) /\ IsPlace(Unplaced) /\ IsPlace(near)
    BY <1>0, <2>4, SeqIds DEF Unplaced
  <2> HIDE DEF last, IsPlace
  <2>6. IsPlace(r)
    BY <2>5 DEF Released
  <2>7. IsPlace(d)
    BY <2>5, <2>6 DEF Seeded
  <2>8. PICK c \in Captured(d, near) : lastId' = c.id /\ lastSeq' = c.seq
    BY <2>3
  <2>9. IsPlace(c)
    BY <2>5, <2>7, <2>8 DEF Captured
  <2>10. QED
    BY <1>0, <1>3, <2>8, <2>9 DEF ReportPose, IsPlace
<1>4. CASE Loop /\ ~HandleOrder
  BY <1>0, <1>4, <1>3 DEF Loop, PostRestart, Restart, CrashDrop, EndStray, EndBackground,
                          HandleCancel, CancelBegin, CancelBackgroundEnded, CancelEnd
<1>5. ASSUME NEW t \in Tasks, WorkerSync(t) PROVE PlaceOK'
  BY <1>0, <1>5 DEF WorkerSync, TakeStep, WorkerDone, BeginStep, DispatchActions, ClearStep
<1>6. ASSUME NEW t \in Tasks, Arrive(t) PROVE PlaceOK'
  <2>1. step[t].seq \in NodeSeqs /\ step[t].of \in Orders
    BY <1>6 DEF Arrive, TypeInv, StepHeld, Step
  <2>2. Route[step[t].of][step[t].seq] \in Places
    BY <2>1, OrderEngineAssumption
  <2>3. QED
    BY <1>6, <2>1, <2>2, SeqIds DEF Arrive
<1>7. ASSUME NEW t \in Tasks, WorkerAwaits(t) \/ WorkerWorks(t) \/ Crash(t), ~Arrive(t)
      PROVE PlaceOK'
  BY <1>0, <1>7 DEF WorkerAwaits, WorkerWorks, WorkerStart, DriveFails, StopVehicle, EndAction,
       EndTick, Cancelled, StartCancelled, Crash
<1>8. CASE UNCHANGED vars
  BY <1>0, <1>8 DEF vars
<1>9. QED
  BY <1>1, <1>2, <1>4, <1>5, <1>6, <1>7, <1>8 DEF Next

\* The tasks and the ready queue change together.
LEMMA TaskTypes ==
  ASSUME TypeInv, [Next]_vars
  PROVE  TaskOK' /\ ReadyOK'
<1> USE DEF taskVars
<1>0. TaskOK /\ ReadyOK /\ OrderOK
  BY DEF TypeInv, TypeOK
<1>a. ready # <<>> => Tail(ready) \in Seq(Message \cup Callback)
  BY <1>0, HeadOfReady
<1>b. ready \in Seq(Message \cup Callback)
  BY <1>0 DEF ReadyOK
<1>1. CASE Fleet
  <2>1. ASSUME NEW m \in OrderMessage, ReceiveOrder(m) PROVE TaskOK' /\ ReadyOK'
    BY <1>0, <1>b, <2>1 DEF ReceiveOrder, TaskOK, ReadyOK, Message
  <2>2. CASE ReceiveCancel
    <3>1. [kind |-> "cancel", id |-> orderId] \in Message
      BY <1>0 DEF Message, CancelMessage, OrderOK
    <3>2. QED
      BY <1>0, <1>b, <2>2, <3>1 DEF ReceiveCancel, TaskOK, ReadyOK
  <2>3. ASSUME NEW p, MoveByHand(p) PROVE TaskOK' /\ ReadyOK'
    BY <1>0, <2>3 DEF MoveByHand, TaskOK, ReadyOK
  <2>4. QED
    BY <1>1, <2>1, <2>2, <2>3 DEF Fleet
<1>2. CASE HandleOrder
  <2>1. ready # <<>> /\ cancelling \subseteq Tasks /\ worker \in Tasks
    BY <1>0, <1>2 DEF HandleOrder, IsNext, TaskOK
  <2>2. ASSUME NEW m, AcceptOrder(m) PROVE TaskOK' /\ ReadyOK'
    <3> DEFINE canc == IF Alive(worker) THEN cancelling \cup {worker} ELSE cancelling
    <3>1. PICK last : StartTask(NoStep, last, canc, Tail(ready))
      BY <2>2 DEF AcceptOrder
    <3>2. canc \in SUBSET Tasks
      BY <2>1
    <3>3. QED
      BY <1>0, <1>a, <2>1, <3>1, <3>2, StartTaskTypes
  <2>3. ASSUME NEW m, UpdateOrder(m) PROVE TaskOK' /\ ReadyOK'
    <3>1. PICK last : StartTask(currentStep, last, cancelling, Tail(ready))
      BY <2>3 DEF UpdateOrder, MergeOrder
    <3>2. QED
      BY <1>0, <1>a, <2>1, <3>1, StartTaskTypes
  <2>4. CASE ready' = Tail(ready) /\ UNCHANGED taskVars
    BY <1>0, <1>a, <2>1, <2>4 DEF TaskOK, ReadyOK
  <2>5. QED
    BY <1>2, <2>2, <2>3, <2>4 DEF HandleOrder
<1>3. CASE Restart
  <2>1. ready # <<>> /\ cancelling \in SUBSET Tasks
    BY <1>0, <1>3 DEF Restart, IsNext, TaskOK
  <2>2. QED
    BY <1>0, <1>a, <1>3, <2>1, StartTaskTypes DEF Restart
<1>4. CASE PostRestart \/ HandleCancel
  <2>1. PICK k \in {"restart", "cancelling"} : ready' = Append(Tail(ready), [kind |-> k])
    BY <1>4 DEF PostRestart, HandleCancel
  <2>2. [kind |-> k] \in Message \cup Callback
    BY Callbacks
  <2>3. ReadyOK'
    BY <1>a, <1>4, <2>1, <2>2 DEF PostRestart, HandleCancel, IsNext, ReadyOK
  <2>4. TaskOK'
    BY <1>0, <1>4 DEF PostRestart, HandleCancel, TaskOK
  <2>5. QED
    BY <2>3, <2>4
<1>5. CASE CrashDrop \/ CancelBegin
  BY <1>0, <1>a, <1>5 DEF CrashDrop, CancelBegin, IsNext, TaskOK, ReadyOK
<1>6. CASE EndStray \/ (\E p \in Places : ReportPose(p)) \/ CancelBackgroundEnded \/ CancelEnd
           \/ \E s \in Seqs : EndBackground(s)
  BY <1>0, <1>6 DEF EndStray, ReportPose, CancelBackgroundEnded, CancelEnd, EndBackground, TaskOK,
       ReadyOK
<1>7. ASSUME NEW t \in Tasks, NEW label \in Labels, GoTo(t, label), UNCHANGED ready
      PROVE  TaskOK' /\ ReadyOK'
  BY <1>0, <1>7 DEF GoTo, TaskOK, ReadyOK
<1>8. ASSUME NEW t \in Tasks, WorkerSync(t) PROVE TaskOK' /\ ReadyOK'
  <2>1. CASE TakeStep(t) \/ DispatchActions(t) \/ ClearStep(t)
    BY <1>7, <2>1 DEF TakeStep, DispatchActions, ClearStep, Labels
  <2>2. CASE BeginStep(t)
    BY <1>0, <1>b, <1>7, <2>2, EndTaskTypes DEF BeginStep, Requeue, Labels
  <2>3. CASE WorkerDone(t)
    BY <1>0, <1>b, <2>3, EndTaskTypes DEF WorkerDone
  <2>4. QED
    BY <1>8, <2>1, <2>2, <2>3 DEF WorkerSync
<1>9. ASSUME NEW t \in Tasks, WorkerAwaits(t) \/ WorkerWorks(t) PROVE TaskOK' /\ ReadyOK'
  <2>1. CASE WorkerStart(t)
    BY <1>0, <1>a, <2>1 DEF WorkerStart, GoTo, IsNext, TaskOK, ReadyOK, Labels
  <2>2. CASE Arrive(t) \/ EndAction(t) \/ EndTick(t)
    BY <1>7, <2>2 DEF Arrive, EndAction, EndTick, Labels
  <2>3. CASE StopVehicle(t)
    BY <1>0, <1>b, <1>7, <2>3, EndTaskTypes DEF StopVehicle, Requeue, Labels
  <2>4. CASE DriveFails(t) \/ Cancelled(t)
    BY <1>0, <1>b, <2>4, EndTaskTypes DEF DriveFails, Requeue, Cancelled
  <2>5. CASE StartCancelled(t)
    BY <1>0, <1>a, <2>5, EndTaskTypes DEF StartCancelled, IsNext
  <2>6. QED
    BY <1>9, <2>1, <2>2, <2>3, <2>4, <2>5 DEF WorkerAwaits, WorkerWorks
<1>10. ASSUME NEW t \in Tasks, Crash(t) PROVE TaskOK' /\ ReadyOK'
  <2>1. Append(ready, [kind |-> "crash"]) \in Seq(Message \cup Callback)
    BY <1>b, Callbacks
  <2>2. QED
    BY <1>0, <1>10, <2>1, EndTaskTypes DEF Crash
<1>11. CASE UNCHANGED vars
  BY <1>0, <1>11 DEF vars, TaskOK, ReadyOK
<1>12. QED
  BY <1>1, <1>2, <1>3, <1>4, <1>5, <1>6, <1>8, <1>9, <1>10, <1>11 DEF Next, Loop

\* The queue of steps, the marks and the tasks stay typed.
LEMMA StepTypes ==
  ASSUME TypeInv, [Next]_vars
  PROVE  StepOK'
<1> USE DEF queueVars, markVars, taskVars, StepOK
<1>0. StepOK /\ OrderOK /\ ReadyOK /\ PlaceOK
  BY DEF TypeInv, TypeOK
<1>1. CASE Fleet
  BY <1>0, <1>1 DEF Fleet, ReceiveOrder, ReceiveCancel, MoveByHand
<1>2. ASSUME NEW cs, NEW last, NEW canc, NEW rest, StartTask(cs, last, canc, rest)
      PROVE  step' \in [Tasks -> Step \cup {NoStep}]
  BY <1>0, <1>2 DEF StartTask
<1>3. ASSUME NEW t \in Tasks, NEW rest, EndTask(t, rest)
      PROVE  step' \in [Tasks -> Step \cup {NoStep}]
  BY <1>0, <1>3 DEF EndTask
<1>4. CASE HandleOrder
  <2> DEFINE m == Head(ready)
  <2>1. /\ m.id \in Orders
        /\ NodesOf(m) \subseteq NodeSeqs /\ EdgesOf(m) \subseteq EdgeSeqs
    BY <1>0, <1>4, HeadOfReady DEF HandleOrder, IsNext, OrderMessage, NodesOf, EdgesOf
  <2>2. UNCHANGED <<inFlight, runStep>>
    BY <1>4 DEF HandleOrder
  <2> HIDE DEF m
  <2>3. CASE AcceptOrder(m)
    <3>1. step' \in [Tasks -> Step \cup {NoStep}]
      BY <1>2, <2>3 DEF AcceptOrder
    <3>2. queue' \subseteq Step
      BY <2>1, <2>3, StepsForTypes DEF AcceptOrder, PruneNodes, PruneEdges
    <3>3. QED
      BY <1>0, <2>2, <2>3, <3>1, <3>2 DEF AcceptOrder
  <2>4. CASE UpdateOrder(m)
    <3>1. step' \in [Tasks -> Step \cup {NoStep}]
      BY <1>2, <2>4 DEF UpdateOrder, MergeOrder
    <3>2. queue' \subseteq Step
      BY <1>0, <2>1, <2>4, StepsForTypes
      DEF UpdateOrder, MergeOrder, PruneNodes, PruneEdges, MergedItems, OrderOK
    <3>3. requeued' = <<>> /\ UNCHANGED currentStep
      BY <2>4 DEF UpdateOrder, MergeOrder
    <3>4. QED
      BY <1>0, <2>2, <3>1, <3>2, <3>3
  <2>5. CASE UNCHANGED <<queueVars, taskVars, currentStep>>
    BY <1>0, <2>2, <2>5
  <2>6. QED
    BY <1>4, <2>3, <2>4, <2>5 DEF HandleOrder, m
<1>5. CASE Restart
  BY <1>0, <1>2, <1>5 DEF Restart
<1>6. CASE CrashDrop \/ CancelBegin \/ CancelBackgroundEnded
  <2>1. UNCHANGED <<inFlight, runStep, step>>
    BY <1>6 DEF CrashDrop, CancelBegin, CancelBackgroundEnded
  <2>2. \/ queue' = {} /\ requeued' = <<>> /\ currentStep' = NoStep
        \/ UNCHANGED <<queue, requeued, currentStep>>
    BY <1>6 DEF CrashDrop, CancelBegin, CancelBackgroundEnded, ClearQueue
  <2>3. CASE queue' = {} /\ requeued' = <<>> /\ currentStep' = NoStep
    <3>1. queue' \subseteq Step /\ requeued' \in Seq(Step)
      BY <2>3
    <3>2. QED
      BY <1>0, <2>1, <2>3, <3>1
  <2>4. CASE UNCHANGED <<queue, requeued, currentStep>>
    BY <1>0, <2>1, <2>4
  <2>5. QED
    BY <2>2, <2>3, <2>4
<1>7. CASE \/ PostRestart \/ EndStray \/ (\E p \in Places : ReportPose(p))
           \/ \E s \in Seqs : EndBackground(s)
           \/ HandleCancel \/ CancelEnd
  BY <1>0, <1>7 DEF PostRestart, EndStray, ReportPose, EndBackground, HandleCancel, CancelEnd
<1>8. ASSUME NEW t \in Tasks, Requeue(t), step[t] \in Step PROVE StepOK'
  BY <1>0, <1>3, <1>8 DEF Requeue
<1>9. ASSUME NEW t \in Tasks, WorkerSync(t) PROVE StepOK'
  <2>1. CASE TakeStep(t)
    <3>1. UNCHANGED <<inFlight, runStep>>
      BY <2>1 DEF TakeStep
    <3>2. PICK st \in Step : /\ step' = [step EXCEPT ![t] = st]
                             /\ currentStep' = st
                             /\ queue' \subseteq queue
                             /\ requeued' \in Seq(Step)
      BY <1>0, <2>1 DEF TakeStep
    <3>3. QED
      BY <1>0, <3>1, <3>2
  <2>2. CASE WorkerDone(t)
    BY <1>0, <1>3, <2>2 DEF WorkerDone
  <2>3. CASE BeginStep(t)
    <3>1. step[t] \in Step
      BY <2>3 DEF BeginStep, TypeInv, StepHeld
    <3>2. QED
      BY <1>0, <1>8, <2>3, <3>1 DEF BeginStep, GoTo
  <2>4. CASE DispatchActions(t)
    BY <1>0, <2>4 DEF DispatchActions, GoTo, TypeInv, StepHeld
  <2>5. CASE ClearStep(t)
    BY <1>0, <2>5 DEF ClearStep, GoTo
  <2>6. QED
    BY <1>9, <2>1, <2>2, <2>3, <2>4, <2>5 DEF WorkerSync
<1>10. ASSUME NEW t \in Tasks, WorkerAwaits(t) \/ WorkerWorks(t) \/ Crash(t) PROVE StepOK'
  <2>1. CASE WorkerStart(t) \/ Arrive(t) \/ EndAction(t) \/ EndTick(t)
    BY <1>0, <2>1 DEF WorkerStart, Arrive, EndAction, EndTick, GoTo
  <2>2. CASE DriveFails(t)
    BY <1>8, <2>2 DEF DriveFails, TypeInv, StepHeld
  <2>3. CASE StopVehicle(t)
    <3>1. step[t] \in Step
      BY <2>3 DEF StopVehicle, TypeInv, StepHeld
    <3>2. QED
      BY <1>0, <1>8, <2>3, <3>1 DEF StopVehicle, GoTo
  <2>4. CASE Cancelled(t) \/ StartCancelled(t) \/ Crash(t)
    BY <1>0, <1>3, <2>4 DEF Cancelled, StartCancelled, Crash
  <2>5. QED
    BY <1>10, <2>1, <2>2, <2>3, <2>4 DEF WorkerAwaits, WorkerWorks
<1>11. CASE UNCHANGED vars
  BY <1>0, <1>11 DEF vars
<1>12. QED
  BY <1>1, <1>4, <1>5, <1>6, <1>7, <1>9, <1>10, <1>11 DEF Next, Loop

\* A task comes to a label past the loop only with the step that TakeStep gave it.
LEMMA StepStaysHeld ==
  ASSUME TypeInv, [Next]_vars
  PROVE  StepHeld'
<1> USE DEF taskVars, StepHeld
<1>0. StepHeld /\ TaskOK /\ StepOK
  BY DEF TypeInv, TypeOK
<1>1. CASE UNCHANGED <<pc, step>>
  BY <1>0, <1>1
<1>2. ASSUME NEW cs, NEW last, NEW canc, NEW rest, StartTask(cs, last, canc, rest)
      PROVE  StepHeld'
  BY <1>0, <1>2 DEF StartTask, TaskOK, StepOK
<1>3. ASSUME NEW t \in Tasks, NEW rest, EndTask(t, rest) PROVE StepHeld'
  BY <1>0, <1>3 DEF EndTask, TaskOK, StepOK
<1>4. ASSUME NEW t \in Tasks, NEW label \in Labels \ {"drive"}, GoTo(t, label),
             UNCHANGED step, label # "loop" => step[t] \in Step
      PROVE  StepHeld'
  BY <1>0, <1>4 DEF GoTo, TaskOK, StepOK
<1>5. CASE Fleet
  BY <1>1, <1>5 DEF Fleet, ReceiveOrder, ReceiveCancel, MoveByHand
<1>6. CASE HandleOrder \/ Restart
  BY <1>1, <1>2, <1>6 DEF HandleOrder, AcceptOrder, UpdateOrder, MergeOrder, Restart
<1>7. CASE Loop /\ ~HandleOrder /\ ~Restart
  BY <1>1, <1>7 DEF Loop, PostRestart, CrashDrop, EndStray, ReportPose, EndBackground, HandleCancel,
                    CancelBegin, CancelBackgroundEnded, CancelEnd
<1>8. ASSUME NEW t \in Tasks, WorkerSync(t) PROVE StepHeld'
  <2>1. CASE TakeStep(t)
    BY <1>0, <2>1 DEF TakeStep, GoTo, TaskOK, StepOK
  <2>2. CASE WorkerDone(t)
    BY <1>3, <2>2 DEF WorkerDone
  <2>3. CASE BeginStep(t)
    <3>1. step[t] \in Step
      BY <1>0, <2>3 DEF BeginStep
    <3>2. \/ Requeue(t)
          \/ GoTo(t, "actions") /\ UNCHANGED step
          \/ GoTo(t, "drive") /\ UNCHANGED step /\ step[t].seq \notin EdgeSeqs
      BY <2>3 DEF BeginStep
    <3>3. CASE GoTo(t, "actions") /\ UNCHANGED step
      BY <1>4, <3>1, <3>3 DEF Labels
    <3>4. CASE GoTo(t, "drive") /\ UNCHANGED step /\ step[t].seq \notin EdgeSeqs
      BY <1>0, <3>1, <3>4 DEF GoTo, TaskOK, StepOK, Step, EdgeSeqs
    <3>5. QED
      BY <1>3, <3>2, <3>3, <3>4 DEF Requeue
  <2>4. CASE DispatchActions(t)
    BY <1>0, <1>4, <2>4 DEF DispatchActions, Labels
  <2>5. CASE ClearStep(t)
    BY <1>0, <2>5 DEF ClearStep, GoTo, TaskOK, StepOK
  <2>6. QED
    BY <1>8, <2>1, <2>2, <2>3, <2>4, <2>5 DEF WorkerSync
<1>9. ASSUME NEW t \in Tasks, WorkerAwaits(t) \/ WorkerWorks(t) \/ Crash(t) PROVE StepHeld'
  <2>1. CASE WorkerStart(t) \/ Arrive(t) \/ EndAction(t) \/ EndTick(t)
    BY <1>0, <1>4, <2>1 DEF WorkerStart, Arrive, EndAction, EndTick, Labels
  <2>2. CASE DriveFails(t) \/ Cancelled(t) \/ StartCancelled(t) \/ Crash(t)
    BY <1>3, <2>2 DEF DriveFails, Requeue, Cancelled, StartCancelled, Crash
  <2>3. CASE StopVehicle(t)
    BY <1>0, <1>3, <1>4, <2>3 DEF StopVehicle, Requeue, Labels
  <2>4. QED
    BY <1>9, <2>1, <2>2, <2>3 DEF WorkerAwaits, WorkerWorks
<1>10. CASE UNCHANGED vars
  BY <1>1, <1>10 DEF vars
<1>11. QED
  BY <1>5, <1>6, <1>7, <1>8, <1>9, <1>10 DEF Next

\* lateRestart stays a Boolean: only Restart assigns it.
LEMMA HistoryTypes ==
  ASSUME TypeInv, [Next]_vars
  PROVE  lateRestart' \in BOOLEAN
<1>0. lateRestart \in BOOLEAN
  BY DEF TypeInv, TypeOK
<1>1. CASE Restart
  BY <1>1 DEF Restart
<1>2. ASSUME NEW t \in Tasks, WorkerSync(t) \/ WorkerAwaits(t) \/ WorkerWorks(t) \/ Crash(t)
      PROVE  lateRestart' \in BOOLEAN
  BY <1>0, <1>2 DEF WorkerSync, WorkerAwaits, WorkerWorks, TakeStep, WorkerDone, BeginStep,
       DispatchActions, ClearStep, WorkerStart, Arrive, DriveFails, StopVehicle, EndAction,
       EndTick, Cancelled, StartCancelled, Crash
<1>3. CASE Fleet \/ (Loop /\ ~Restart) \/ UNCHANGED vars
  BY <1>0, <1>3 DEF Fleet, ReceiveOrder, ReceiveCancel, MoveByHand, Loop, HandleOrder, PostRestart,
              CrashDrop, EndStray, ReportPose, EndBackground, HandleCancel, CancelBegin,
              CancelBackgroundEnded, CancelEnd, vars
<1>4. QED
  BY <1>1, <1>2, <1>3 DEF Next

-----------------------------------------------------------------------------
\* The initial states satisfy the type invariant and its strengthening.
LEMMA InitTypes == Init => TypeInv
<1> SUFFICES ASSUME Init PROVE TypeInv
  OBVIOUS
<1> USE SeqIds, OrderEngineAssumption DEF Init
<1>1. FleetOK /\ ReadyOK /\ OrderOK /\ PlaceOK
  BY DEF FleetOK, ReadyOK, OrderOK, PlaceOK
<1>2. ActionOK
  BY DEF ActionOK, NoStatus, NoRuns
<1>3. StepOK
  BY DEF StepOK
<1>4. TaskOK /\ StepHeld
  BY DEF TaskOK, StepHeld, Labels
<1>5. QED
  BY <1>1, <1>2, <1>3, <1>4 DEF TypeInv, TypeOK

\* Every variable of the engine keeps its shape, and a worker past its loop holds
\* a step, for every fleet, route and size of orders.
THEOREM TypeCorrect == Spec => [](TypeOK /\ StepHeld)
<1>1. TypeInv /\ [Next]_vars => TypeInv'
  BY FleetTypes, OrderTypes, ActionTypes, PlaceTypes, TaskTypes, StepTypes, StepStaysHeld,
     HistoryTypes
  DEF TypeInv, TypeOK
<1>2. QED
  BY InitTypes, <1>1, PTL DEF Spec, TypeInv

-----------------------------------------------------------------------------
(* The ready queue of the event loop, and what it says of the tasks *)

Has(kind) == \E i \in 1..Len(ready) : ready[i].kind = kind
Once(kind) ==
  \A i, j \in 1..Len(ready) : ready[i].kind = kind /\ ready[j].kind = kind => i = j
Before(first, second) ==
  \A i, j \in 1..Len(ready) : ready[i].kind = first /\ ready[j].kind = second => i < j

\* What is left of the ready queue when an action has taken its head, or not.
Rest(rest, taken) ==
  \/ taken = 0 /\ rest = ready
  \/ taken = 1 /\ ready # <<>> /\ rest = Tail(ready)

\* How an action changes the ready queue: it takes the head or not, puts at most
\* one callback x behind the rest, and then restart callbacks of a task that ended.
QueueMove(taken, x) ==
  /\ taken \in {0, 1}
  /\ taken = 1 => ready # <<>>
  /\ \A i \in 1..Len(ready') :
       \/ i + taken \in 1..Len(ready) /\ ready'[i] = ready[i + taken]
       \/ i + taken = Len(ready) + 1 /\ ready'[i] = x
       \/ i + taken > Len(ready) /\ ready'[i].kind = "done"
  /\ \A i \in 1..Len(ready) :
       i > taken => i - taken \in 1..Len(ready') /\ ready'[i - taken] = ready[i]

\* The rest of the queue holds the same callbacks, one place further ahead.
LEMMA RestIs ==
  ASSUME ReadyOK, NEW rest, NEW taken, Rest(rest, taken)
  PROVE  /\ taken \in {0, 1} /\ rest \in Seq(Message \cup Callback)
         /\ taken = 1 => ready # <<>>
         /\ Len(rest) = Len(ready) - taken
         /\ \A i \in 1..Len(rest) : i + taken \in 1..Len(ready) /\ rest[i] = ready[i + taken]
         /\ \A i \in 1..Len(ready) :
              i > taken => i - taken \in 1..Len(rest) /\ rest[i - taken] = ready[i]
<1> USE DEF ReadyOK
<1>1. CASE taken = 0 /\ rest = ready
  BY <1>1
<1>2. CASE taken = 1 /\ ready # <<>> /\ rest = Tail(ready)
  <2>1. /\ rest \in Seq(Message \cup Callback) /\ Len(rest) = Len(ready) - 1
        /\ \A i \in 1..Len(rest) : i + 1 \in 1..Len(ready) /\ rest[i] = ready[i + 1]
    BY <1>2
  <2>2. \A i \in 1..Len(ready) : i > 1 => i - 1 \in 1..Len(rest) /\ rest[i - 1] = ready[i]
    BY <1>2, <2>1
  <2>3. QED
    BY <1>2, <2>1, <2>2
<1>3. QED
  BY <1>1, <1>2 DEF Rest

\* Nothing is put behind the rest.
LEMMA TakenIsMove ==
  ASSUME ReadyOK, NEW rest, NEW taken, NEW x, Rest(rest, taken), ready' = rest
  PROVE  QueueMove(taken, x)
BY RestIs DEF QueueMove

\* One callback is put behind the rest.
LEMMA AppendIsMove ==
  ASSUME ReadyOK, NEW rest, NEW taken, NEW x \in Message \cup Callback, Rest(rest, taken),
         ready' = Append(rest, x)
  PROVE  QueueMove(taken, x)
<1>1. /\ Len(ready') = Len(rest) + 1
      /\ \A i \in 1..Len(rest) : ready'[i] = rest[i]
      /\ ready'[Len(rest) + 1] = x
  BY RestIs
<1>2. QED
  BY <1>1, RestIs DEF QueueMove, ReadyOK

\* A task ends: the restart callbacks attached to it go behind the rest.
LEMMA DonesBehind ==
  ASSUME TaskOK, NEW t \in Tasks, NEW rest \in Seq(Message \cup Callback), EndTask(t, rest)
  PROVE  /\ \A i \in 1..Len(ready') : \/ i \in 1..Len(rest) /\ ready'[i] = rest[i]
                                      \/ i > Len(rest) /\ ready'[i].kind = "done"
         /\ \A i \in 1..Len(rest) : i \in 1..Len(ready') /\ ready'[i] = rest[i]
<1> DEFINE done == [i \in 1..waiters[t] |-> [kind |-> "done"]]
<1>1. waiters[t] \in Nat /\ ready' = rest \o done
  BY DEF EndTask, TaskOK
<1>2. Len(done) = waiters[t] /\ \A i \in 1..Len(done) : done[i].kind = "done"
  BY <1>1
<1>3. done \in Seq(Message \cup Callback)
  <2>1. [kind |-> "done"] \in Message \cup Callback
    BY Callbacks
  <2>2. waiters[t] \in Nat
    BY <1>1
  <2>3. QED
    BY <2>1, <2>2
<1> HIDE DEF done
<1>4. Len(rest \o done) = Len(rest) + Len(done)
  BY <1>3
<1>5. \A i \in 1..Len(rest) + Len(done) :
        (rest \o done)[i] = IF i <= Len(rest) THEN rest[i] ELSE done[i - Len(rest)]
  BY <1>3
<1>6. Len(rest) \in Nat /\ Len(done) \in Nat
  BY <1>3
<1>9. \A i \in 1..Len(rest) : i \in 1..Len(ready') /\ ready'[i] = rest[i]
  BY <1>1, <1>4, <1>5, <1>6
<1> SUFFICES ASSUME NEW i \in 1..Len(ready')
             PROVE  \/ i \in 1..Len(rest) /\ ready'[i] = rest[i]
                    \/ i > Len(rest) /\ ready'[i].kind = "done"
  BY <1>9
<1>7. CASE i <= Len(rest)
  BY <1>1, <1>4, <1>5, <1>6, <1>7
<1>8. CASE i > Len(rest)
  <2>1. ready'[i] = done[i - Len(rest)] /\ i - Len(rest) \in 1..Len(done)
    BY <1>1, <1>4, <1>5, <1>6, <1>8
  <2>2. QED
    BY <1>2, <1>8, <2>1
<1>10. QED
  BY <1>6, <1>7, <1>8

\* A task that ends puts no more than done callbacks behind the queue.
LEMMA EndIsMove ==
  ASSUME ReadyOK, TaskOK, NEW rest, NEW taken, NEW x, Rest(rest, taken), NEW t \in Tasks,
         EndTask(t, rest)
  PROVE  QueueMove(taken, x)
<1>1. /\ \A i \in 1..Len(ready') : \/ i \in 1..Len(rest) /\ ready'[i] = rest[i]
                                   \/ i > Len(rest) /\ ready'[i].kind = "done"
      /\ \A i \in 1..Len(rest) : i \in 1..Len(ready') /\ ready'[i] = rest[i]
  BY DonesBehind, RestIs
<1>2. Len(ready) \in Nat
  BY DEF ReadyOK
<1>3. QED
  BY <1>1, <1>2, RestIs DEF QueueMove

\* A worker raises: its done callback goes behind the queue, then those restarts.
LEMMA CrashIsMove ==
  ASSUME ReadyOK, TaskOK, NEW t \in Tasks, EndTask(t, Append(ready, [kind |-> "crash"]))
  PROVE  QueueMove(0, [kind |-> "crash"])
<1> DEFINE rest == Append(ready, [kind |-> "crash"])
<1>1. /\ rest \in Seq(Message \cup Callback) /\ Len(rest) = Len(ready) + 1
      /\ \A i \in 1..Len(ready) : rest[i] = ready[i]
      /\ rest[Len(ready) + 1] = [kind |-> "crash"]
  BY Callbacks DEF ReadyOK
<1>2. /\ \A i \in 1..Len(ready') : \/ i \in 1..Len(rest) /\ ready'[i] = rest[i]
                                   \/ i > Len(rest) /\ ready'[i].kind = "done"
      /\ \A i \in 1..Len(rest) : i \in 1..Len(ready') /\ ready'[i] = rest[i]
  BY <1>1, DonesBehind
<1> HIDE DEF rest
<1>3. Len(ready) \in Nat
  BY DEF ReadyOK
<1>4. QED
  BY <1>1, <1>2, <1>3 DEF QueueMove

\* What such a move keeps: what is in the queue was there or is x; a callback that
\* is queued once stays so; the order of two kinds stays, unless x is the first.
LEMMA MoveHas ==
  ASSUME ReadyOK, NEW taken, NEW x, QueueMove(taken, x), NEW kind, kind # "done", Has(kind)'
  PROVE  Has(kind) \/ x.kind = kind
BY DEF QueueMove, Has

\* A kind other than that of the head stays in the queue.
LEMMA MoveStays ==
  ASSUME ReadyOK, NEW taken, NEW x, QueueMove(taken, x), NEW kind, Has(kind),
         taken = 1 => Head(ready).kind # kind
  PROVE  Has(kind)'
<1>1. PICK i \in 1..Len(ready) : ready[i].kind = kind
  BY DEF Has
<1>2. i > taken
  BY <1>1 DEF QueueMove, ReadyOK
<1>3. i - taken \in 1..Len(ready') /\ ready'[i - taken] = ready[i]
  BY <1>2 DEF QueueMove
<1>4. QED
  BY <1>1, <1>3 DEF Has

\* A callback that was queued at most once is so after a move, unless it is put there a
\* second time.
LEMMA MoveOnce ==
  ASSUME ReadyOK, ReadyOK', NEW taken, NEW x, QueueMove(taken, x), NEW kind, kind # "done",
         Once(kind), x.kind = kind => ~Has(kind)
  PROVE  Once(kind)'
<1> SUFFICES ASSUME NEW i \in 1..Len(ready'), NEW j \in 1..Len(ready'),
                    ready'[i].kind = kind, ready'[j].kind = kind
             PROVE  i = j
  BY DEF Once
<1>0. i \in Nat /\ j \in Nat /\ taken \in {0, 1} /\ Len(ready) \in Nat
  BY DEF QueueMove, ReadyOK
<1>1. CASE x.kind = kind
  <2>1. i + taken = Len(ready) + 1 /\ j + taken = Len(ready) + 1
    BY <1>1 DEF QueueMove, Has
  <2>2. QED
    BY <1>0, <2>1
<1>2. CASE x.kind # kind
  <2>1. /\ i + taken \in 1..Len(ready) /\ ready[i + taken].kind = kind
        /\ j + taken \in 1..Len(ready) /\ ready[j + taken].kind = kind
    BY <1>2 DEF QueueMove
  <2>2. i + taken = j + taken
    BY <2>1 DEF Once
  <2>3. QED
    BY <1>0, <2>2
<1>3. QED
  BY <1>1, <1>2

\* Two kinds of callbacks stay in their order, unless the first one is put behind the
\* second.
LEMMA MoveBefore ==
  ASSUME ReadyOK, ReadyOK', NEW taken, NEW x, QueueMove(taken, x), NEW first, NEW second,
         first # "done", second # "done", first # second,
         Before(first, second), x.kind = first => ~Has(second)
  PROVE  Before(first, second)'
<1> SUFFICES ASSUME NEW i \in 1..Len(ready'), NEW j \in 1..Len(ready'),
                    ready'[i].kind = first, ready'[j].kind = second
             PROVE  i < j
  BY DEF Before
<1>0. i \in Nat /\ j \in Nat /\ taken \in {0, 1} /\ Len(ready) \in Nat
  BY DEF QueueMove, ReadyOK
<1>1. CASE x.kind = first
  <2>1. FALSE
    BY <1>1 DEF QueueMove, Has
  <2>2. QED
    BY <2>1
<1>2. CASE x.kind # first
  <2>1. i + taken \in 1..Len(ready) /\ ready[i + taken].kind = first
    BY <1>2 DEF QueueMove
  <2>2. CASE j + taken \in 1..Len(ready) /\ ready[j + taken].kind = second
    <3>1. i + taken < j + taken
      BY <2>1, <2>2 DEF Before
    <3>2. QED
      BY <1>0, <3>1
  <2>3. CASE j + taken = Len(ready) + 1
    BY <1>0, <2>1, <2>3
  <2>4. QED
    BY <2>2, <2>3 DEF QueueMove
<1>3. QED
  BY <1>1, <1>2

\* A callback that was queued once and has been taken is queued no more; and
\* nothing that comes before it is.
LEMMA TakenIsGone ==
  ASSUME ReadyOK, NEW x, QueueMove(1, x), NEW kind, kind # "done", x.kind # kind, Once(kind),
         Head(ready).kind = kind
  PROVE  ~Has(kind)'
<1> SUFFICES ASSUME NEW i \in 1..Len(ready'), ready'[i].kind = kind PROVE FALSE
  BY DEF Has
<1>1. i + 1 \in 1..Len(ready) /\ ready[i + 1].kind = kind
  BY DEF QueueMove
<1>2. ready # <<>> /\ ready[1].kind = kind /\ 1 \in 1..Len(ready)
  BY DEF QueueMove, ReadyOK
<1>3. i + 1 = 1
  BY <1>1, <1>2 DEF Once
<1>4. QED
  BY <1>3

\* At the head of the queue nothing is left that comes before it.
LEMMA NoneBefore ==
  ASSUME ReadyOK, ready # <<>>, NEW first, NEW second, Before(first, second),
         Head(ready).kind = second
  PROVE  ~Has(first)
BY DEF ReadyOK, Before, Has

-----------------------------------------------------------------------------
(* Starts and crashes in the ready queue *)

\* The first step of a task is queued once, while the task waits for it; it comes
\* behind the done callback of a worker that raised, and while that is queued no
\* worker has got beyond waiting for its first step.
StartInv ==
  /\ \A i \in 1..Len(ready) : ready[i].kind = "start" => pc[ready[i].task] = "ready"
  /\ Once("start")
  /\ Before("crash", "start")
  /\ Has("crash") => \A t \in Tasks : Alive(t) => pc[t] = "ready"

Other == [kind |-> "done"]

\* What an action may do to them: queue something else while running tasks go on
\* or end; start a task when there is none; run the first step of one; or let a
\* running worker raise.
StartMove ==
  \/ \E taken, x :
       /\ QueueMove(taken, x) /\ x.kind \notin {"start", "crash"}
       /\ \A t \in Tasks : \/ pc'[t] = pc[t]
                           \/ pc[t] \notin {"idle", "ready"} /\ pc'[t] # "ready"
  \/ \E taken : \E t \in Tasks :
       /\ QueueMove(taken, [kind |-> "start", task |-> t])
       /\ ~Alive(worker) /\ pc' = [pc EXCEPT ![t] = "ready"]
  \/ \E t \in Tasks, label \in Labels \ {"ready"} :
       /\ ready # <<>> /\ Head(ready).kind = "start" /\ Head(ready).task = t
       /\ QueueMove(1, Other)
       /\ pc' = [pc EXCEPT ![t] = label]
  \/ \E t \in Tasks :
       /\ QueueMove(0, [kind |-> "crash"])
       /\ pc[t] \notin {"idle", "ready"} /\ pc' = [pc EXCEPT ![t] = "idle"]

\* StartTask queues a first step when there is no worker, and else nothing.
LEMMA StartTaskStartMove ==
  ASSUME ReadyOK, TaskOK, NEW cs, NEW last, NEW canc, NEW rest, NEW taken, Rest(rest, taken),
         StartTask(cs, last, canc, rest)
  PROVE  StartMove
<1>1. CASE Alive(worker)
  <2>1. ready' = rest /\ UNCHANGED pc
    BY <1>1 DEF StartTask
  <2>2. QueueMove(taken, Other)
    BY <2>1, TakenIsMove
  <2>3. Other.kind \notin {"start", "crash"}
    BY DEF Other
  <2>4. QED
    BY <2>1, <2>2, <2>3 DEF StartMove
<1>2. CASE ~Alive(worker)
  <2>1. PICK t \in Tasks : /\ pc' = [pc EXCEPT ![t] = "ready"]
                           /\ ready' = Append(rest, [kind |-> "start", task |-> t])
    BY <1>2 DEF StartTask
  <2>2. QueueMove(taken, [kind |-> "start", task |-> t])
    BY <2>1, AppendIsMove, Callbacks
  <2>3. QED
    BY <1>2, <2>1, <2>2 DEF StartMove
<1>3. QED
  BY <1>1, <1>2

\* A running task ends, or goes on.
LEMMA EndTaskStartMove ==
  ASSUME ReadyOK, TaskOK, NEW t \in Tasks, pc[t] \notin {"idle", "ready"}, EndTask(t, ready)
  PROVE  StartMove
<1>1. QueueMove(0, Other)
  BY EndIsMove DEF Rest
<1>2. \A u \in Tasks : pc'[u] = IF u = t THEN "idle" ELSE pc[u]
  BY DEF EndTask, TaskOK
<1>3. Other.kind \notin {"start", "crash"}
  BY DEF Other
<1>4. QED
  BY <1>1, <1>2, <1>3 DEF StartMove

\* A task that moves between two labels past its first step leaves the starts alone.
LEMMA GoToStartMove ==
  ASSUME ReadyOK, TaskOK, NEW t \in Tasks, NEW label \in Labels \ {"ready"},
         pc[t] \notin {"idle", "ready"}, GoTo(t, label), UNCHANGED ready
  PROVE  StartMove
<1>1. QueueMove(0, Other)
  BY TakenIsMove DEF Rest
<1>2. \A u \in Tasks : pc'[u] = IF u = t THEN label ELSE pc[u]
  BY DEF GoTo, TaskOK
<1>3. Other.kind \notin {"start", "crash"}
  BY DEF Other
<1>4. QED
  BY <1>1, <1>2, <1>3 DEF StartMove

\* The tasks are left alone and something else is queued or nothing.
LEMMA PlainStartMove ==
  ASSUME NEW taken, NEW x, QueueMove(taken, x), x.kind \notin {"start", "crash"}, UNCHANGED pc
  PROVE  StartMove
BY DEF StartMove

\* Every step handles the starts in the queue in one of the ways of StartMove.
LEMMA NextMovesStarts ==
  ASSUME TypeInv, [Next]_vars
  PROVE  StartMove
<1> USE DEF taskVars
<1>0. TaskOK /\ ReadyOK /\ OrderOK
  BY DEF TypeInv, TypeOK
<1>a. Other.kind \notin {"start", "crash"}
  BY DEF Other
<1>1. CASE UNCHANGED <<ready, pc>>
  <2>1. QueueMove(0, Other)
    BY <1>0, <1>1, TakenIsMove DEF Rest
  <2>2. QED
    BY <1>1, <1>a, <2>1, PlainStartMove
<1>2. ASSUME ready # <<>>, ready' = Tail(ready), UNCHANGED pc PROVE StartMove
  <2>1. QueueMove(1, Other)
    BY <1>0, <1>2, TakenIsMove DEF Rest
  <2>2. QED
    BY <1>2, <1>a, <2>1, PlainStartMove
<1>3. ASSUME NEW x \in Message \cup Callback, x.kind \notin {"start", "crash"}, UNCHANGED pc,
             NEW taken, NEW rest, Rest(rest, taken), ready' = Append(rest, x)
      PROVE  StartMove
  <2>1. QueueMove(taken, x)
    BY <1>0, <1>3, AppendIsMove
  <2>2. QED
    BY <1>3, <2>1, PlainStartMove
<1>4. CASE Fleet
  <2>1. ASSUME NEW m \in OrderMessage, ReceiveOrder(m) PROVE StartMove
    <3>1. m.kind = "order" /\ m \in Message /\ ready' = Append(ready, m) /\ UNCHANGED pc
      BY <2>1 DEF ReceiveOrder, OrderMessage, Message
    <3>2. QED
      BY <1>3, <3>1 DEF Rest
  <2>2. CASE ReceiveCancel
    <3> DEFINE c == [kind |-> "cancel", id |-> orderId]
    <3>1. c.kind = "cancel" /\ c \in Message
      BY <1>0 DEF Message, CancelMessage, OrderOK
    <3>2. ready' = Append(ready, c) /\ UNCHANGED pc
      BY <2>2 DEF ReceiveCancel
    <3>3. QED
      BY <1>3, <3>1, <3>2 DEF Rest
  <2>3. ASSUME NEW p, MoveByHand(p) PROVE StartMove
    BY <1>1, <2>3 DEF MoveByHand
  <2>4. QED
    BY <1>4, <2>1, <2>2, <2>3 DEF Fleet
<1>5. CASE HandleOrder
  <2>1. Rest(Tail(ready), 1)
    BY <1>5 DEF HandleOrder, IsNext, Rest
  <2>2. ASSUME NEW m, AcceptOrder(m) PROVE StartMove
    BY <1>0, <2>1, <2>2, StartTaskStartMove DEF AcceptOrder
  <2>3. ASSUME NEW m, UpdateOrder(m) PROVE StartMove
    BY <1>0, <2>1, <2>3, StartTaskStartMove DEF UpdateOrder
  <2>4. QED
    BY <1>2, <1>5, <2>2, <2>3 DEF HandleOrder, IsNext
<1>6. CASE Restart
  <2>1. Rest(Tail(ready), 1)
    BY <1>6 DEF Restart, IsNext, Rest
  <2>2. QED
    BY <1>0, <1>6, <2>1, StartTaskStartMove DEF Restart
<1>7. CASE PostRestart \/ HandleCancel
  <2>1. PICK k \in {"restart", "cancelling"} : ready' = Append(Tail(ready), [kind |-> k])
    BY <1>7 DEF PostRestart, HandleCancel
  <2>2. Rest(Tail(ready), 1) /\ UNCHANGED pc
    BY <1>7 DEF PostRestart, HandleCancel, IsNext, Rest
  <2>3. [kind |-> k] \in Message \cup Callback
    BY Callbacks
  <2>4. QED
    BY <1>3, <2>1, <2>2, <2>3
<1>8. CASE CrashDrop \/ CancelBegin
  BY <1>2, <1>8 DEF CrashDrop, CancelBegin, IsNext
<1>9. CASE EndStray \/ (\E p \in Places : ReportPose(p)) \/ CancelBackgroundEnded \/ CancelEnd
           \/ \E s \in Seqs : EndBackground(s)
  BY <1>1, <1>9 DEF EndStray, ReportPose, CancelBackgroundEnded, CancelEnd, EndBackground
<1>10. ASSUME NEW t \in Tasks, WorkerSync(t) PROVE StartMove
  <2>1. CASE TakeStep(t) \/ DispatchActions(t) \/ ClearStep(t)
    BY <1>0, <2>1, GoToStartMove DEF TakeStep, DispatchActions, ClearStep, Labels
  <2>2. CASE BeginStep(t)
    BY <1>0, <2>2, GoToStartMove, EndTaskStartMove DEF BeginStep, Requeue, Labels
  <2>3. CASE WorkerDone(t)
    BY <1>0, <2>3, EndTaskStartMove DEF WorkerDone
  <2>4. QED
    BY <1>10, <2>1, <2>2, <2>3 DEF WorkerSync
<1>11. ASSUME NEW t \in Tasks, WorkerAwaits(t) \/ WorkerWorks(t) PROVE StartMove
  <2>1. CASE WorkerStart(t)
    <3>1. ready # <<>> /\ Head(ready).kind = "start" /\ Head(ready).task = t
      BY <2>1 DEF WorkerStart, IsNext
    <3>2. QueueMove(1, Other)
      BY <1>0, <2>1, <3>1, TakenIsMove DEF WorkerStart, Rest
    <3>3. pc' = [pc EXCEPT ![t] = "loop"] /\ "loop" \in Labels \ {"ready"}
      BY <2>1 DEF WorkerStart, GoTo, Labels
    <3>4. QED
      BY <3>1, <3>2, <3>3 DEF StartMove
  <2>2. CASE StartCancelled(t)
    <3>1. ready # <<>> /\ Head(ready).kind = "start" /\ Head(ready).task = t
      BY <2>2 DEF StartCancelled, IsNext
    <3>2. QueueMove(1, Other)
      BY <1>0, <2>2, <3>1, EndIsMove DEF StartCancelled, Rest
    <3>3. pc' = [pc EXCEPT ![t] = "idle"] /\ "idle" \in Labels \ {"ready"}
      BY <2>2 DEF StartCancelled, EndTask, Labels
    <3>4. QED
      BY <3>1, <3>2, <3>3 DEF StartMove
  <2>3. CASE Arrive(t) \/ EndAction(t) \/ EndTick(t)
    BY <1>0, <2>3, GoToStartMove DEF Arrive, EndAction, EndTick, Labels
  <2>4. CASE StopVehicle(t)
    BY <1>0, <2>4, GoToStartMove, EndTaskStartMove DEF StopVehicle, Requeue, Labels
  <2>5. CASE DriveFails(t) \/ Cancelled(t)
    BY <1>0, <2>5, EndTaskStartMove DEF DriveFails, Requeue, Cancelled, Alive
  <2>6. QED
    BY <1>11, <2>1, <2>2, <2>3, <2>4, <2>5 DEF WorkerAwaits, WorkerWorks
<1>12. ASSUME NEW t \in Tasks, Crash(t) PROVE StartMove
  <2>1. QueueMove(0, [kind |-> "crash"])
    BY <1>0, <1>12, CrashIsMove DEF Crash
  <2>2. pc[t] \notin {"idle", "ready"} /\ pc' = [pc EXCEPT ![t] = "idle"]
    BY <1>12 DEF Crash, EndTask
  <2>3. QED
    BY <2>1, <2>2 DEF StartMove
<1>13. CASE UNCHANGED vars
  BY <1>1, <1>13 DEF vars
<1>14. QED
  BY <1>4, <1>5, <1>6, <1>7, <1>8, <1>9, <1>10, <1>11, <1>12, <1>13 DEF Next, Loop

\* The ways of StartMove keep the invariant.
LEMMA StartMoveKeeps ==
  ASSUME TypeInv, ReadyOK', WorkerInv, StartInv, StartMove
  PROVE  StartInv'
<1>0. /\ ReadyOK /\ TaskOK
      /\ \A i \in 1..Len(ready) : ready[i].kind = "start" => ready[i].task \in Tasks
  <2>1. \A i \in 1..Len(ready) : ready[i] \in Message \cup Callback
    BY DEF TypeInv, TypeOK, ReadyOK
  <2>2. QED
    BY <2>1 DEF TypeInv, TypeOK, Message, OrderMessage, CancelMessage, Callback
<1> DEFINE Starts == \A i \in 1..Len(ready) : ready[i].kind = "start" => pc[ready[i].task] = "ready"
           Crashes == Has("crash") => \A t \in Tasks : Alive(t) => pc[t] = "ready"
<1>1. ASSUME NEW taken, NEW x, QueueMove(taken, x), x.kind \notin {"start", "crash"},
             \A t \in Tasks : \/ pc'[t] = pc[t]
                              \/ pc[t] \notin {"idle", "ready"} /\ pc'[t] # "ready"
      PROVE  StartInv'
  <2>1. Starts'
    BY <1>0, <1>1 DEF QueueMove, StartInv
  <2>2. Once("start")' /\ Before("crash", "start")'
    BY <1>0, <1>1, MoveOnce, MoveBefore DEF StartInv
  <2>3. Crashes'
    BY <1>0, <1>1, MoveHas DEF StartInv, Alive
  <2>4. QED
    BY <2>1, <2>2, <2>3 DEF StartInv
<1>2. ASSUME NEW taken, NEW t \in Tasks, QueueMove(taken, [kind |-> "start", task |-> t]),
             ~Alive(worker), pc' = [pc EXCEPT ![t] = "ready"]
      PROVE  StartInv'
  <2> DEFINE x == [kind |-> "start", task |-> t]
  <2>1. \A u \in Tasks : ~Alive(u)
    BY <1>2 DEF WorkerInv, SingleWorker
  <2>2. ~Has("start")
    BY <1>0, <2>1 DEF Has, StartInv, Alive
  <2>3. x.kind = "start" /\ x.task = t /\ QueueMove(taken, x)
    BY <1>2
  <2> HIDE DEF x
  <2>4. Starts'
    BY <1>0, <1>2, <2>2, <2>3 DEF QueueMove, Has, TaskOK
  <2>5. Once("start")' /\ Before("crash", "start")'
    BY <1>0, <2>2, <2>3, MoveOnce, MoveBefore DEF StartInv
  <2>6. Crashes'
    BY <1>0, <1>2, <2>1 DEF Alive, TaskOK
  <2>7. QED
    BY <2>4, <2>5, <2>6 DEF StartInv
<1>3. ASSUME NEW t \in Tasks, NEW label \in Labels \ {"ready"}, ready # <<>>,
             Head(ready).kind = "start", Head(ready).task = t, QueueMove(1, Other),
             pc' = [pc EXCEPT ![t] = label]
      PROVE  StartInv'
  <2>1. ~Has("start")' /\ ~Has("crash")
    BY <1>0, <1>3, TakenIsGone, NoneBefore DEF StartInv, Other
  <2>2. ~Has("crash")'
    BY <1>0, <1>3, <2>1, MoveHas DEF Other
  <2>3. QED
    BY <2>1, <2>2 DEF StartInv, Has, Once, Before
<1>4. ASSUME NEW t \in Tasks, QueueMove(0, [kind |-> "crash"]), pc[t] \notin {"idle", "ready"},
             pc' = [pc EXCEPT ![t] = "idle"]
      PROVE  StartInv'
  <2> DEFINE x == [kind |-> "crash"]
  <2>1. \A u \in Tasks : ~Alive(u)' /\ pc[u] # "ready"
    BY <1>0, <1>4 DEF WorkerInv, SingleWorker, Alive, TaskOK
  <2>2. ~Has("start")
    BY <1>0, <2>1 DEF Has, StartInv
  <2>3. x.kind = "crash" /\ QueueMove(0, x)
    BY <1>4
  <2> HIDE DEF x
  <2>4. ~Has("start")'
    BY <1>0, <2>2, <2>3, MoveHas
  <2>5. QED
    BY <2>1, <2>4 DEF StartInv, Has, Once, Before
<1>5. QED
  BY <1>1, <1>2, <1>3, <1>4 DEF StartMove

-----------------------------------------------------------------------------
(* Messages in the ready queue and the cancelOrder coroutine *)

\* A cancelOrder is queued once and while none is in progress; its coroutine is
\* queued once, behind the orders that came before it, and once the coroutine has
\* run no order is queued until it ends.
CancelInv ==
  /\ Once("cancel") /\ Once("cancelling")
  /\ Has("cancel") => cancelPc = "idle"
  /\ Has("cancelling") => cancelPc = "created"
  /\ Before("order", "cancelling")
  /\ cancelPc \in {"background", "stopping"} => ~Has("order")

CancelKinds == {"order", "cancel", "cancelling"}

\* What an action may do to them, when no order is sent during a cancelOrder.
CancelMove ==
  \/ \E taken, x : QueueMove(taken, x) /\ x.kind \notin CancelKinds /\ UNCHANGED cancelPc
  \/ \E x : QueueMove(0, x) /\ x.kind = "order" /\ cancelPc = "idle" /\ UNCHANGED cancelPc
  \/ \E x : /\ QueueMove(0, x) /\ x.kind = "cancel" /\ ~Has("cancel")
            /\ cancelPc = "idle" /\ UNCHANGED cancelPc
  \/ \E x : /\ ready # <<>> /\ Head(ready).kind = "cancel"
            /\ QueueMove(1, x) /\ x.kind = "cancelling" /\ cancelPc' = "created"
  \/ /\ ready # <<>> /\ Head(ready).kind = "cancelling"
     /\ QueueMove(1, Other) /\ cancelPc' \in {"background", "stopping"}
  \/ /\ cancelPc = "background" /\ cancelPc' = "stopping" /\ QueueMove(0, Other)
  \/ /\ cancelPc = "stopping" /\ cancelPc' = "idle" /\ QueueMove(0, Other)

\* The ways of CancelMove keep the invariant.
LEMMA CancelMoveKeeps ==
  ASSUME ReadyOK, ReadyOK', CancelInv, CancelMove
  PROVE  CancelInv'
<1> USE DEF CancelKinds
<1>1. ASSUME NEW taken, NEW x, QueueMove(taken, x), x.kind \notin CancelKinds, UNCHANGED cancelPc
      PROVE  CancelInv'
  <2>1. Once("cancel")' /\ Once("cancelling")' /\ Before("order", "cancelling")'
    BY <1>1, MoveOnce, MoveBefore DEF CancelInv
  <2>2. \A kind \in CancelKinds : Has(kind)' => Has(kind)
    BY <1>1, MoveHas
  <2>3. QED
    BY <1>1, <2>1, <2>2 DEF CancelInv
<1>2. ASSUME NEW x, QueueMove(0, x), x.kind = "order", cancelPc = "idle", UNCHANGED cancelPc
      PROVE  CancelInv'
  <2>1. ~Has("cancelling")
    BY <1>2 DEF CancelInv
  <2>2. Once("cancel")' /\ Once("cancelling")' /\ Before("order", "cancelling")'
    BY <1>2, <2>1, MoveOnce, MoveBefore DEF CancelInv
  <2>3. ~Has("cancelling")'
    BY <1>2, <2>1, MoveHas
  <2>4. QED
    BY <1>2, <2>2, <2>3 DEF CancelInv
<1>3. ASSUME NEW x, QueueMove(0, x), x.kind = "cancel", ~Has("cancel"), cancelPc = "idle",
             UNCHANGED cancelPc
      PROVE  CancelInv'
  <2>1. ~Has("cancelling")
    BY <1>3 DEF CancelInv
  <2>2. Once("cancel")' /\ Once("cancelling")' /\ Before("order", "cancelling")'
    BY <1>3, <2>1, MoveOnce, MoveBefore DEF CancelInv
  <2>3. ~Has("cancelling")'
    BY <1>3, <2>1, MoveHas
  <2>4. QED
    BY <1>3, <2>2, <2>3 DEF CancelInv
<1>4. ASSUME NEW x, ready # <<>>, Head(ready).kind = "cancel", QueueMove(1, x),
             x.kind = "cancelling", cancelPc' = "created"
      PROVE  CancelInv'
  <2>1. Has("cancel")
    BY <1>4 DEF Has, ReadyOK
  <2>2. ~Has("cancelling")
    BY <2>1 DEF CancelInv
  <2>3. Once("cancel")' /\ Once("cancelling")' /\ Before("order", "cancelling")'
    BY <1>4, <2>2, MoveOnce, MoveBefore DEF CancelInv
  <2>4. ~Has("cancel")'
    BY <1>4, TakenIsGone DEF CancelInv
  <2>5. QED
    BY <1>4, <2>3, <2>4 DEF CancelInv
<1>5. ASSUME ready # <<>>, Head(ready).kind = "cancelling", QueueMove(1, Other),
             cancelPc' \in {"background", "stopping"}
      PROVE  CancelInv'
  <2>0. Other.kind \notin CancelKinds
    BY DEF Other
  <2>1. Has("cancelling")
    BY <1>5 DEF Has, ReadyOK
  <2>2. ~Has("cancel") /\ ~Has("order")
    BY <1>5, <2>1, NoneBefore DEF CancelInv
  <2>3. ~Has("cancel")' /\ ~Has("order")'
    BY <1>5, <2>0, <2>2, MoveHas
  <2>4. ~Has("cancelling")'
    BY <1>5, <2>0, TakenIsGone DEF CancelInv
  <2>5. QED
    BY <1>5, <2>3, <2>4 DEF CancelInv, Once, Before, Has
<1>6. ASSUME cancelPc \in {"background", "stopping"}, cancelPc' \in {"stopping", "idle"},
             QueueMove(0, Other)
      PROVE  CancelInv'
  <2>0. Other.kind \notin CancelKinds
    BY DEF Other
  <2>1. ~Has("cancel") /\ ~Has("order") /\ ~Has("cancelling")
    BY <1>6 DEF CancelInv
  <2>2. ~Has("cancel")' /\ ~Has("order")' /\ ~Has("cancelling")'
    BY <1>6, <2>0, <2>1, MoveHas
  <2>3. QED
    BY <2>2 DEF CancelInv, Once, Before, Has
<1>7. QED
  BY <1>1, <1>2, <1>3, <1>4, <1>5, <1>6 DEF CancelMove

\* StartTask and the end of a task queue neither orders nor cancellations.
LEMMA StartTaskQueue ==
  ASSUME ReadyOK, NEW cs, NEW last, NEW canc, NEW rest, NEW taken, Rest(rest, taken),
         StartTask(cs, last, canc, rest)
  PROVE  \E x : QueueMove(taken, x) /\ x.kind \in {"start", "done"}
<1>1. CASE ready' = rest
  <2>1. QueueMove(taken, Other) /\ Other.kind = "done"
    BY <1>1, TakenIsMove DEF Other
  <2>2. QED
    BY <2>1
<1>2. ASSUME NEW t \in Tasks, ready' = Append(rest, [kind |-> "start", task |-> t])
      PROVE  \E x : QueueMove(taken, x) /\ x.kind \in {"start", "done"}
  <2>1. [kind |-> "start", task |-> t] \in Message \cup Callback
    BY Callbacks
  <2>2. QueueMove(taken, [kind |-> "start", task |-> t])
    BY <1>2, <2>1, AppendIsMove
  <2>3. QED
    BY <2>2
<1>3. QED
  BY <1>1, <1>2 DEF StartTask

\* Every step handles the stages of cancelOrder in one of the ways of CancelMove.
LEMMA NextMovesCancels ==
  ASSUME TypeInv, "orderDuringCancel" \notin May, [Next]_vars
  PROVE  CancelMove
<1> USE DEF cancelVars
<1>0. TaskOK /\ ReadyOK /\ OrderOK
  BY DEF TypeInv, TypeOK
<1>a. ASSUME NEW taken, NEW x, QueueMove(taken, x),
             x.kind \in {"start", "crash", "done", "restart"},
             UNCHANGED cancelPc
      PROVE  CancelMove
  BY <1>a DEF CancelMove, CancelKinds
<1>b. /\ Other.kind = "done" /\ [kind |-> "crash"].kind = "crash"
      /\ [kind |-> "restart"].kind = "restart"
  BY DEF Other
<1>1. ASSUME NEW rest, NEW taken, Rest(rest, taken), ready' = rest, UNCHANGED cancelPc
      PROVE  CancelMove
  BY <1>0, <1>1, <1>a, <1>b, TakenIsMove
<1>2. ASSUME NEW t \in Tasks, NEW rest, NEW taken, Rest(rest, taken), EndTask(t, rest),
             UNCHANGED cancelPc
      PROVE  CancelMove
  BY <1>0, <1>2, <1>a, <1>b, EndIsMove
<1>3. ASSUME NEW cs, NEW last, NEW canc, Rest(Tail(ready), 1),
             StartTask(cs, last, canc, Tail(ready)), UNCHANGED cancelPc
      PROVE  CancelMove
  BY <1>0, <1>3, <1>a, StartTaskQueue
<1>4. Rest(ready, 0) /\ (ready # <<>> => Rest(Tail(ready), 1))
  BY DEF Rest
<1>5. CASE Fleet
  <2>1. ASSUME NEW m \in OrderMessage, ReceiveOrder(m) PROVE CancelMove
    <3>1. m.kind = "order" /\ m \in Message /\ ready' = Append(ready, m)
      BY <2>1 DEF ReceiveOrder, OrderMessage, Message
    <3>2. QueueMove(0, m)
      BY <1>0, <1>4, <3>1, AppendIsMove
    <3>3. cancelPc = "idle" /\ UNCHANGED cancelPc
      BY <2>1 DEF ReceiveOrder
    <3>4. QED
      BY <3>1, <3>2, <3>3 DEF CancelMove
  <2>2. CASE ReceiveCancel
    <3> DEFINE c == [kind |-> "cancel", id |-> orderId]
    <3>1. c.kind = "cancel" /\ c \in Message
      BY <1>0 DEF Message, CancelMessage, OrderOK
    <3>2. ready' = Append(ready, c)
      BY <2>2 DEF ReceiveCancel
    <3> HIDE DEF c
    <3>3. QueueMove(0, c)
      BY <1>0, <1>4, <3>1, <3>2, AppendIsMove
    <3>4. cancelPc = "idle" /\ UNCHANGED cancelPc /\ ~Has("cancel")
      BY <2>2 DEF ReceiveCancel, Has
    <3>5. QED
      BY <3>1, <3>3, <3>4 DEF CancelMove
  <2>3. ASSUME NEW p, MoveByHand(p) PROVE CancelMove
    BY <1>1, <1>4, <2>3 DEF MoveByHand
  <2>4. QED
    BY <1>5, <2>1, <2>2, <2>3 DEF Fleet
<1>6. CASE HandleOrder
  <2>1. Rest(Tail(ready), 1) /\ UNCHANGED cancelPc
    BY <1>4, <1>6 DEF HandleOrder, IsNext
  <2>2. ASSUME NEW m, AcceptOrder(m) PROVE CancelMove
    BY <1>3, <2>1, <2>2 DEF AcceptOrder
  <2>3. ASSUME NEW m, UpdateOrder(m) PROVE CancelMove
    BY <1>3, <2>1, <2>3 DEF UpdateOrder
  <2>4. QED
    BY <1>1, <1>6, <2>1, <2>2, <2>3 DEF HandleOrder
<1>7. CASE Restart
  BY <1>3, <1>4, <1>7 DEF Restart, IsNext
<1>8. CASE PostRestart
  <2>1. QueueMove(1, [kind |-> "restart"])
    BY <1>0, <1>4, <1>8, AppendIsMove, Callbacks DEF PostRestart, IsNext
  <2>2. QED
    BY <1>8, <1>a, <1>b, <2>1 DEF PostRestart
<1>9. CASE HandleCancel
  <2> DEFINE x == [kind |-> "cancelling"]
  <2>1. x.kind = "cancelling" /\ x \in Message \cup Callback
    BY Callbacks
  <2>2. ready # <<>> /\ Head(ready).kind = "cancel" /\ ready' = Append(Tail(ready), x)
    BY <1>9 DEF HandleCancel, IsNext
  <2> HIDE DEF x
  <2>3. QueueMove(1, x)
    BY <1>0, <1>4, <2>1, <2>2, AppendIsMove
  <2>4. QED
    BY <1>9, <2>1, <2>2, <2>3 DEF HandleCancel, CancelMove
<1>10. CASE CancelBegin
  <2>1. ready # <<>> /\ Head(ready).kind = "cancelling" /\ ready' = Tail(ready)
    BY <1>10 DEF CancelBegin, IsNext
  <2>2. QueueMove(1, Other)
    BY <1>0, <1>4, <2>1, TakenIsMove
  <2>3. cancelPc' \in {"background", "stopping"}
    BY <1>10 DEF CancelBegin
  <2>4. QED
    BY <2>1, <2>2, <2>3 DEF CancelMove
<1>11. CASE CancelBackgroundEnded \/ CancelEnd
  <2>1. QueueMove(0, Other)
    BY <1>0, <1>4, <1>11, TakenIsMove DEF CancelBackgroundEnded, CancelEnd
  <2>2. QED
    BY <1>11, <2>1 DEF CancelBackgroundEnded, CancelEnd, CancelMove
<1>12. CASE CrashDrop \/ EndStray \/ (\E p \in Places : ReportPose(p))
            \/ \E s \in Seqs : EndBackground(s)
  BY <1>1, <1>4, <1>12 DEF CrashDrop, EndStray, ReportPose, EndBackground, IsNext
<1>13. ASSUME NEW t \in Tasks, WorkerSync(t) PROVE CancelMove
  BY <1>1, <1>2, <1>4, <1>13 DEF WorkerSync, TakeStep, WorkerDone, BeginStep, Requeue,
                                DispatchActions, ClearStep
<1>14. ASSUME NEW t \in Tasks, WorkerAwaits(t) \/ WorkerWorks(t) PROVE CancelMove
  BY <1>1, <1>2, <1>4, <1>14 DEF WorkerAwaits, WorkerWorks, WorkerStart, Arrive, DriveFails,
       Requeue, StopVehicle, EndAction, EndTick, Cancelled, StartCancelled, IsNext
<1>15. ASSUME NEW t \in Tasks, Crash(t) PROVE CancelMove
  BY <1>0, <1>15, <1>a, <1>b, CrashIsMove DEF Crash
<1>16. CASE UNCHANGED vars
  BY <1>1, <1>4, <1>16 DEF vars
<1>17. QED
  BY <1>5, <1>6, <1>7, <1>8, <1>9, <1>10, <1>11, <1>12, <1>13, <1>14, <1>15, <1>16
  DEF Next, Loop

-----------------------------------------------------------------------------
(* Tasks that are being cancelled *)

\* cancel() reaches a task where it awaits: never inside a stretch without await.
SyncInv == \A t \in Tasks : t \in cancelling => Alive(t) /\ pc[t] \notin Sync

\* Every step keeps it: a cancellation is delivered where the task awaits.
LEMMA SyncStep ==
  ASSUME TypeInv, SyncInv, [Next]_vars
  PROVE  SyncInv'
<1> USE DEF SyncInv, Sync, Alive
<1>0. TaskOK
  BY DEF TypeInv, TypeOK
<1>1. CASE UNCHANGED <<pc, cancelling>>
  BY <1>1
<1>2. ASSUME NEW cs, NEW last, NEW canc, NEW rest, LoopFree,
             canc \in {cancelling, cancelling \cup {worker}},
             canc # cancelling => Alive(worker), StartTask(cs, last, canc, rest)
      PROVE  SyncInv'
  <2>1. CASE Alive(worker)
    BY <1>0, <1>2, <2>1 DEF StartTask, LoopFree, TaskOK
  <2>2. CASE ~Alive(worker)
    BY <1>0, <1>2, <2>2 DEF StartTask, TaskOK
  <2>3. QED
    BY <2>1, <2>2
<1>3. ASSUME NEW t \in Tasks, NEW rest, EndTask(t, rest) PROVE SyncInv'
  BY <1>0, <1>3 DEF EndTask, TaskOK
<1>4. ASSUME NEW t \in Tasks, NEW label \in Labels, t \notin cancelling, GoTo(t, label)
      PROVE SyncInv'
  BY <1>0, <1>4 DEF GoTo, TaskOK
<1>5. CASE Fleet
  BY <1>1, <1>5 DEF Fleet, ReceiveOrder, ReceiveCancel, MoveByHand, taskVars
<1>6. CASE HandleOrder
  <2>1. LoopFree
    BY <1>6 DEF HandleOrder
  <2>2. ASSUME NEW m, AcceptOrder(m) PROVE SyncInv'
    BY <1>2, <2>1, <2>2 DEF AcceptOrder
  <2>3. ASSUME NEW m, UpdateOrder(m) PROVE SyncInv'
    BY <1>2, <2>1, <2>3 DEF UpdateOrder
  <2>4. QED
    BY <1>1, <1>6, <2>2, <2>3 DEF HandleOrder, taskVars
<1>7. CASE Restart
  BY <1>2, <1>7 DEF Restart, IsNext
<1>8. CASE CancelBegin
  BY <1>0, <1>8 DEF CancelBegin, IsNext, LoopFree, TaskOK
<1>9. CASE \/ PostRestart \/ CrashDrop \/ EndStray \/ (\E p \in Places : ReportPose(p))
           \/ \E s \in Seqs : EndBackground(s)
           \/ HandleCancel \/ CancelBackgroundEnded \/ CancelEnd
  BY <1>1, <1>9 DEF PostRestart, CrashDrop, EndStray, ReportPose, EndBackground, HandleCancel,
                    CancelBackgroundEnded, CancelEnd, taskVars
<1>10. ASSUME NEW t \in Tasks, WorkerSync(t) PROVE SyncInv'
  <2>1. t \notin cancelling
    BY <1>10 DEF WorkerSync, TakeStep, WorkerDone, BeginStep, DispatchActions, ClearStep
  <2>2. QED
    BY <1>3, <1>4, <1>10, <2>1 DEF WorkerSync, TakeStep, WorkerDone, BeginStep, Requeue,
                                  DispatchActions, ClearStep, Labels
<1>11. ASSUME NEW t \in Tasks, WorkerAwaits(t) \/ WorkerWorks(t) PROVE SyncInv'
  <2>1. CASE WorkerStart(t) \/ Arrive(t) \/ EndAction(t) \/ EndTick(t)
    BY <1>4, <2>1 DEF WorkerStart, Arrive, EndAction, EndTick, Labels
  <2>2. CASE DriveFails(t) \/ Cancelled(t) \/ StartCancelled(t)
    BY <1>3, <2>2 DEF DriveFails, Requeue, Cancelled, StartCancelled
  <2>3. CASE StopVehicle(t)
    BY <1>3, <1>4, <2>3 DEF StopVehicle, Requeue, Labels
  <2>4. QED
    BY <1>11, <2>1, <2>2, <2>3 DEF WorkerAwaits, WorkerWorks
<1>12. ASSUME NEW t \in Tasks, Crash(t) PROVE SyncInv'
  BY <1>3, <1>12 DEF Crash
<1>13. CASE UNCHANGED vars
  BY <1>1, <1>13 DEF vars, taskVars
<1>14. QED
  BY <1>5, <1>6, <1>7, <1>8, <1>9, <1>10, <1>11, <1>12, <1>13 DEF Next, Loop

-----------------------------------------------------------------------------
(* Where nobody is to work on the queue *)

\* A task that works and is not being cancelled, and one that holds a step.
Serving(t) == Alive(t) /\ t \notin cancelling
Holding(t) == pc[t] \notin {"idle", "ready", "loop"}
Quiet == \A t \in Tasks : Serving(t) => ~Holding(t)
NoSteps == queue = {} /\ requeued = <<>>

\* Unless a restart came too late: a failed step leaves no worker; cancelOrder
\* leaves none serving, and once it has cleared the queue none holds a step; and
\* when no order is left there are no steps and none holds one.
HeldInv ==
  ~lateRestart =>
    /\ requeued # <<>> => \A t \in Tasks : ~Alive(t)
    /\ cancelPc = "background" => \A t \in Tasks : ~Serving(t)
    /\ cancelPc = "stopping" => NoSteps /\ Quiet
    /\ orderId = NoOrder => nodes = {} /\ edges = {} /\ NoSteps /\ Quiet

\* The invariant of the tasks, whatever the fleet asks for.
TaskInv == TypeInv /\ WorkerInv /\ SyncInv /\ StartInv /\ CancelInv /\ HeldInv

\* While lateRestart stays FALSE, a restart finds nothing that stops it.
LEMMA NotLate ==
  ASSUME TypeInv, [Next]_vars, ~lateRestart'
  PROVE  ~lateRestart /\ (Restart => ~IsLate)
<1>0. lateRestart \in BOOLEAN
  BY DEF TypeInv, TypeOK
<1>1. CASE Restart
  BY <1>1 DEF Restart
<1>2. ASSUME NEW t \in Tasks, WorkerSync(t) \/ WorkerAwaits(t) \/ WorkerWorks(t) \/ Crash(t)
      PROVE  lateRestart' = lateRestart
  BY <1>2 DEF WorkerSync, WorkerAwaits, WorkerWorks, TakeStep, WorkerDone, BeginStep,
       DispatchActions, ClearStep, WorkerStart, Arrive, DriveFails, StopVehicle, EndAction,
       EndTick, Cancelled, StartCancelled, Crash
<1>3. CASE Fleet \/ (Loop /\ ~Restart) \/ UNCHANGED vars
  <2>1. lateRestart' = lateRestart
    BY <1>3 DEF Fleet, ReceiveOrder, ReceiveCancel, MoveByHand, Loop, HandleOrder, PostRestart,
                CrashDrop, EndStray, ReportPose, EndBackground, HandleCancel, CancelBegin,
                CancelBackgroundEnded, CancelEnd, vars
  <2>2. QED
    BY <1>1, <2>1
<1>4. QED
  BY <1>1, <1>2, <1>3 DEF Next

\* A stretch without await belongs to the worker, and nobody else works.
LEMMA OnlyWorker ==
  ASSUME WorkerInv, SyncInv, NEW t \in Tasks
  PROVE  /\ Alive(t) => t = worker /\ \A u \in Tasks : Alive(u) => u = t
         /\ pc[t] \in Sync => Serving(t)
BY DEF WorkerInv, SingleWorker, SyncInv, Serving, Alive, Sync

\* When a worker has ended, none is left.
LEMMA EndLeavesNone ==
  ASSUME WorkerInv, NEW t \in Tasks, Alive(t), NEW rest, EndTask(t, rest)
  PROVE  \A u \in Tasks : ~Alive(u)'
BY DEF WorkerInv, SingleWorker, Alive, EndTask

\* StartTask makes no task hold a step and none serve again.
LEMMA StartTaskQuiet ==
  ASSUME TaskOK, NEW cs, NEW last, NEW canc, cancelling \subseteq canc, NEW rest,
         StartTask(cs, last, canc, rest)
  PROVE  \A t \in Tasks : /\ Serving(t)' /\ Holding(t)' => Serving(t) /\ Holding(t)
                          /\ Alive(worker) => (Serving(t)' => Serving(t))
BY DEF StartTask, TaskOK, Serving, Holding, Alive

\* Every step keeps it: cancelOrder stops the worker before it awaits.
LEMMA HeldStep ==
  ASSUME TaskInv, TypeInv', "orderDuringCancel" \notin May, [Next]_vars
  PROVE  HeldInv'
<1> SUFFICES ASSUME ~lateRestart'
             PROVE  /\ requeued' # <<>> => \A t \in Tasks : ~Alive(t)'
                    /\ cancelPc' = "background" => \A t \in Tasks : ~Serving(t)'
                    /\ cancelPc' = "stopping" => NoSteps' /\ Quiet'
                    /\ orderId' = NoOrder => nodes' = {} /\ edges' = {} /\ NoSteps' /\ Quiet'
  BY DEF HeldInv
<1> DEFINE Held == /\ requeued # <<>> => \A t \in Tasks : ~Alive(t)
                   /\ cancelPc = "background" => \A t \in Tasks : ~Serving(t)
                   /\ cancelPc = "stopping" => NoSteps /\ Quiet
                   /\ orderId = NoOrder => nodes = {} /\ edges = {} /\ NoSteps /\ Quiet
<1>0. TaskOK /\ ReadyOK /\ OrderOK
  BY DEF TaskInv, TypeInv, TypeOK
<1>a. Held /\ (Restart => ~IsLate)
  BY NotLate DEF TaskInv, HeldInv
<1> USE DEF orderVars, stateVars, queueVars, taskVars, cancelVars
<1>1. CASE UNCHANGED <<requeued, queue, orderId, nodes, edges, cancelPc, pc, cancelling>>
  BY <1>a, <1>1 DEF NoSteps, Quiet, Serving, Holding, Alive
<1>2. CASE Fleet
  BY <1>1, <1>2 DEF Fleet, ReceiveOrder, ReceiveCancel, MoveByHand
<1>3. CASE HandleOrder
  <2>1. cancelPc \notin {"background", "stopping"} /\ UNCHANGED cancelPc
    <3>1. Has("order")
      BY <1>0, <1>3 DEF HandleOrder, IsNext, Has, ReadyOK
    <3>2. QED
      BY <1>3, <3>1 DEF HandleOrder, TaskInv, CancelInv
  <2>2. Head(ready) \in OrderMessage
    BY <1>0, <1>3, HeadOfReady DEF HandleOrder, IsNext
  <2>3. ASSUME AcceptOrder(Head(ready)) PROVE Held'
    <3>1. orderId' # NoOrder /\ requeued' = <<>>
      BY <2>2, <2>3, OrderEngineAssumption DEF AcceptOrder, OrderMessage
    <3>2. QED
      BY <2>1, <3>1
  <2>4. ASSUME IsOrderActive, UpdateOrder(Head(ready)) PROVE Held'
    <3>1. orderId' # NoOrder /\ requeued' = <<>>
      BY <2>4 DEF UpdateOrder, MergeOrder, IsOrderActive
    <3>2. QED
      BY <2>1, <3>1
  <2>5. QED
    BY <1>1, <1>3, <2>1, <2>3, <2>4 DEF HandleOrder
<1>4. CASE Restart
  <2>1. UNCHANGED <<requeued, queue, orderId, nodes, edges, cancelPc>>
    BY <1>4 DEF Restart
  <2>2. StartTask(currentStep, [id |-> lastId, seq |-> lastSeq], cancelling, Tail(ready))
    BY <1>4 DEF Restart
  <2>3. Quiet => Quiet'
    BY <1>0, <2>2, StartTaskQuiet DEF Quiet
  <2>4. requeued # <<>> \/ cancelPc = "background" => Alive(worker)
    BY <1>4, <1>a DEF IsLate
  <2>5. requeued = <<>>
    BY <1>0, <1>a, <2>4 DEF TaskOK
  <2>6. cancelPc = "background" => \A t \in Tasks : ~Serving(t)'
    BY <1>0, <1>a, <2>2, <2>4, StartTaskQuiet
  <2>7. QED
    BY <1>a, <2>1, <2>3, <2>5, <2>6 DEF NoSteps
<1>5. CASE CrashDrop
  <2>1. Has("crash")
    BY <1>0, <1>5 DEF CrashDrop, IsNext, Has, ReadyOK
  <2>2. Quiet
    BY <2>1 DEF TaskInv, StartInv, Quiet, Serving, Holding
  <2>3. NoSteps' /\ nodes' = {} /\ edges' = {} /\ UNCHANGED <<pc, cancelling, cancelPc>>
    BY <1>5 DEF CrashDrop, ClearQueue, ClearOrderState, NoSteps
  <2>4. QED
    BY <1>a, <2>2, <2>3 DEF NoSteps, Quiet, Serving, Holding, Alive
<1>6. CASE CancelBegin
  <2>1. \A t \in Tasks : ~Serving(t)'
    BY <1>6 DEF CancelBegin, Serving, Alive, TaskInv, WorkerInv, SingleWorker
  <2>2. /\ UNCHANGED <<orderId, nodes, edges, pc>>
        /\ NoSteps' \/ (cancelPc' # "stopping" /\ UNCHANGED <<queue, requeued>>)
    BY <1>6 DEF CancelBegin, ClearQueue, NoSteps
  <2>3. QED
    BY <1>a, <2>1, <2>2 DEF Quiet, NoSteps, Alive
<1>7. CASE CancelBackgroundEnded
  BY <1>a, <1>7 DEF CancelBackgroundEnded, ClearQueue, NoSteps, Quiet, Serving, Holding, Alive
<1>8. CASE CancelEnd
  <2>1. /\ NoSteps /\ Quiet /\ cancelPc' = "idle"
        /\ UNCHANGED <<queue, requeued, pc, cancelling>>
    BY <1>a, <1>8 DEF CancelEnd
  <2>2. \/ orderId' # NoOrder
        \/ nodes' = {} /\ edges' = {}
    BY <1>8 DEF CancelEnd, ClearOrderState
  <2>3. QED
    BY <2>1, <2>2 DEF NoSteps, Quiet, Serving, Holding, Alive
<1>9. CASE HandleCancel
  BY <1>a, <1>9 DEF HandleCancel, NoSteps, Quiet, Serving, Holding, Alive
<1>10. CASE PostRestart \/ EndStray \/ (\E p \in Places : ReportPose(p))
            \/ \E s \in Seqs : EndBackground(s)
  BY <1>1, <1>10 DEF PostRestart, EndStray, ReportPose, EndBackground
<1>11. ASSUME NEW t \in Tasks, Serving(t), Holding(t), UNCHANGED <<orderId, cancelPc>>
       PROVE  /\ orderId' # NoOrder /\ cancelPc' \notin {"background", "stopping"}
              /\ requeued = <<>>
  BY <1>a, <1>11 DEF Quiet, Serving
<1>12. ASSUME NEW t \in Tasks, Serving(t), Holding(t), UNCHANGED <<orderId, cancelPc>>,
              UNCHANGED requeued \/ \A u \in Tasks : ~Alive(u)'
       PROVE  Held'
  BY <1>11, <1>12
<1>13. ASSUME NEW t \in Tasks, WorkerSync(t) PROVE Held'
  <2>1. Serving(t) /\ UNCHANGED <<orderId, cancelPc>>
    <3>1. pc[t] \in Sync
      BY <1>13 DEF WorkerSync, TakeStep, WorkerDone, BeginStep, DispatchActions, ClearStep, Sync
    <3>2. QED
      BY <1>13, <3>1, OnlyWorker DEF TaskInv, WorkerSync, TakeStep, WorkerDone, BeginStep,
                                     DispatchActions, ClearStep
  <2>2. CASE TakeStep(t)
    <3>1. pc[t] = "loop" /\ requeued = <<>> /\ queue # {}
      BY <1>a, <2>1, <2>2 DEF TakeStep, Serving
    <3>2. requeued' = <<>>
      BY <2>2, <3>1 DEF TakeStep
    <3>3. cancelPc \notin {"background", "stopping"} /\ orderId # NoOrder
      BY <1>a, <2>1, <3>1 DEF NoSteps
    <3>4. QED
      BY <2>1, <3>2, <3>3
  <2>3. CASE WorkerDone(t)
    <3>1. \A u \in Tasks : ~Alive(u)'
      BY <2>1, <2>3, EndLeavesNone DEF TaskInv, WorkerDone, Serving
    <3>2. UNCHANGED <<queue, requeued, orderId, nodes, edges, cancelPc>>
      BY <2>3 DEF WorkerDone
    <3>3. QED
      BY <1>a, <3>1, <3>2 DEF NoSteps, Quiet, Serving
  <2>4. CASE BeginStep(t)
    <3>1. Holding(t)
      BY <2>4 DEF BeginStep, Holding
    <3>2. UNCHANGED requeued \/ \A u \in Tasks : ~Alive(u)'
      BY <2>1, <2>4, EndLeavesNone DEF TaskInv, BeginStep, Requeue, Serving
    <3>3. QED
      BY <1>12, <2>1, <3>1, <3>2
  <2>5. CASE DispatchActions(t) \/ ClearStep(t)
    BY <1>12, <2>1, <2>5 DEF DispatchActions, ClearStep, Holding
  <2>6. QED
    BY <1>13, <2>2, <2>3, <2>4, <2>5 DEF WorkerSync
<1>14. ASSUME NEW t \in Tasks, WorkerAwaits(t) \/ WorkerWorks(t) \/ Crash(t) PROVE Held'
  <2>1. CASE WorkerStart(t)
    <3>1. /\ UNCHANGED <<requeued, queue, orderId, nodes, edges, cancelPc, cancelling>>
          /\ pc' = [pc EXCEPT ![t] = "loop"] /\ Serving(t)
      BY <2>1 DEF WorkerStart, GoTo, Serving, Alive
    <3>2. \A u \in Tasks : /\ Serving(u)' => Serving(u)
                           /\ Holding(u)' => Holding(u)
                           /\ Alive(u)' => Alive(u)
      BY <1>0, <3>1 DEF Serving, Holding, Alive, TaskOK
    <3>3. QED
      BY <1>a, <3>1, <3>2 DEF NoSteps, Quiet
  <2>2. CASE Arrive(t) \/ EndAction(t) \/ EndTick(t)
    BY <1>12, <2>2 DEF Arrive, EndAction, EndTick, Serving, Holding, Alive
  <2>3. CASE DriveFails(t) \/ StopVehicle(t)
    <3>1. Serving(t) /\ Holding(t) /\ UNCHANGED <<orderId, cancelPc>>
      BY <2>3 DEF DriveFails, StopVehicle, Serving, Holding, Alive
    <3>2. UNCHANGED requeued \/ \A u \in Tasks : ~Alive(u)'
      BY <2>3, <3>1, EndLeavesNone DEF TaskInv, DriveFails, StopVehicle, Requeue, Serving
    <3>3. QED
      BY <1>12, <3>1, <3>2
  <2>4. CASE Cancelled(t) \/ StartCancelled(t) \/ Crash(t)
    <3>1. Alive(t)
      BY <2>4 DEF Cancelled, StartCancelled, Crash, Alive
    <3>2. \A u \in Tasks : ~Alive(u)'
      BY <2>4, <3>1, EndLeavesNone DEF TaskInv, Cancelled, StartCancelled, Crash
    <3>3. UNCHANGED <<queue, requeued, orderId, nodes, edges, cancelPc>>
      BY <2>4 DEF Cancelled, StartCancelled, Crash
    <3>4. QED
      BY <1>a, <3>2, <3>3 DEF NoSteps, Quiet, Serving
  <2>5. QED
    BY <1>14, <2>1, <2>2, <2>3, <2>4 DEF WorkerAwaits, WorkerWorks
<1>15. CASE UNCHANGED vars
  BY <1>1, <1>15 DEF vars
<1>16. QED
  BY <1>2, <1>3, <1>4, <1>5, <1>6, <1>7, <1>8, <1>9, <1>10, <1>13, <1>14, <1>15 DEF Next, Loop

\* The initial states satisfy it: nothing is queued and nobody works.
LEMMA InitTasks == Init => TaskInv
<1> SUFFICES ASSUME Init PROVE TaskInv
  OBVIOUS
<1>1. TypeInv
  BY InitTypes
<1>2. WorkerInv
  BY DEF Init, WorkerInv, SingleWorker, Alive, Labels
<1>3. SyncInv /\ HeldInv
  BY DEF Init, SyncInv, HeldInv, NoSteps, Quiet, Serving, Holding, Alive
<1>4. Len(ready) = 0
  BY DEF Init
<1>5. StartInv /\ CancelInv
  BY <1>4 DEF StartInv, CancelInv, Has, Once, Before
<1>6. QED
  BY <1>1, <1>2, <1>3, <1>5 DEF TaskInv

\* Every step keeps what relates the tasks to the order.
LEMMA TaskStep ==
  ASSUME TaskInv, "orderDuringCancel" \notin May, [Next]_vars
  PROVE  TaskInv'
<1>1. TypeInv'
  BY FleetTypes, OrderTypes, ActionTypes, PlaceTypes, TaskTypes, StepTypes, StepStaysHeld,
     HistoryTypes DEF TypeInv, TypeOK, TaskInv
<1>2. ReadyOK /\ ReadyOK'
  BY <1>1 DEF TypeInv, TypeOK, TaskInv
<1>3. WorkerInv'
  BY NextMovesWorkers, WorkerMoveKeeps DEF TaskInv
<1>4. SyncInv'
  BY SyncStep DEF TaskInv
<1>5. StartInv'
  BY <1>2, NextMovesStarts, StartMoveKeeps DEF TaskInv
<1>6. CancelInv'
  BY <1>2, NextMovesCancels, CancelMoveKeeps DEF TaskInv
<1>7. HeldInv'
  BY <1>1, HeldStep
<1>8. QED
  BY <1>1, <1>3, <1>4, <1>5, <1>6, <1>7 DEF TaskInv

\* Once no order is left no worker drives or acts for it, as long as the fleet
\* sends no order into a running cancelOrder: whatever its orders and updates look
\* like, whatever fails or crashes, and however cancellations come in between.
THEOREM NoOrderStandsStill ==
  ASSUME "orderDuringCancel" \notin May
  PROVE  Spec => []NoOrderNoMotion
<1>1. TaskInv /\ [Next]_vars => TaskInv'
  BY TaskStep
<1>2. TaskInv => NoOrderNoMotion
  BY DEF TaskInv, HeldInv, NoOrderNoMotion, Quiet, Serving, Holding, Alive
<1>3. QED
  BY InitTasks, <1>1, <1>2, PTL DEF Spec


-----------------------------------------------------------------------------
(* An order on its way: where the worker, the queue and the robot are *)

\* The rest holds for a fleet that keeps to the rules, a robot nobody moves while an
\* order is on its way to it, and a capture mode other than "proximity", which overwrites
\* the last node of an active order.  The seed of an empty lastNodeId may be on: a robot
\* that reports none is not sent an order.
Disciplined == May \subseteq {"slowCleanup"} /\ Capture # "proximity"

\* A node the order is done with: reached, or at or behind the point of departure.
Done(s) == s \in visited \/ s <= baseline
DoneInv == \A s \in demanded : s \in nodes \/ Done(s)

NodeSteps == {q \in queue : q.seq \in NodeSeqs}
Drives == {q \in NodeSteps : ~q.only}
Driving(t) == pc[t] = "drive" \/ (pc[t] = "begin" /\ ~step[t].only)
OnTheWay(t) == Serving(t) /\ Holding(t) /\ Driving(t) /\ step[t].seq \in NodeSeqs

\* Each item is queued once.  An order with steps in its queue or in the hands of its
\* worker is not finished: a node at or ahead of them is still to do; and one strictly
\* ahead of the step in hand, if an update has queued that step or one behind it again.
AheadInv ==
  /\ \A p, q \in queue : p.seq = q.seq => p = q
  /\ \A q \in queue : \E n \in nodes : q.seq <= n
  /\ \A t \in Tasks : Serving(t) /\ Holding(t) =>
       /\ \E n \in nodes : step[t].seq <= n
       /\ \A q \in queue : q.seq <= step[t].seq => \E n \in nodes : step[t].seq < n

\* The nodes asked for have no gap and are released from the front; what was
\* reached lies behind the last node, what is still to do does not, and every node
\* is one or the other.
RouteInv ==
  /\ \A x, z \in demanded : \A y \in NodeSeqs : x < y /\ y < z => y \in demanded
  /\ nodes \subseteq demanded
  /\ \A s \in visited : s <= lastSeq
  /\ baseline <= lastSeq
  /\ \A s \in nodes : lastSeq <= s
  /\ \A r, s \in demanded : r < s /\ s \in released => r \in released
  /\ DoneInv
  /\ \A e \in edges : e + 1 \in demanded

\* The last node is one the order is done with.
LastInv == lastSeq \in demanded /\ Route[orderId][lastSeq] = lastId /\ Done(lastSeq)

\* The queue holds nodes of the order, to drive to or, if done with, to act at.
QueueInv ==
  /\ \A q \in queue : q.of = orderId
  /\ \A q \in NodeSteps : q.seq \in demanded
  /\ \A q \in Drives : lastSeq <= q.seq
  /\ \A q \in NodeSteps \ Drives : Done(q.seq)

\* A worker on its way to a node has no other node before it; past it, the order is
\* done with the node.
HolderInv ==
  \A t \in Tasks : Serving(t) /\ Holding(t) =>
    /\ step[t].of = orderId
    /\ step[t].seq \in NodeSeqs =>
         /\ step[t].seq \in demanded
         /\ Driving(t) => /\ lastSeq <= step[t].seq
                          /\ \A r \in nodes : step[t].seq <= r
                          /\ \A q \in Drives : step[t].seq <= q.seq
         /\ ~Driving(t) => Done(step[t].seq)

\* The order has been left with nobody at work: a step failed, a crash is to be
\* handled, or cancelOrder waits for background actions.
Abandoned ==
  /\ \A t \in Tasks : ~Serving(t)
  /\ requeued # <<>> \/ Has("crash") \/ cancelPc = "background"

\* No node is left out between what is done and what is queued: unless the order
\* was abandoned, it is queued itself or in the hands of the worker.
OrderlyInv ==
  \A r \in nodes : \A q \in Drives : r < q.seq =>
    \/ \E p \in queue : p.seq = r
    \/ \E t \in Tasks : Serving(t) /\ Holding(t) /\ step[t].seq = r
    \/ Abandoned

\* With no node left ahead of it the robot stands at its last node, to stay there.
StandInv ==
  \/ \E n \in nodes : lastSeq < n
  \/ pos = lastId /\ Drives = {} /\ \A t \in Tasks : ~OnTheWay(t)

\* A queued order continues the one in progress, or starts where the robot stands.
Fits(m) ==
  /\ m.id = orderId => m.first \in demanded \cap released /\ \A s \in demanded : s < m.last
  /\ m.id # orderId => IsOrderFinished
  /\ IsOrderFinished => pos = lastId /\ \E s \in NodesOf(m) : Route[m.id][s] = lastId
MessageInv == \A i \in 1..Len(ready) : ready[i].kind = "order" => Fits(ready[i])

\* The invariant of an order, while it is active and at any time, and all of it.
Tracked == RouteInv /\ LastInv /\ QueueInv /\ HolderInv /\ OrderlyInv /\ StandInv
TrackInv ==
  ~lateRestart =>
    /\ MessageInv /\ AheadInv /\ DoneInv
    /\ IsOrderActive => Tracked
OrderInv == TaskInv /\ Once("order") /\ Before("order", "crash") /\ TrackInv

-----------------------------------------------------------------------------
(* Steps that leave the order, its queue and the last node alone *)

frameVars == <<orderId, nodes, edges, released, demanded, visited, baseline, lastId, lastSeq>>

\* What the tasks may do then: holders of steps stay where they are, but for
\* ending, and if the worker ends the order is abandoned; and the robot leaves its
\* place for a node only.
Lets ==
  /\ \A t \in Tasks : Serving(t)' /\ Holding(t)' =>
       /\ Serving(t) /\ Holding(t) /\ step'[t] = step[t]
       /\ step[t].seq \in NodeSeqs => (Driving(t)' <=> Driving(t))
  /\ \/ \A t \in Tasks : Serving(t) /\ Holding(t) =>
          Serving(t)' /\ Holding(t)' /\ step'[t] = step[t]
     \/ Abandoned'
  /\ Abandoned => Abandoned'
  /\ UNCHANGED pos \/ \E t \in Tasks : OnTheWay(t)

\* A step that leaves the order, the position and the tasks alone keeps its numbers.
LEMMA FrameKeeps ==
  ASSUME UNCHANGED frameVars, UNCHANGED queue, Lets, Tracked
  PROVE  Tracked'
<1> USE DEF Tracked
<1>1. RouteInv' /\ LastInv'
  BY DEF frameVars, RouteInv, DoneInv, LastInv, Done
<1>2. NodeSteps' = NodeSteps /\ Drives' = Drives
  BY DEF NodeSteps, Drives
<1>3. QueueInv'
  BY <1>2 DEF frameVars, QueueInv, Done
<1>4. HolderInv'
  BY <1>2 DEF frameVars, HolderInv, Lets, Done
<1>5. OrderlyInv'
  <2> SUFFICES ASSUME NEW r \in nodes, NEW q \in Drives, r < q.seq
               PROVE  \/ \E p \in queue : p.seq = r
                      \/ \E t \in Tasks : Serving(t)' /\ Holding(t)' /\ step'[t].seq = r
                      \/ Abandoned'
    BY <1>2 DEF frameVars, OrderlyInv
  <2>1. CASE \E t \in Tasks : Serving(t) /\ Holding(t) /\ step[t].seq = r
    BY <2>1 DEF Lets
  <2>2. CASE (\E p \in queue : p.seq = r) \/ Abandoned
    BY <2>2 DEF Lets
  <2>3. QED
    BY <2>1, <2>2 DEF OrderlyInv
<1>6. StandInv'
  <2>1. CASE \E n \in nodes : lastSeq < n
    BY <2>1 DEF StandInv, frameVars
  <2>2. CASE pos = lastId /\ Drives = {} /\ \A t \in Tasks : ~OnTheWay(t)
    <3>1. \A t \in Tasks : ~OnTheWay(t)'
      BY <2>2 DEF OnTheWay, Lets
    <3>2. UNCHANGED pos
      BY <2>2 DEF Lets
    <3>3. QED
      BY <1>2, <2>2, <3>1, <3>2 DEF StandInv, frameVars
  <2>3. QED
    BY <2>1, <2>2 DEF StandInv
<1>7. QED
  BY <1>1, <1>3, <1>4, <1>5, <1>6

\* The order is abandoned as long as nobody serves and what left it stands.
LEMMA StaysAbandoned ==
  ASSUME ReadyOK, NEW taken, NEW x, QueueMove(taken, x),
         taken = 1 => Head(ready).kind # "crash",
         \A t \in Tasks : Serving(t)' => Serving(t),
         requeued # <<>> => requeued' # <<>>,
         cancelPc = "background" => cancelPc' = "background",
         Abandoned
  PROVE  Abandoned'
<1>1. Has("crash") => Has("crash")'
  BY MoveStays
<1>2. QED
  BY <1>1 DEF Abandoned


\* The tasks are left alone, and what left the order abandoned still stands.
LEMMA StandLets ==
  ASSUME ReadyOK, NEW taken, NEW x, QueueMove(taken, x),
         taken = 1 => Head(ready).kind # "crash",
         UNCHANGED <<pc, step, cancelling, requeued, pos>>,
         cancelPc = "background" => cancelPc' = "background"
  PROVE  Lets
<1>1. \A t \in Tasks : (Serving(t)' <=> Serving(t)) /\ (Holding(t)' <=> Holding(t))
                       /\ (Driving(t)' <=> Driving(t))
  BY DEF Serving, Holding, Driving, Alive
<1>2. Abandoned => Abandoned'
  BY <1>1, StaysAbandoned
<1>3. QED
  BY <1>1, <1>2 DEF Lets

\* The worker goes on with its step.
LEMMA GoLets ==
  ASSUME TaskOK, WorkerInv, NEW t \in Tasks, Serving(t),
         NEW label \in Labels \ {"idle", "ready", "loop"},
         Holding(t), GoTo(t, label), UNCHANGED step,
         step[t].seq \in NodeSeqs =>
           (Driving(t) <=> label = "drive" \/ (label = "begin" /\ ~step[t].only)),
         UNCHANGED pos \/ OnTheWay(t)
  PROVE  Lets
<1>1. /\ pc' = [pc EXCEPT ![t] = label] /\ UNCHANGED <<step, cancelling>>
  BY DEF GoTo
<1>2. /\ pc'[t] = label /\ Serving(t)' /\ Holding(t)'
      /\ step[t].seq \in NodeSeqs => (Driving(t)' <=> Driving(t))
  BY <1>1 DEF TaskOK, Serving, Holding, Alive, Driving
<1>3. \A u \in Tasks : u # t => ~Serving(u) /\ ~Serving(u)'
  BY <1>1 DEF WorkerInv, SingleWorker, Serving, Alive
<1>4. ~Abandoned
  BY DEF Abandoned
<1>5. QED
  BY <1>1, <1>2, <1>3, <1>4 DEF Lets

\* The worker ends: if it held a step, or the order was abandoned, it is so now.
LEMMA EndLets ==
  ASSUME TaskOK, WorkerInv, NEW t \in Tasks, Alive(t), NEW rest, EndTask(t, rest),
         Serving(t) /\ Holding(t) => Abandoned', Abandoned => Abandoned', UNCHANGED pos
  PROVE  Lets
<1>1. \A u \in Tasks : ~Serving(u)'
  BY EndLeavesNone DEF Serving
<1>2. \A u \in Tasks : Serving(u) => u = t
  BY DEF WorkerInv, SingleWorker, Serving, Alive
<1>3. QED
  BY <1>1, <1>2 DEF Lets

\* The step of a worker that ends goes back: the order is abandoned.
LEMMA RequeueLets ==
  ASSUME TaskOK, WorkerInv, StepOK, NEW t \in Tasks, Serving(t), Requeue(t), UNCHANGED pos
  PROVE  Lets
<1>1. EndTask(t, ready) /\ requeued' # <<>> /\ Alive(t)
  BY DEF Requeue, Serving, StepOK
<1>2. Abandoned'
  BY <1>1, EndLeavesNone DEF Abandoned, Serving
<1>3. QED
  BY <1>1, <1>2, EndLets

\* A restart that is not late finds a worker to leave alone, or makes one that
\* holds no step of a queue that was not abandoned.
LEMMA RestartLets ==
  ASSUME TaskInv, Restart, ~IsLate
  PROVE  Lets
<1>0. TaskOK /\ ReadyOK
  BY DEF TaskInv, TypeInv, TypeOK
<1>1. StartTask(currentStep, [id |-> lastId, seq |-> lastSeq], cancelling, Tail(ready))
  BY DEF Restart
<1>2. ready # <<>> /\ Head(ready).kind = "restart" /\ UNCHANGED <<requeued, cancelPc, pos>>
  BY DEF Restart, IsNext, queueVars, cancelVars, placeVars
<1>3. CASE Alive(worker)
  <2>1. UNCHANGED <<pc, step, cancelling>> /\ ready' = Tail(ready)
    BY <1>1, <1>3 DEF StartTask, IsLate
  <2>2. QueueMove(1, Other)
    BY <1>0, <1>2, <2>1, TakenIsMove DEF Rest
  <2>3. QED
    BY <1>0, <1>2, <2>1, <2>2, StandLets
<1>4. CASE ~Alive(worker)
  <2>1. ~Abandoned
    BY <1>4 DEF IsLate, Abandoned, Has
  <2>2. \A t \in Tasks : ~Serving(t)
    BY <1>4 DEF TaskInv, WorkerInv, SingleWorker, Serving
  <2>3. \A t \in Tasks : ~(Serving(t)' /\ Holding(t)')
    BY <1>0, <1>1, <2>2, StartTaskQuiet
  <2>4. QED
    BY <1>2, <2>1, <2>2, <2>3 DEF Lets
<1>5. QED
  BY <1>3, <1>4

\* What the fleet and the callbacks of the loop do without touching the order.
LEMMA LoopLets ==
  ASSUME TaskInv, ~lateRestart', [Next]_vars,
         \/ \E m \in OrderMessage : ReceiveOrder(m)
         \/ ReceiveCancel \/ PostRestart \/ Restart \/ EndStray
         \/ \E s \in Seqs : EndBackground(s)
         \/ HandleCancel \/ UNCHANGED vars
  PROVE  UNCHANGED <<frameVars, queue>> /\ Lets
<1>0. TaskOK /\ ReadyOK /\ OrderOK
  BY DEF TaskInv, TypeInv, TypeOK
<1> USE DEF orderVars, stateVars, placeVars, queueVars, taskVars, cancelVars, frameVars
<1>1. CASE EndStray \/ (\E s \in Seqs : EndBackground(s)) \/ UNCHANGED vars
  <2>1. UNCHANGED <<frameVars, queue, ready, pc, step, cancelling, requeued, cancelPc, pos>>
    BY <1>1 DEF EndStray, EndBackground, vars
  <2>2. QueueMove(0, Other)
    BY <1>0, <2>1, TakenIsMove DEF Rest
  <2>3. QED
    BY <1>0, <2>1, <2>2, StandLets
<1>2. CASE \E m \in OrderMessage : ReceiveOrder(m)
  <2>1. PICK m \in OrderMessage : ReceiveOrder(m)
    BY <1>2
  <2>2. QueueMove(0, m)
    BY <1>0, <2>1, AppendIsMove DEF ReceiveOrder, Rest, Message
  <2>3. UNCHANGED <<frameVars, queue, pc, step, cancelling, requeued, cancelPc, pos>>
    BY <2>1 DEF ReceiveOrder
  <2>4. QED
    BY <1>0, <2>2, <2>3, StandLets
<1>3. CASE ReceiveCancel
  <2>1. [kind |-> "cancel", id |-> orderId] \in Message
    BY <1>0 DEF Message, CancelMessage, OrderOK
  <2>2. QueueMove(0, [kind |-> "cancel", id |-> orderId])
    BY <1>0, <1>3, <2>1, AppendIsMove DEF ReceiveCancel, Rest
  <2>3. UNCHANGED <<frameVars, queue, pc, step, cancelling, requeued, cancelPc, pos>>
    BY <1>3 DEF ReceiveCancel
  <2>4. QED
    BY <1>0, <2>2, <2>3, StandLets
<1>4. CASE PostRestart
  <2>1. QueueMove(1, [kind |-> "restart"])
    BY <1>0, <1>4, AppendIsMove, Callbacks DEF PostRestart, IsNext, Rest
  <2>2. /\ Head(ready).kind = "done"
        /\ UNCHANGED <<frameVars, queue, pc, step, cancelling, requeued, cancelPc, pos>>
    BY <1>4 DEF PostRestart, IsNext
  <2>3. QED
    BY <1>0, <2>1, <2>2, StandLets
<1>5. CASE HandleCancel
  <2>1. QueueMove(1, [kind |-> "cancelling"])
    BY <1>0, <1>5, AppendIsMove, Callbacks DEF HandleCancel, IsNext, Rest
  <2>2. Has("cancel") /\ Head(ready).kind = "cancel"
    BY <1>0, <1>5 DEF HandleCancel, IsNext, Has, ReadyOK
  <2>3. cancelPc # "background"
    BY <2>2 DEF TaskInv, CancelInv
  <2>4. UNCHANGED <<frameVars, queue, pc, step, cancelling, requeued, pos>>
    BY <1>5 DEF HandleCancel
  <2>5. QED
    BY <1>0, <2>1, <2>2, <2>3, <2>4, StandLets
<1>6. CASE Restart
  <2>1. UNCHANGED <<frameVars, queue>>
    BY <1>6 DEF Restart
  <2>2. ~IsLate
    BY <1>6, NotLate DEF TaskInv
  <2>3. QED
    BY <1>6, <2>1, <2>2, RestartLets
<1>7. QED
  BY <1>1, <1>2, <1>3, <1>4, <1>5, <1>6

\* The last node of an active order is no vacant place.
LEMMA LastIsPlace ==
  ASSUME TypeInv, IsOrderActive, LastInv
  PROVE  lastId \in Places /\ lastId # NoPlace
<1>1. orderId \in Orders /\ lastSeq \in NodeSeqs
  BY DEF TypeInv, TypeOK, OrderOK, IsOrderActive, LastInv
<1>2. QED
  BY <1>1, OrderEngineAssumption DEF LastInv

\* A pose report does not move the last node of an active order, whose last node is
\* known, nor the place of an idle robot that stands there.
LEMMA ReportKeeps ==
  ASSUME Capture # "proximity", lastId # NoPlace, NEW p \in Places, ReportPose(p)
  PROVE  /\ IsOrderActive => UNCHANGED <<lastId, lastSeq>>
         /\ pos = lastId => UNCHANGED lastId
<1> DEFINE last == [id |-> lastId, seq |-> lastSeq]
<1>1. PICK near \in [id : {p}, seq : SeqOfPlace(p)] :
        \E r \in Released(last) : \E d \in Seeded(r, near) : \E c \in Captured(d, near) :
          lastId' = c.id /\ lastSeq' = c.seq
  BY DEF ReportPose
<1>2. CASE IsOrderActive \/ pos = lastId
  <2>1. Released(last) = {last}
    BY <1>2 DEF Released
  <2>2. Seeded(last, near) = {last}
    BY DEF Seeded
  <2>3. PICK c \in Captured(last, near) : lastId' = c.id /\ lastSeq' = c.seq
    BY <1>1, <2>1, <2>2
  <2>4. IsOrderActive => c = last
    BY <2>3, OrderEngineAssumption DEF Captured
  <2>5. pos = lastId => c.id = lastId
    BY <2>3, OrderEngineAssumption DEF Captured
  <2>6. QED
    BY <2>3, <2>4, <2>5
<1>3. QED
  BY <1>2

\* What a pose report leaves alone while an order is active.
LEMMA ReportLets ==
  ASSUME TaskInv, IsOrderActive, LastInv, Capture # "proximity",
         NEW p \in Places, ReportPose(p)
  PROVE  UNCHANGED <<frameVars, queue>> /\ Lets
<1>0. ReadyOK /\ TypeInv
  BY DEF TaskInv, TypeInv, TypeOK
<1>1. UNCHANGED <<lastId, lastSeq>>
  BY <1>0, LastIsPlace, ReportKeeps
<1>2. UNCHANGED <<frameVars, queue, ready, pc, step, cancelling, requeued, cancelPc, pos>>
  BY <1>1 DEF ReportPose, orderVars, stateVars, queueVars, taskVars, cancelVars, frameVars
<1>3. QueueMove(0, Other)
  BY <1>0, <1>2, TakenIsMove DEF Rest
<1>4. QED
  BY <1>0, <1>2, <1>3, StandLets

\* What the worker does without touching it: all but taking and clearing a step and
\* reaching a node.
LEMMA WorkerLets ==
  ASSUME TaskInv, NEW t \in Tasks,
         \/ WorkerDone(t) \/ BeginStep(t) \/ DispatchActions(t) \/ WorkerStart(t)
         \/ DriveFails(t) \/ StopVehicle(t) \/ EndAction(t) \/ EndTick(t)
         \/ Cancelled(t) \/ StartCancelled(t) \/ Crash(t)
  PROVE  UNCHANGED <<frameVars, queue>> /\ Lets
<1>0. TaskOK /\ ReadyOK /\ StepOK /\ StepHeld /\ WorkerInv /\ SyncInv
  BY DEF TaskInv, TypeInv, TypeOK
<1>a. UNCHANGED <<frameVars, queue>>
  BY DEF WorkerDone, BeginStep, DispatchActions, WorkerStart, DriveFails, StopVehicle, EndAction,
         EndTick, Cancelled, StartCancelled, Crash, Requeue, orderVars, stateVars, placeVars,
         queueVars, frameVars
<1> SUFFICES Lets
  BY <1>a
<1> USE DEF queueVars, cancelVars, taskVars
<1>1. CASE WorkerStart(t)
  <2>1. /\ ready # <<>> /\ Head(ready).kind = "start" /\ pc[t] = "ready" /\ t \notin cancelling
        /\ ready' = Tail(ready) /\ pc' = [pc EXCEPT ![t] = "loop"]
        /\ UNCHANGED <<step, cancelling, requeued, cancelPc, pos>>
    BY <1>1 DEF WorkerStart, IsNext, GoTo, placeVars
  <2>2. Serving(t) /\ \A u \in Tasks : u # t => ~Serving(u) /\ ~Serving(u)'
    BY <1>0, <2>1 DEF WorkerInv, SingleWorker, Serving, Alive, TaskOK
  <2>3. ~Holding(t) /\ ~Holding(t)'
    BY <1>0, <2>1 DEF Holding, TaskOK
  <2>4. ~Abandoned
    BY <2>2 DEF Abandoned
  <2>5. QED
    BY <2>1, <2>2, <2>3, <2>4 DEF Lets
<1>2. CASE WorkerDone(t)
  <2>1. Alive(t) /\ Serving(t) /\ ~Holding(t) /\ EndTask(t, ready)
    BY <1>0, <1>2, OnlyWorker DEF WorkerDone, Alive, Holding, Sync
  <2>2. ~Abandoned
    BY <2>1 DEF Abandoned
  <2>3. UNCHANGED pos
    BY <1>2 DEF WorkerDone, placeVars
  <2>4. QED
    BY <1>0, <2>1, <2>2, <2>3, EndLets
<1>3. CASE BeginStep(t)
  <2>1. pc[t] = "begin" /\ Serving(t) /\ Holding(t)
    BY <1>0, <1>3, OnlyWorker DEF BeginStep, Holding, Sync
  <2>2. step[t] \in Step
    BY <1>0, <2>1 DEF StepHeld
  <2>a. pos' = IF pc'[t] = "drive" THEN NoPlace ELSE pos
    BY <1>3 DEF BeginStep
  <2>b. ASSUME NEW label \in Labels \ {"drive"}, pc' = [pc EXCEPT ![t] = label] PROVE UNCHANGED pos
    BY <1>0, <2>a, <2>b DEF TaskOK
  <2>3. CASE Requeue(t)
    <3>1. UNCHANGED pos
      BY <2>3, <2>b DEF Requeue, EndTask, Labels
    <3>2. QED
      BY <1>0, <2>1, <2>3, <3>1, RequeueLets
  <2>4. CASE (step[t].only \/ step[t].seq \in EdgeSeqs) /\ GoTo(t, "actions") /\ UNCHANGED step
    <3>1. step[t].seq \in EdgeSeqs => step[t].seq \notin NodeSeqs
      BY DEF EdgeSeqs
    <3>2. ~(step[t].seq \in NodeSeqs /\ Driving(t))
      BY <2>1, <2>4, <3>1 DEF Driving
    <3>3. UNCHANGED pos
      BY <2>4, <2>b DEF GoTo, Labels
    <3>4. QED
      BY <1>0, <2>1, <2>4, <3>2, <3>3, GoLets DEF Labels
  <2>5. CASE ~(step[t].only \/ step[t].seq \in EdgeSeqs) /\ GoTo(t, "drive") /\ UNCHANGED step
    <3>1. Driving(t) /\ OnTheWay(t)
      BY <2>1, <2>2, <2>5 DEF Driving, OnTheWay, Step, EdgeSeqs
    <3>2. QED
      BY <1>0, <2>1, <2>5, <3>1, GoLets DEF Labels
  <2>6. QED
    BY <1>3, <2>3, <2>4, <2>5 DEF BeginStep
<1>4. CASE DispatchActions(t)
  <2>1. pc[t] = "actions" /\ Serving(t) /\ Holding(t)
    BY <1>0, <1>4, OnlyWorker DEF DispatchActions, Holding, Sync
  <2>2. UNCHANGED step /\ \E label \in {"clear", "stop", "tick"} : GoTo(t, label)
    BY <1>4 DEF DispatchActions
  <2>3. UNCHANGED pos
    BY <1>4 DEF DispatchActions, placeVars
  <2>4. QED
    BY <1>0, <2>1, <2>2, <2>3, GoLets DEF Labels, Driving
<1>5. CASE DriveFails(t) \/ StopVehicle(t)
  <2>1. pc[t] \in {"drive", "stop"} /\ Serving(t) /\ Holding(t)
    BY <1>5 DEF DriveFails, StopVehicle, Serving, Holding, Alive
  <2>a. UNCHANGED pos
    BY <1>5 DEF DriveFails, StopVehicle, placeVars
  <2>2. CASE Requeue(t)
    BY <1>0, <2>1, <2>2, <2>a, RequeueLets
  <2>3. CASE pc[t] = "stop" /\ GoTo(t, "act") /\ UNCHANGED step
    BY <1>0, <2>1, <2>3, <2>a, GoLets DEF Labels, Driving
  <2>4. QED
    BY <1>5, <2>2, <2>3 DEF DriveFails, StopVehicle
<1>6. CASE EndAction(t) \/ EndTick(t)
  <2>1. pc[t] \in {"act", "tick"} /\ Serving(t) /\ Holding(t)
    BY <1>6 DEF EndAction, EndTick, Serving, Holding, Alive
  <2>2. UNCHANGED step /\ \E label \in {"clear", "tick"} : GoTo(t, label)
    BY <1>6 DEF EndAction, EndTick
  <2>3. UNCHANGED pos
    BY <1>6 DEF EndAction, EndTick, placeVars
  <2>4. QED
    BY <1>0, <2>1, <2>2, <2>3, GoLets DEF Labels, Driving
<1>7. CASE Cancelled(t) \/ StartCancelled(t)
  <2>1. /\ Alive(t) /\ t \in cancelling
        /\ UNCHANGED <<requeued, cancelPc, pos>>
    BY <1>7 DEF Cancelled, StartCancelled, Alive, placeVars
  <2> DEFINE Ends(rest, taken) == /\ EndTask(t, rest) /\ Rest(rest, taken)
                                  /\ taken = 1 => Head(ready).kind # "crash"
  <2>a. Ends(ready, 0) \/ Ends(Tail(ready), 1)
    BY <1>7 DEF Cancelled, StartCancelled, IsNext, Rest
  <2>2. PICK rest, taken : Ends(rest, taken)
    <3> HIDE DEF Ends
    <3>1. QED
      BY <2>a
  <2>3. QueueMove(taken, Other)
    BY <1>0, <2>2, EndIsMove
  <2>4. \A u \in Tasks : ~Serving(u)'
    BY <1>0, <2>1, <2>2, EndLeavesNone DEF Serving
  <2>5. Abandoned => Abandoned'
    BY <1>0, <2>1, <2>2, <2>3, <2>4, StaysAbandoned
  <2>6. QED
    BY <1>0, <2>1, <2>2, <2>5, EndLets DEF Serving
<1>8. CASE Crash(t)
  <2>1. Alive(t) /\ EndTask(t, Append(ready, [kind |-> "crash"])) /\ UNCHANGED pos
    BY <1>8 DEF Crash, Alive, placeVars
  <2>2. Has("crash")'
    <3>1. Append(ready, [kind |-> "crash"]) \in Seq(Message \cup Callback)
      BY <1>0, Callbacks DEF ReadyOK
    <3>2. /\ Len(ready) + 1 \in 1..Len(Append(ready, [kind |-> "crash"]))
          /\ Append(ready, [kind |-> "crash"])[Len(ready) + 1].kind = "crash"
      BY <1>0 DEF ReadyOK
    <3>3. Len(ready) + 1 \in 1..Len(ready') /\ ready'[Len(ready) + 1].kind = "crash"
      BY <1>0, <2>1, <3>1, <3>2, DonesBehind
    <3>4. QED
      BY <3>3 DEF Has
  <2>3. Abandoned'
    BY <1>0, <2>1, <2>2, EndLeavesNone DEF Abandoned, Serving
  <2>4. QED
    BY <1>0, <2>1, <2>3, EndLets
<1>9. QED
  BY <1>1, <1>2, <1>3, <1>4, <1>5, <1>6, <1>7, <1>8

-----------------------------------------------------------------------------
(* Steps that take the order further *)

\* Sequence ids are numbers; an edge leads to the next node.
LEMMA SeqNumbers ==
  /\ Seqs \subseteq Nat /\ NodeSeqs \subseteq Nat /\ EdgeSeqs \subseteq Nat
  /\ \A e \in EdgeSeqs, s \in NodeSeqs : e < s => e + 1 \in NodeSeqs /\ e + 1 <= s
  /\ \A e \in EdgeSeqs : e \notin NodeSeqs
BY OrderEngineAssumption DEF Seqs, NodeSeqs, EdgeSeqs

\* What the order is done with lies at or behind the last node.
LEMMA DoneBehind ==
  ASSUME TypeInv, RouteInv, NEW s \in NodeSeqs, Done(s)
  PROVE  s <= lastSeq
<1>1. s \in Nat /\ lastSeq \in Nat /\ baseline \in Int
  BY SeqNumbers DEF TypeInv, TypeOK, OrderOK, PlaceOK, None
<1>2. QED
  BY <1>1 DEF RouteInv, Done

\* The worker takes the first step of the queue.
LEMMA TakeTracks ==
  ASSUME TaskInv, ~lateRestart, AheadInv, Tracked,
         NEW t \in Tasks, TakeStep(t)
  PROVE  Tracked'
<1> USE DEF Tracked
<1>0. /\ TaskOK /\ StepOK /\ OrderOK /\ PlaceOK
      /\ Serving(t) /\ ~Holding(t) /\ \A u \in Tasks : u # t => ~Serving(u)
  <2>1. pc[t] = "loop"
    BY DEF TakeStep
  <2>2. Serving(t)
    BY <2>1, OnlyWorker DEF TaskInv, Sync
  <2>3. QED
    BY <2>1, <2>2 DEF TaskInv, TypeInv, TypeOK, WorkerInv, SingleWorker, Serving, Holding
<1>1. requeued = <<>>
  BY <1>0 DEF TaskInv, HeldInv, Serving
<1>2. PICK st \in queue : /\ \A other \in queue : st.seq <= other.seq
                          /\ queue' = queue \ {st}
                          /\ step' = [step EXCEPT ![t] = st]
  BY <1>1 DEF TakeStep
<1>3. /\ pc' = [pc EXCEPT ![t] = "begin"] /\ UNCHANGED cancelling
      /\ UNCHANGED frameVars
  BY DEF TakeStep, GoTo, frameVars, orderVars, stateVars, placeVars
<1>4. /\ pc'[t] = "begin" /\ step'[t] = st /\ st \in Step
      /\ \A u \in Tasks : Serving(u)' => u = t
      /\ Serving(t)' /\ Holding(t)'
  BY <1>0, <1>2, <1>3 DEF TaskOK, StepOK, Serving, Holding, Alive
<1>5. RouteInv' /\ LastInv'
  BY <1>3 DEF frameVars, RouteInv, DoneInv, LastInv, Done
<1>6. /\ NodeSteps' = NodeSteps \ {st} /\ Drives' = Drives \ {st}
  BY <1>2 DEF NodeSteps, Drives
<1>7. QueueInv'
  BY <1>2, <1>3, <1>6 DEF QueueInv, frameVars, Done
<1>8. ~Abandoned
  BY <1>0 DEF Abandoned
<1>9. HolderInv'
  <2>1. Driving(t)' <=> ~st.only
    BY <1>4 DEF Driving
  <2>2. st.of = orderId
    BY DEF QueueInv
  <2>3. ASSUME st.seq \in NodeSeqs, ~st.only
        PROVE  /\ st.seq \in demanded /\ lastSeq <= st.seq
               /\ \A r \in nodes : st.seq <= r
               /\ \A q \in Drives : st.seq <= q.seq
    <3>1. st \in Drives /\ st \in NodeSteps
      BY <2>3 DEF Drives, NodeSteps
    <3>2. ASSUME NEW r \in nodes, r < st.seq PROVE FALSE
      <4>1. ~\E p \in queue : p.seq = r
        <5> SUFFICES ASSUME NEW p \in queue, p.seq = r PROVE FALSE
          OBVIOUS
        <5>1. st.seq <= p.seq
          BY <1>2
        <5>2. st.seq \in Nat /\ r \in Nat
          BY <1>0, <1>4, SeqNumbers DEF Step, OrderOK
        <5>3. QED
          BY <3>2, <5>1, <5>2
      <4>2. ~\E u \in Tasks : Serving(u) /\ Holding(u) /\ step[u].seq = r
        BY <1>0
      <4>3. QED
        BY <1>8, <3>1, <3>2, <4>1, <4>2 DEF OrderlyInv
    <3>3. \A r \in nodes : st.seq <= r
      <4> SUFFICES ASSUME NEW r \in nodes PROVE st.seq <= r
        OBVIOUS
      <4>1. st.seq \in Nat /\ r \in Nat
        BY <1>0, <1>4, SeqNumbers DEF Step, OrderOK
      <4>2. QED
        BY <3>2, <4>1
    <3>4. QED
      BY <1>2, <3>1, <3>3 DEF QueueInv, Drives, NodeSteps
  <2>4. ASSUME st.seq \in NodeSeqs, st.only
        PROVE  st.seq \in demanded /\ Done(st.seq)
    BY <2>4 DEF QueueInv, NodeSteps, Drives
  <2>5. QED
    BY <1>3, <1>4, <1>6, <2>1, <2>2, <2>3, <2>4 DEF HolderInv, frameVars, Done
<1>10. OrderlyInv'
  <2> SUFFICES ASSUME NEW r \in nodes, NEW q \in Drives, r < q.seq
               PROVE  \/ \E p \in queue' : p.seq = r
                      \/ \E u \in Tasks : Serving(u)' /\ Holding(u)' /\ step'[u].seq = r
    BY <1>3, <1>6 DEF OrderlyInv, frameVars
  <2>1. \E p \in queue : p.seq = r
    BY <1>0, <1>8 DEF OrderlyInv
  <2>2. QED
    BY <1>2, <1>4, <2>1
<1>11. StandInv'
  <2>1. UNCHANGED pos
    BY DEF TakeStep, placeVars
  <2>2. CASE \E n \in nodes : lastSeq < n
    BY <1>3, <2>2 DEF StandInv, frameVars
  <2>3. CASE pos = lastId /\ Drives = {}
    <3>1. ~(st.seq \in NodeSeqs /\ ~st.only)
      BY <2>3 DEF Drives, NodeSteps
    <3>2. \A u \in Tasks : ~OnTheWay(u)'
      BY <1>4, <3>1 DEF OnTheWay, Driving
    <3>3. QED
      BY <1>3, <1>6, <2>1, <2>3, <3>2 DEF StandInv, frameVars
  <2>4. QED
    BY <2>2, <2>3 DEF StandInv
<1>12. QED
  BY <1>5, <1>7, <1>9, <1>10, <1>11

\* The robot reaches the node of the step: it becomes the last node.
LEMMA ArriveTracks ==
  ASSUME TaskInv, ~lateRestart, AheadInv, Tracked,
         NEW t \in Tasks, Arrive(t)
  PROVE  Tracked' /\ \A e \in edges \ edges' : Done(e + 1)'
<1> USE DEF Tracked
<1> DEFINE s == step[t].seq
<1>0. /\ TaskOK /\ StepOK /\ OrderOK /\ PlaceOK
      /\ pc[t] = "drive" /\ Serving(t) /\ Holding(t) /\ Driving(t)
      /\ \A u \in Tasks : u # t => ~Serving(u)
  <2>1. pc[t] = "drive" /\ t \notin cancelling
    BY DEF Arrive
  <2>2. QED
    BY <2>1 DEF TaskInv, TypeInv, TypeOK, WorkerInv, SingleWorker, Serving, Holding, Driving, Alive
<1>1. s \in NodeSeqs /\ s \in Nat
  BY <1>0, SeqNumbers DEF TaskInv, TypeInv, StepHeld
<1>2. /\ step[t].of = orderId /\ s \in demanded /\ lastSeq <= s
      /\ \A r \in nodes : s <= r
      /\ \A q \in Drives : s <= q.seq
  BY <1>0, <1>1 DEF HolderInv
<1>3. /\ lastId' = Route[orderId][s] /\ pos' = lastId' /\ lastSeq' = s
      /\ visited' = visited \cup {s}
      /\ edges' = {e \in edges : e >= s}
      /\ UNCHANGED <<orderId, nodes, released, demanded, baseline, queue, step, cancelling>>
      /\ pc' = [pc EXCEPT ![t] = "actions"]
  BY <1>2 DEF Arrive, GoTo, orderVars, queueVars
<1> HIDE DEF s
<1>4. /\ \A u \in Tasks : Serving(u)' => u = t
      /\ Serving(t)' /\ Holding(t)' /\ ~Driving(t)'
  BY <1>0, <1>3 DEF TaskOK, Serving, Holding, Driving, Alive
<1>5. \A r : Done(r) => Done(r)'
  BY <1>3 DEF Done
<1>6. s \in visited'
  BY <1>1, <1>3
<1>7. NodeSteps' = NodeSteps /\ Drives' = Drives
  BY <1>3 DEF NodeSteps, Drives
<1>8. RouteInv'
  <2>1. \A v \in visited' : v <= s
    BY <1>0, <1>1, <1>2, <1>3, SeqNumbers DEF RouteInv, OrderOK, PlaceOK
  <2>2. baseline <= s
    BY <1>0, <1>1, <1>2, SeqNumbers DEF RouteInv, OrderOK, PlaceOK, None
  <2>3. QED
    BY <1>2, <1>3, <1>5, <2>1, <2>2 DEF RouteInv, DoneInv
<1>9. LastInv'
  BY <1>2, <1>3, <1>6 DEF LastInv, Done
<1>10. QueueInv'
  BY <1>2, <1>3, <1>5, <1>7 DEF QueueInv
<1>11. HolderInv'
  BY <1>2, <1>3, <1>4, <1>6 DEF HolderInv, Done, s
<1>12. OrderlyInv'
  <2> SUFFICES ASSUME NEW r \in nodes, NEW q \in Drives, r < q.seq
               PROVE  \/ \E p \in queue : p.seq = r
                      \/ \E u \in Tasks : Serving(u)' /\ Holding(u)' /\ step[u].seq = r
    BY <1>3, <1>7 DEF OrderlyInv
  <2>1. ~Abandoned
    BY <1>0 DEF Abandoned
  <2>2. QED
    BY <1>0, <1>4, <2>1 DEF OrderlyInv
<1>13. ASSUME NEW e \in edges, e \notin edges' PROVE Done(e + 1)'
  <2>1. e \in EdgeSeqs /\ e < s
    BY <1>0, <1>1, <1>3, <1>13, SeqNumbers DEF OrderOK
  <2>2. e + 1 <= s /\ e + 1 \in Nat /\ e + 1 \in demanded
    BY <1>1, <1>13, <2>1, SeqNumbers DEF RouteInv
  <2>3. CASE e + 1 = s
    BY <1>6, <2>3 DEF Done
  <2>4. CASE e + 1 \in nodes
    BY <1>1, <1>2, <2>2, <2>3, <2>4
  <2>5. QED
    BY <1>5, <2>2, <2>4 DEF RouteInv, DoneInv
<1>14. StandInv'
  <2> SUFFICES ASSUME ~\E n \in nodes : s < n PROVE Drives = {}
    BY <1>3, <1>4, <1>7 DEF StandInv, OnTheWay
  <2> SUFFICES ASSUME NEW q \in queue PROVE FALSE
    BY DEF Drives, NodeSteps
  <2>1. PICK n \in nodes : q.seq <= n
    BY DEF AheadInv
  <2>2. q.seq \in Nat /\ n \in Nat
    BY <1>0, SeqNumbers DEF StepOK, Step, OrderOK
  <2>3. q.seq <= s
    BY <1>1, <2>1, <2>2
  <2>4. QED
    BY <1>0, <2>3 DEF AheadInv, s
<1>15. QED
  BY <1>8, <1>9, <1>10, <1>11, <1>12, <1>13, <1>14

\* The step is cleared: the order is done with its node.
LEMMA ClearTracks ==
  ASSUME TaskInv, ~lateRestart, AheadInv, Tracked,
         NEW t \in Tasks, ClearStep(t)
  PROVE  Tracked'
<1> USE DEF Tracked
<1> DEFINE s == step[t].seq
<1>0. /\ TaskOK /\ StepOK /\ OrderOK /\ PlaceOK
      /\ pc[t] = "clear" /\ Serving(t) /\ Holding(t) /\ ~Driving(t)
      /\ \A u \in Tasks : u # t => ~Serving(u)
      /\ TypeInv
  <2>1. pc[t] = "clear"
    BY DEF ClearStep
  <2>2. Serving(t)
    BY <2>1, OnlyWorker DEF TaskInv, Sync
  <2>3. QED
    BY <2>1, <2>2 DEF TaskInv, TypeInv, TypeOK, WorkerInv, SingleWorker, Serving, Holding, Driving
<1>1. s \in NodeSeqs => Done(s)
  BY <1>0 DEF HolderInv
<1>2. /\ nodes' = nodes \ {s}
      /\ UNCHANGED <<orderId, edges, released, demanded, visited, baseline, lastId, lastSeq,
                     pos, queue, cancelling>>
      /\ pc' = [pc EXCEPT ![t] = "loop"]
  BY DEF ClearStep, GoTo, orderVars, queueVars, placeVars
<1> HIDE DEF s
<1>3. \A u \in Tasks : ~(Serving(u)' /\ Holding(u)')
  BY <1>0, <1>2 DEF TaskOK, Serving, Holding, Alive
<1>4. \A r : Done(r)' <=> Done(r)
  BY <1>2 DEF Done
<1>5. NodeSteps' = NodeSteps /\ Drives' = Drives
  BY <1>2 DEF NodeSteps, Drives
<1>6. RouteInv'
  <2>1. \A r \in demanded : r \in nodes' \/ Done(r)
    <3>1. \A r \in demanded : r \in NodeSeqs
      BY <1>0 DEF OrderOK
    <3>2. QED
      BY <1>1, <1>2, <3>1 DEF RouteInv, DoneInv
  <2>2. QED
    BY <1>2, <1>4, <2>1 DEF RouteInv, DoneInv
<1>7. LastInv' /\ QueueInv'
  BY <1>2, <1>4, <1>5 DEF LastInv, QueueInv
<1>8. HolderInv'
  BY <1>3 DEF HolderInv
<1>9. OrderlyInv'
  <2> SUFFICES ASSUME NEW r \in nodes', NEW q \in Drives, r < q.seq
               PROVE  \E p \in queue : p.seq = r
    BY <1>2, <1>5 DEF OrderlyInv
  <2>1. ~Abandoned
    BY <1>0 DEF Abandoned
  <2>2. r \in nodes /\ r # s
    BY <1>2
  <2>3. QED
    BY <1>0, <2>1, <2>2 DEF OrderlyInv, s
<1>10. StandInv'
  <2>1. \A u \in Tasks : ~OnTheWay(u)'
    BY <1>3 DEF OnTheWay
  <2>2. ASSUME NEW n \in nodes, lastSeq < n PROVE n # s
    <3>1. s \in NodeSeqs => s <= lastSeq
      BY <1>0, <1>1, SeqNumbers, DoneBehind
    <3>2. n \in NodeSeqs /\ n \in Nat /\ lastSeq \in Nat
      BY <1>0, SeqNumbers DEF OrderOK, PlaceOK
    <3>3. QED
      BY <2>2, <3>1, <3>2
  <2>3. QED
    BY <1>2, <1>5, <2>1, <2>2 DEF StandInv
<1>11. QED
  BY <1>6, <1>7, <1>8, <1>9, <1>10

\* cancelOrder takes the worker away: it leaves the order abandoned, or no steps.
LEMMA CancelTracks ==
  ASSUME TaskInv, ~lateRestart, orderId # NoOrder, orderId' # NoOrder, Tracked,
         CancelBegin \/ CancelBackgroundEnded \/ CancelEnd
  PROVE  Tracked'
<1>0. TaskOK /\ ReadyOK /\ WorkerInv
  BY DEF TaskInv, TypeInv, TypeOK
<1> USE DEF orderVars, stateVars, placeVars, queueVars, taskVars, cancelVars, frameVars
<1>1. CASE CancelEnd
  <2>1. /\ UNCHANGED <<frameVars, queue, ready, pc, step, cancelling, requeued, pos>>
        /\ cancelPc # "background"
    BY <1>1 DEF CancelEnd, ClearOrderState
  <2>2. QueueMove(0, Other)
    BY <1>0, <2>1, TakenIsMove DEF Rest
  <2>3. Lets
    BY <1>0, <2>1, <2>2, StandLets
  <2>4. QED
    BY <2>1, <2>3, FrameKeeps
<1>2. CASE CancelBegin \/ CancelBackgroundEnded
  <2>1. UNCHANGED <<frameVars, pos>>
    BY <1>2 DEF CancelBegin, CancelBackgroundEnded
  <2>2. \A t \in Tasks : ~Serving(t)'
    <3>1. CASE CancelBegin
      BY <3>1 DEF CancelBegin, Serving, Alive, TaskInv, WorkerInv, SingleWorker
    <3>2. CASE CancelBackgroundEnded
      BY <3>2 DEF CancelBackgroundEnded, TaskInv, HeldInv, Serving, Alive
    <3>3. QED
      BY <1>2, <3>1, <3>2
  <2>3. CASE queue' = {}
    <3>1. NodeSteps' = {} /\ Drives' = {}
      BY <2>3 DEF NodeSteps, Drives
    <3>2. RouteInv' /\ LastInv'
      BY <2>1 DEF Tracked, RouteInv, DoneInv, LastInv, Done
    <3>3. StandInv'
      BY <2>1, <2>2, <3>1 DEF Tracked, StandInv, OnTheWay
    <3>4. QED
      BY <2>2, <2>3, <3>1, <3>2, <3>3 DEF Tracked, QueueInv, HolderInv, OrderlyInv
  <2>4. CASE UNCHANGED queue /\ cancelPc' = "background"
    <3>1. Lets
      BY <2>1, <2>2, <2>4 DEF Lets, Abandoned
    <3>2. QED
      BY <2>1, <2>4, <3>1, FrameKeeps
  <2>5. QED
    BY <1>2, <2>3, <2>4 DEF CancelBegin, CancelBackgroundEnded, ClearQueue
<1>3. QED
  BY <1>1, <1>2

-----------------------------------------------------------------------------
(* Orders and updates as they are handled *)

\* Pruning keeps items, and drops those behind the last node if that is among them.
LEMMA PruneShape ==
  ASSUME NEW ns \in SUBSET NodeSeqs, NEW o, NEW last, last.seq \in Seqs, NEW disp, NEW st,
         NEW pruned, pruned = PruneNodes(ns, o, last, disp, st)
  PROVE  /\ pruned \subseteq ns
         /\ LastNodeIn(ns, o, last) => \A s \in pruned : last.seq <= s
         /\ LastNodeIn(pruned, o, last) =>
              LastNodeIn(ns, o, last) /\ IsPending(last.seq, disp, st)
         /\ \A s \in ns \ pruned : LastNodeIn(ns, o, last) /\ s <= last.seq
<1>1. pruned \subseteq ns
  BY DEF PruneNodes
<1>2. CASE LastNodeIn(ns, o, last)
  <2>1. pruned = {s \in ns : s > last.seq \/ (s = last.seq /\ IsPending(s, disp, st))}
    BY <1>2 DEF PruneNodes
  <2>2. last.seq \in Nat /\ \A s \in ns : s \in Nat
    BY SeqNumbers
  <2>3. \A s \in pruned : last.seq <= s
    BY <2>1, <2>2
  <2>4. \A s \in ns \ pruned : s <= last.seq
    BY <2>1, <2>2
  <2>5. last.seq \in pruned => IsPending(last.seq, disp, st)
    BY <2>1, <2>2
  <2>6. QED
    BY <1>1, <1>2, <2>3, <2>4, <2>5 DEF LastNodeIn
<1>3. CASE ~LastNodeIn(ns, o, last)
  BY <1>1, <1>3 DEF PruneNodes
<1>4. QED
  BY <1>2, <1>3

\* A rebuild queues nodes still to do: to drive to, or the last node to act at.
LEMMA StepsShape ==
  ASSUME NEW ns \in SUBSET NodeSeqs, NEW es \in SUBSET EdgeSeqs, NEW rel, NEW o, NEW last,
         NEW disp, NEW st, NEW q \in StepsFor(ns, es, rel, o, last, disp, st)
  PROVE  /\ q.of = o
         /\ q.seq \in NodeSeqs => q.seq \in ns
         /\ q.only => q.seq = last.seq /\ LastNodeIn(ns, o, last)
         /\ ~q.only /\ last.seq \in ns => ~LastNodeIn(ns, o, last) \/ ~(q.seq <= last.seq)
<1>1. q.of = o /\ q.seq \in ns \cup es
  BY DEF StepsFor
<1>2. q.only => q.seq = last.seq /\ LastNodeIn(ns, o, last)
  BY DEF StepsFor
<1>3. ~q.only => ~LastNodeIn(ns, o, last) \/ ~(q.seq <= last.seq)
  BY DEF StepsFor
<1>4. QED
  BY <1>1, <1>2, <1>3, SeqNumbers

\* It leaves out no node before one to drive to, if nothing lies behind the last
\* node but that node itself with its action pending.
LEMMA StepsOrderly ==
  ASSUME NEW ns \in SUBSET NodeSeqs, NEW es \in SUBSET EdgeSeqs, NEW rel, NEW o, NEW last,
         last.seq \in Seqs, NEW disp, NEW st,
         LastNodeIn(ns, o, last) =>
           IsPending(last.seq, disp, st) /\ \A s \in ns : last.seq <= s,
         \A r, s \in ns : r < s /\ s \in rel => r \in rel,
         NEW q \in StepsFor(ns, es, rel, o, last, disp, st), ~q.only, q.seq \in NodeSeqs,
         NEW r \in ns, r < q.seq
  PROVE  \E p \in StepsFor(ns, es, rel, o, last, disp, st) : p.seq = r
<1> DEFINE behind == {s \in ns \cup es : LastNodeIn(ns, o, last) /\ s <= last.seq}
           rest == (ns \cup es) \ behind
           owed == {s \in behind \cap ns \cap rel : s = last.seq /\ IsPending(s, disp, st)}
           ahead == {s \in rest : \A x \in rest : x <= s => x \in rel}
<1>1. StepsFor(ns, es, rel, o, last, disp, st) =
        [of : {o}, seq : owed, only : {TRUE}] \cup [of : {o}, seq : ahead, only : {FALSE}]
  BY DEF StepsFor
<1>2. q.seq \in ahead /\ q.seq \in ns
  BY <1>1, StepsShape
<1>3. /\ r \in Nat /\ q.seq \in Nat /\ last.seq \in Nat
      /\ \A s \in ns \cup es : s \in Nat
  BY <1>2, SeqNumbers
<1>4. CASE r \in rest
  <2>1. ASSUME NEW x \in rest, x <= r PROVE x \in rel
    <3>1. x <= q.seq
      BY <1>3, <2>1
    <3>2. QED
      BY <1>2, <2>1, <3>1
  <2>2. r \in ahead
    BY <1>4, <2>1
  <2>3. [of |-> o, seq |-> r, only |-> FALSE] \in StepsFor(ns, es, rel, o, last, disp, st)
    BY <1>1, <2>2
  <2>4. QED
    BY <2>3
<1>5. CASE r \in behind
  <2>1. LastNodeIn(ns, o, last) /\ r <= last.seq
    BY <1>5
  <2>2. r = last.seq /\ IsPending(r, disp, st)
    BY <1>3, <2>1
  <2>3. q.seq \in rel
    <3>1. q.seq <= q.seq
      BY <1>3
    <3>2. QED
      BY <1>2, <3>1
  <2>4. r \in rel
    BY <1>2, <2>3
  <2>5. r \in owed
    BY <1>5, <2>2, <2>4
  <2>6. [of |-> o, seq |-> r, only |-> TRUE] \in StepsFor(ns, es, rel, o, last, disp, st)
    BY <1>1, <2>5
  <2>7. QED
    BY <2>6
<1>6. QED
  BY <1>4, <1>5

\* A new order that fits is taken up at the node of it where the robot stands.
LEMMA BootstrapFits ==
  ASSUME NEW m \in OrderMessage, IsOrderFinished, Fits(m), NEW last \in Bootstrapped(m)
  PROVE  LastNodeIn(NodesOf(m), m.id, last) /\ last.id = pos
<1> DEFINE here == {s \in NodesOf(m) : Route[m.id][s] = lastId}
<1>1. pos = lastId /\ here # {}
  BY DEF Fits
<1>2. last.id = lastId /\ last.seq \in here
  BY <1>1 DEF Bootstrapped, Remapped
<1>3. QED
  BY <1>1, <1>2 DEF LastNodeIn

\* A new order takes the step away from the worker there is.
LEMMA AcceptHoldsNone ==
  ASSUME TaskInv, NEW m \in OrderMessage, AcceptOrder(m)
  PROVE  \A t \in Tasks : ~(Serving(t)' /\ Holding(t)')
<1>0. TaskOK /\ WorkerInv
  BY DEF TaskInv, TypeInv, TypeOK
<1>1. PICK last : StartTask(NoStep, last,
                            IF Alive(worker) THEN cancelling \cup {worker} ELSE cancelling,
                            Tail(ready))
  BY DEF AcceptOrder
<1>2. CASE Alive(worker)
  <2>1. UNCHANGED pc /\ cancelling' = cancelling \cup {worker}
    BY <1>1, <1>2 DEF StartTask, IsObsolete
  <2>2. QED
    BY <1>0, <2>1 DEF WorkerInv, SingleWorker, Serving, Alive
<1>3. CASE ~Alive(worker)
  <2>1. \A t \in Tasks : ~Serving(t)
    BY <1>0, <1>3 DEF WorkerInv, SingleWorker, Serving
  <2>2. QED
    BY <1>0, <1>1, <1>3, <2>1, StartTaskQuiet
<1>4. QED
  BY <1>2, <1>3

\* A new order is taken up where the robot is: the old worker, if there is one, is
\* cancelled, and the queue holds what lies ahead.
LEMMA AcceptTracks ==
  ASSUME TaskInv, NEW m \in OrderMessage, IsOrderFinished, Fits(m), AcceptOrder(m), UNCHANGED pos
  PROVE  Tracked'
<1>0. TaskOK /\ ReadyOK /\ PlaceOK /\ WorkerInv
  BY DEF TaskInv, TypeInv, TypeOK
<1> DEFINE N == NodesOf(m)
           st == [s \in Seqs |-> IF s \in ItemsOf(m) /\ Blocking[s] # "none"
                                 THEN "WAITING" ELSE "none"]
           Takes(last) ==
             /\ last \in Bootstrapped(m)
             /\ orderId' = m.id /\ released' = ReleasedOf(m)
             /\ nodes' = PruneNodes(N, m.id, last, {}, st)
             /\ edges' = PruneEdges(N, EdgesOf(m), m.id, last)
             /\ lastId' = last.id /\ lastSeq' = last.seq
             /\ queue' = StepsFor(nodes', edges', released', m.id, last, {}, st)
             /\ visited' = {} /\ demanded' = N
             /\ baseline' = IF LastNodeIn(N, m.id, last) THEN last.seq ELSE None
<1>1. PICK last : Takes(last)
  BY DEF AcceptOrder
<1> HIDE DEF st
<1>2. /\ last.seq \in Seqs /\ last.seq \in Nat
      /\ LastNodeIn(N, m.id, last) /\ last.id = pos
  BY <1>0, <1>1, BootstrapTypes, BootstrapFits, SeqNumbers
<1>3. /\ N \in SUBSET NodeSeqs /\ \A s \in N : s \in Nat /\ m.first <= s /\ s <= m.last
      /\ m.first \in NodeSeqs /\ m.last \in NodeSeqs /\ m.first \in Nat /\ m.last \in Nat
      /\ \A s \in NodeSeqs : s \in Nat /\ (m.first <= s /\ s <= m.last => s \in N)
  BY SeqNumbers DEF NodesOf, OrderMessage
<1>4. /\ nodes' \subseteq N
      /\ \A s \in nodes' : last.seq <= s
      /\ LastNodeIn(nodes', m.id, last) => IsPending(last.seq, {}, st)
      /\ \A s \in N \ nodes' : s <= last.seq
  BY <1>1, <1>2, <1>3, PruneShape
<1>5. edges' \subseteq EdgesOf(m) /\ EdgesOf(m) \subseteq EdgeSeqs
  BY <1>1 DEF PruneEdges, EdgesOf
<1> HIDE DEF N
<1>6. baseline' = last.seq
  BY <1>1, <1>2
<1>7. RouteInv'
  <2>1. \A x, z \in N : \A y \in NodeSeqs : x < y /\ y < z => y \in N
    <3> SUFFICES ASSUME NEW x \in N, NEW z \in N, NEW y \in NodeSeqs, x < y, y < z
                 PROVE  m.first <= y /\ y <= m.last
      BY <1>3
    <3>1. x \in Nat /\ y \in Nat /\ z \in Nat /\ m.first <= x /\ z <= m.last
      BY <1>3
    <3>2. QED
      BY <1>3, <3>1
  <2>2. baseline' <= last.seq
    BY <1>2, <1>6
  <2>3. \A r, s \in N : r < s /\ s \in released' => r \in released'
    <3> SUFFICES ASSUME NEW r \in N, NEW s \in N, r < s, s <= m.base
                 PROVE  r \in ReleasedOf(m)
      BY <1>1 DEF ReleasedOf
    <3>1. r \in Nat /\ s \in Nat /\ m.base \in Nat
      BY <1>3, SeqNumbers DEF OrderMessage
    <3>2. r <= m.base
      BY <3>1
    <3>3. QED
      BY <3>2 DEF ReleasedOf, ItemsOf, N
  <2>4. DoneInv'
    BY <1>1, <1>4, <1>6 DEF DoneInv, Done
  <2>5. \A e \in edges' : e + 1 \in N
    <3> SUFFICES ASSUME NEW e \in EdgesOf(m) PROVE e + 1 \in N
      BY <1>5
    <3>1. e \in EdgeSeqs /\ e \in Nat /\ m.first < e /\ e < m.last
      BY <1>5, SeqNumbers DEF EdgesOf
    <3>2. e + 1 \in NodeSeqs /\ e + 1 <= m.last
      BY <1>3, <3>1, SeqNumbers
    <3>3. m.first <= e + 1
      BY <1>3, <3>1
    <3>4. QED
      BY <1>3, <3>2, <3>3
  <2>6. QED
    BY <1>1, <1>4, <2>1, <2>2, <2>3, <2>4, <2>5 DEF RouteInv
<1>8. LastInv'
  BY <1>1, <1>2, <1>6 DEF LastInv, LastNodeIn, Done
<1>9. nodes' \in SUBSET NodeSeqs /\ edges' \in SUBSET EdgeSeqs
  BY <1>3, <1>4, <1>5
<1>10. ASSUME NEW q \in queue'
       PROVE  /\ q.of = m.id /\ (q.seq \in NodeSeqs => q.seq \in nodes')
              /\ q.only => q.seq = last.seq
              /\ ~q.only /\ last.seq \in nodes' => ~(q.seq <= last.seq)
  BY <1>1, <1>2, <1>9, <1>10, StepsShape DEF LastNodeIn
<1>11. QueueInv'
  <2>1. \A q \in queue' : q.only => q.seq <= baseline'
    BY <1>2, <1>6, <1>10
  <2>2. QED
    BY <1>1, <1>4, <1>10, <2>1 DEF QueueInv, NodeSteps, Drives, Done
<1>12. HolderInv'
  BY AcceptHoldsNone DEF HolderInv
<1>13. OrderlyInv'
  <2>1. \A r, s \in nodes' : r < s /\ s \in released' => r \in released'
    BY <1>1, <1>4, <1>7 DEF RouteInv
  <2>2. ASSUME NEW r \in nodes', NEW q \in queue', q.seq \in NodeSeqs, ~q.only, r < q.seq
        PROVE  \E p \in queue' : p.seq = r
    BY <1>1, <1>2, <1>4, <1>9, <2>1, <2>2, StepsOrderly
  <2>3. QED
    BY <2>2 DEF OrderlyInv, Drives, NodeSteps
<1>14. StandInv'
  <2> SUFFICES ASSUME ~\E n \in nodes' : last.seq < n, NEW q \in queue', q.seq \in NodeSeqs, ~q.only
               PROVE  FALSE
    BY <1>1, <1>2, AcceptHoldsNone DEF StandInv, Drives, NodeSteps, OnTheWay
  <2>1. q.seq \in nodes' /\ q.seq \in Nat
    BY <1>10, SeqNumbers
  <2>2. q.seq = last.seq
    BY <1>2, <1>4, <2>1
  <2>3. QED
    BY <1>2, <1>10, <2>1, <2>2
<1>15. QED
  BY <1>7, <1>8, <1>11, <1>12, <1>13, <1>14 DEF Tracked

\* An update continues the order: its first node is one already asked for and
\* released, and all that was asked for lies before its last.
LEMMA UpdateTracks ==
  ASSUME TaskInv, Tracked, NEW m \in OrderMessage, Fits(m), m.id = orderId, UpdateOrder(m)
  PROVE  Tracked' /\ \A e \in edges \ edges' : Done(e + 1)
<1> USE DEF Tracked
<1>0. TaskOK /\ ReadyOK /\ PlaceOK /\ OrderOK /\ WorkerInv /\ StepOK
  BY DEF TaskInv, TypeInv, TypeOK
<1> DEFINE N == NodesOf(m)
           last == [id |-> lastId, seq |-> lastSeq]
           merged == nodes \cup {s \in N : s > lastSeq}
           mergedEdges == edges \cup {s \in EdgesOf(m) : s > lastSeq}
<1>1. /\ released' = (released \ ItemsOf(m)) \cup ReleasedOf(m)
      /\ nodes' = PruneNodes(merged, orderId, last, dispatched, status)
      /\ edges' = PruneEdges(merged, mergedEdges, orderId, last)
      /\ queue' = StepsFor(nodes', edges', released', orderId, last, dispatched, status)
      /\ demanded' = demanded \cup N
      /\ UNCHANGED <<orderId, lastId, lastSeq, visited, baseline>>
      /\ StartTask(currentStep, last, cancelling, Tail(ready))
  BY DEF UpdateOrder, MergeOrder, MergedItems
<1>2. /\ last.seq = lastSeq /\ last.seq \in Seqs /\ lastSeq \in Nat /\ last.id = lastId
      /\ baseline \in Nat \cup {-1}
  BY <1>0, SeqNumbers DEF PlaceOK, OrderOK, None
<1>3. /\ N \in SUBSET NodeSeqs /\ \A s \in N : m.first <= s /\ s <= m.last
      /\ m.first \in Nat /\ m.last \in Nat
      /\ \A s \in NodeSeqs : s \in Nat /\ (m.first <= s /\ s <= m.last => s \in N)
      /\ demanded \subseteq NodeSeqs /\ nodes \subseteq NodeSeqs
  BY <1>0, SeqNumbers DEF NodesOf, OrderMessage, OrderOK
<1>4. m.first \in demanded /\ m.first \in released /\ \A s \in demanded : s < m.last
  BY DEF Fits
<1>5. merged \in SUBSET NodeSeqs
  BY <1>3
<1>a. nodes' = PruneNodes(merged, orderId, last, dispatched, status)
  BY <1>1
<1>b. queue' = StepsFor(nodes', edges', released', orderId, last, dispatched, status)
  BY <1>1
<1>c. \A s \in edges \cup {s \in EdgesOf(m) : s > lastSeq} : s \in edges \cup EdgesOf(m)
  OBVIOUS
<1>d. edges' \subseteq mergedEdges /\ mergedEdges \subseteq edges \cup EdgesOf(m)
  BY <1>1, <1>c DEF PruneEdges
<1>h. edges' = PruneEdges(merged, mergedEdges, orderId, last) /\ edges \subseteq mergedEdges
  BY <1>1
<1>e. \A s \in nodes : s \in merged
  OBVIOUS
<1>f. \A s \in merged : s \in nodes \/ (s \in N /\ s > lastSeq)
  OBVIOUS
<1>g. \A s \in N : s > lastSeq => s \in merged
  OBVIOUS
<1> HIDE DEF merged, mergedEdges, last
<1>6. /\ nodes' \subseteq merged
      /\ LastNodeIn(merged, orderId, last) => \A s \in nodes' : last.seq <= s
      /\ LastNodeIn(nodes', orderId, last) =>
           LastNodeIn(merged, orderId, last) /\ IsPending(last.seq, dispatched, status)
      /\ \A s \in merged \ nodes' : LastNodeIn(merged, orderId, last) /\ s <= last.seq
  BY <1>2, <1>5, <1>a, PruneShape
<1>7. edges' \subseteq edges \cup EdgesOf(m) /\ edges' \in SUBSET EdgeSeqs
  BY <1>0, <1>d DEF OrderOK, EdgesOf
<1>8. \A s \in merged : lastSeq <= s
  BY <1>2, <1>3, <1>f DEF RouteInv
<1>9. ASSUME NEW s \in N, s \notin demanded PROVE m.first < s
  BY <1>3, <1>4, <1>9
\* What lies between the first node of the update and a node asked for was asked for.
<1>10. ASSUME NEW s \in N, NEW d \in demanded, s <= d PROVE s \in demanded
  <2>1. s = d \/ s = m.first \/ (m.first < s /\ s < d)
    BY <1>3, <1>10
  <2>2. QED
    BY <1>3, <1>4, <2>1 DEF RouteInv
<1>11. merged \subseteq demanded'
  BY <1>1, <1>f DEF RouteInv
<1> HIDE DEF N
\* Nothing the update asks for anew lies behind the last node.
<1>12. ASSUME NEW s \in N, s <= lastSeq PROVE s \in demanded
  BY <1>10, <1>12 DEF LastInv
<1>13. LastInv'
  BY <1>1 DEF LastInv, Done
<1>14. Done(lastSeq)
  BY DEF LastInv
<1>15. RouteInv'
  <2>1. ASSUME NEW x \in demanded', NEW z \in demanded', NEW y \in NodeSeqs, x < y, y < z
        PROVE  y \in demanded'
    <3>0. x \in Nat /\ z \in Nat /\ y \in Nat /\ x \in NodeSeqs
      BY <1>1, <1>3
    <3>1. CASE m.first <= y
      <4>1. z <= m.last
        BY <1>1, <1>3, <1>4, <3>0
      <4>2. y <= m.last
        BY <1>3, <2>1, <3>0, <4>1
      <4>3. QED
        BY <1>1, <1>3, <3>1, <4>2
    <3>2. CASE y < m.first
      <4>1. x \in demanded
        <5>1. ~(m.first <= x)
          BY <1>3, <2>1, <3>0, <3>2
        <5>2. QED
          BY <1>1, <1>3, <5>1
      <4>2. QED
        BY <1>1, <1>4, <2>1, <3>2, <4>1 DEF RouteInv
    <3>3. QED
      BY <1>3, <3>0, <3>1, <3>2
  <2>2. ASSUME NEW r \in demanded', NEW s \in demanded', r < s, s \in released'
        PROVE  r \in released'
    <3>0. /\ r \in NodeSeqs /\ s \in NodeSeqs /\ r \in Nat /\ s \in Nat /\ m.base \in Nat
          /\ r \notin EdgeSeqs /\ s \notin EdgeSeqs
      BY <1>1, <1>3, SeqNumbers DEF OrderMessage, EdgeSeqs
    <3>1. /\ \A x \in NodeSeqs : x \in ItemsOf(m) <=> x \in N
          /\ \A x \in NodeSeqs : x \in ReleasedOf(m) <=> x \in N /\ x <= m.base
      BY SeqNumbers DEF ItemsOf, ReleasedOf, EdgesOf, N
    <3>2. \A x \in NodeSeqs :
            x \in released' <=> IF x \in N THEN x <= m.base ELSE x \in released
      BY <1>1, <3>1
    <3>3. s <= m.last /\ r < m.last
      BY <1>1, <1>3, <1>4, <2>2, <3>0
    <3>4. CASE r \in N
      <4>1. s \in N
        BY <1>3, <2>2, <3>0, <3>3, <3>4
      <4>2. r <= m.base
        BY <2>2, <3>0, <3>2, <4>1
      <4>3. QED
        BY <3>0, <3>2, <3>4, <4>2
    <3>5. CASE r \notin N
      <4>1. r \in demanded /\ r < m.first
        BY <1>1, <1>3, <3>0, <3>3, <3>5
      <4>2. r \in released
        BY <1>4, <4>1 DEF RouteInv
      <4>3. QED
        BY <3>0, <3>2, <3>5, <4>2
    <3>6. QED
      BY <3>4, <3>5
  <2>3. ASSUME NEW s \in demanded' PROVE s \in nodes' \/ Done(s)
    <3>1. CASE s \in merged /\ s \notin nodes'
      <4>1. LastNodeIn(merged, orderId, last) /\ s <= lastSeq
        BY <1>2, <1>6, <3>1
      <4>2. s = lastSeq
        BY <1>2, <1>3, <1>5, <1>8, <3>1, <4>1
      <4>3. QED
        BY <1>14, <4>2
    <3>2. CASE s \notin merged
      <4>1. s \in demanded
        BY <1>1, <1>2, <1>3, <1>12, <1>g, <3>2
      <4>2. QED
        BY <1>e, <3>2, <4>1 DEF RouteInv, DoneInv
    <3>3. QED
      BY <3>1, <3>2
  <2>4. ASSUME NEW e \in edges' PROVE e + 1 \in demanded'
    <3>1. CASE e \in edges
      BY <1>1, <3>1 DEF RouteInv
    <3>2. CASE e \in EdgesOf(m)
      <4>1. e \in EdgeSeqs /\ e \in Nat /\ m.first < e /\ e < m.last /\ m.last \in NodeSeqs
        BY <3>2, SeqNumbers DEF EdgesOf, OrderMessage
      <4>2. e + 1 \in NodeSeqs /\ e + 1 <= m.last
        BY <4>1, SeqNumbers
      <4>3. m.first <= e + 1
        BY <1>3, <4>1
      <4>4. QED
        BY <1>1, <1>3, <4>2, <4>3
    <3>3. QED
      BY <1>7, <3>1, <3>2
  <2>5. \A s \in visited' : s <= lastSeq'
    BY <1>1 DEF RouteInv
  <2>6. baseline' <= lastSeq'
    BY <1>1 DEF RouteInv
  <2>7. \A s \in nodes' : lastSeq' <= s
    BY <1>1, <1>6, <1>8
  <2>8. nodes' \subseteq demanded'
    BY <1>6, <1>11
  <2>9. DoneInv'
    BY <1>1, <2>3 DEF DoneInv, Done
  <2>10. QED
    BY <2>1, <2>2, <2>4, <2>5, <2>6, <2>7, <2>8, <2>9 DEF RouteInv
<1>16. nodes' \in SUBSET NodeSeqs
  BY <1>5, <1>6
<1>17. ASSUME NEW q \in queue'
       PROVE  /\ q.of = orderId /\ (q.seq \in NodeSeqs => q.seq \in nodes')
              /\ q.only => q.seq = lastSeq /\ LastNodeIn(nodes', orderId, last)
  BY <1>1, <1>2, <1>7, <1>16, <1>17, StepsShape
<1>18. QueueInv'
  <2>1. \A q \in queue' : q.only => Done(q.seq)
    BY <1>6, <1>14, <1>17
  <2>2. QED
    BY <1>1, <1>15, <1>17, <2>1 DEF QueueInv, NodeSteps, Drives, Done, RouteInv
<1>19. HolderInv'
  <2> SUFFICES ASSUME NEW t \in Tasks, Serving(t)', Holding(t)'
               PROVE  /\ step'[t].of = orderId
                      /\ step'[t].seq \in NodeSeqs =>
                           /\ step'[t].seq \in demanded'
                           /\ Driving(t)' => /\ lastSeq <= step'[t].seq
                                             /\ \A r \in nodes' : step'[t].seq <= r
                                             /\ \A q \in Drives' : step'[t].seq <= q.seq
                           /\ ~Driving(t)' => Done(step'[t].seq)
    BY <1>1 DEF HolderInv, Done
  <2>1. Serving(t) /\ Holding(t)
    BY <1>0, <1>1, StartTaskQuiet
  <2>2. Alive(worker)
    BY <1>0, <2>1 DEF WorkerInv, SingleWorker, Serving
  <2>3. UNCHANGED <<pc, step>>
    BY <1>1, <2>2 DEF StartTask
  <2>4. Driving(t)' <=> Driving(t)
    BY <2>3 DEF Driving
  <2>5. ASSUME step[t].seq \in NodeSeqs, Driving(t), NEW r \in nodes' PROVE step[t].seq <= r
    <3>0. /\ step[t].seq \in demanded /\ lastSeq <= step[t].seq
          /\ \A s \in nodes : step[t].seq <= s
      BY <2>1, <2>5 DEF HolderInv
    <3>1. r \in Nat /\ step[t].seq \in Nat
      BY <1>3, <1>16, <2>5
    <3>2. CASE r \in nodes
      BY <3>0, <3>2
    <3>3. CASE r \notin nodes /\ r < step[t].seq
      <4>1. r \in N /\ lastSeq < r
        BY <1>2, <1>6, <1>f, <3>1, <3>3
      <4>2. r \in demanded
        BY <1>3, <1>10, <3>0, <3>1, <3>3, <4>1
      <4>3. r \in visited \/ r <= baseline
        BY <3>3, <4>2 DEF RouteInv, DoneInv, Done
      <4>4. r <= lastSeq
        BY <1>2, <3>1, <4>3 DEF RouteInv
      <4>5. QED
        BY <1>2, <3>1, <4>1, <4>4
    <3>4. QED
      BY <3>1, <3>2, <3>3
  <2>6. \A q \in Drives' : q.seq \in nodes'
    BY <1>17 DEF Drives, NodeSteps
  <2>7. QED
    BY <1>1, <2>1, <2>3, <2>4, <2>5, <2>6 DEF HolderInv
<1>20. OrderlyInv'
  <2>1. \A r, s \in nodes' : r < s /\ s \in released' => r \in released'
    BY <1>15 DEF RouteInv
  <2>2. /\ \A s \in nodes' : last.seq <= s
        /\ LastNodeIn(nodes', orderId, last) => IsPending(last.seq, dispatched, status)
    BY <1>2, <1>6, <1>8
  <2>3. ASSUME NEW r \in nodes', NEW q \in queue', q.seq \in NodeSeqs, ~q.only, r < q.seq
        PROVE  \E p \in queue' : p.seq = r
    BY <1>2, <1>7, <1>16, <1>b, <2>1, <2>2, <2>3, StepsOrderly
  <2>4. QED
    BY <2>3 DEF OrderlyInv, Drives, NodeSteps
<1>21. ASSUME NEW e \in edges, e \notin edges' PROVE Done(e + 1)
  <2>1. LastNodeIn(merged, orderId, last) /\ e <= lastSeq
    <3>1. e \in mergedEdges /\ e \in Nat
      BY <1>0, <1>21, <1>h, SeqNumbers DEF OrderOK
    <3>2. QED
      BY <1>2, <1>21, <1>h, <3>1 DEF PruneEdges
  <2>2. e \in EdgeSeqs /\ lastSeq \in NodeSeqs /\ lastSeq \notin EdgeSeqs
    <3>1. lastSeq \in NodeSeqs
      BY <1>2, <1>5, <2>1 DEF LastNodeIn
    <3>2. QED
      BY <1>0, <3>1 DEF OrderOK, EdgeSeqs
  <2>3. e < lastSeq
    <3>1. e \in Nat /\ e # lastSeq
      BY <2>2, SeqNumbers
    <3>2. QED
      BY <1>2, <2>1, <3>1
  <2>4. e + 1 \in demanded /\ e + 1 \in Nat /\ e + 1 <= lastSeq
    BY <1>3, <1>21, <2>2, <2>3, SeqNumbers DEF RouteInv
  <2>5. CASE e + 1 \in nodes
    <3>1. e + 1 = lastSeq
      BY <1>2, <2>4, <2>5 DEF RouteInv
    <3>2. QED
      BY <1>14, <3>1
  <2>6. QED
    BY <2>4, <2>5 DEF RouteInv, DoneInv
<1>22. StandInv'
  <2>1. lastSeq < m.last /\ m.first < m.last
    BY <1>4 DEF LastInv
  <2>2. m.last \in NodeSeqs /\ m.first <= m.last /\ m.last <= m.last
    BY <1>3, <2>1 DEF OrderMessage
  <2>3. m.last \in N
    BY <1>3, <2>2
  <2>4. m.last \in merged
    BY <1>2, <1>3, <1>g, <2>1, <2>3
  <2>5. m.last \in nodes'
    BY <1>2, <1>3, <1>6, <2>1, <2>4
  <2>6. QED
    BY <1>1, <2>1, <2>5 DEF StandInv
<1>23. QED
  BY <1>13, <1>15, <1>18, <1>19, <1>20, <1>21, <1>22

-----------------------------------------------------------------------------
(* The nodes ahead of the work *)

\* An item has one step in a rebuilt queue.
LEMMA StepsOnce ==
  ASSUME NEW ns, NEW es, NEW rel, NEW o, NEW last, NEW disp, NEW st,
         NEW p \in StepsFor(ns, es, rel, o, last, disp, st),
         NEW q \in StepsFor(ns, es, rel, o, last, disp, st), p.seq = q.seq
  PROVE  p = q
<1> DEFINE behind == {s \in ns \cup es : LastNodeIn(ns, o, last) /\ s <= last.seq}
           owed == {s \in behind \cap ns \cap rel : s = last.seq /\ IsPending(s, disp, st)}
           ahead == {s \in (ns \cup es) \ behind :
                       \A r \in (ns \cup es) \ behind : r <= s => r \in rel}
<1>1. StepsFor(ns, es, rel, o, last, disp, st) =
        [of : {o}, seq : owed, only : {TRUE}] \cup [of : {o}, seq : ahead, only : {FALSE}]
  BY DEF StepsFor
<1>2. owed \cap ahead = {}
  OBVIOUS
<1> HIDE DEF owed, ahead
<1>3. ASSUME NEW x \in StepsFor(ns, es, rel, o, last, disp, st)
      PROVE  /\ x = [of |-> o, seq |-> x.seq, only |-> x.seq \in owed]
             /\ x.seq \in owed \cup ahead
  <2>1. CASE x \in [of : {o}, seq : owed, only : {TRUE}]
    <3>1. x.seq \in owed /\ x = [of |-> o, seq |-> x.seq, only |-> TRUE]
      BY <2>1
    <3>2. (x.seq \in owed) = TRUE
      BY <3>1
    <3>3. QED
      BY <3>1, <3>2
  <2>2. CASE x \in [of : {o}, seq : ahead, only : {FALSE}]
    <3>1. x.seq \in ahead /\ x = [of |-> o, seq |-> x.seq, only |-> FALSE]
      BY <2>2
    <3>2. (x.seq \in owed) = FALSE
      BY <1>2, <3>1
    <3>3. QED
      BY <3>1, <3>2
  <2>3. QED
    BY <1>1, <2>1, <2>2
<1>4. QED
  BY <1>3

\* Where the order and its queue stand and no other step is taken up.
LEMMA FrameAhead ==
  ASSUME AheadInv, UNCHANGED <<nodes, queue>>,
         \A t \in Tasks : Serving(t)' /\ Holding(t)' =>
           Serving(t) /\ Holding(t) /\ step'[t] = step[t]
  PROVE  AheadInv'
BY DEF AheadInv

\* A new order has a node at or ahead of each step.
LEMMA AcceptAhead ==
  ASSUME TaskInv, NEW m \in OrderMessage, AcceptOrder(m)
  PROVE  AheadInv'
<1>0. TaskOK /\ PlaceOK /\ WorkerInv
  BY DEF TaskInv, TypeInv, TypeOK
<1> DEFINE N == NodesOf(m)
           st == [s \in Seqs |-> IF s \in ItemsOf(m) /\ Blocking[s] # "none"
                                 THEN "WAITING" ELSE "none"]
           Taken(last) ==
             /\ nodes' = PruneNodes(N, m.id, last, {}, st)
             /\ edges' = PruneEdges(N, EdgesOf(m), m.id, last)
             /\ queue' = StepsFor(nodes', edges', ReleasedOf(m), m.id, last, {}, st)
             /\ StartTask(NoStep, last,
                          IF Alive(worker) THEN cancelling \cup {worker} ELSE cancelling,
                          Tail(ready))
<1>1. PICK last \in Bootstrapped(m) : Taken(last)
  BY DEF AcceptOrder
<1> HIDE DEF st
<1>2. last.seq \in Seqs /\ last.seq \in Nat
  BY <1>0, BootstrapTypes, SeqNumbers
<1>3. /\ m.first \in NodeSeqs /\ m.last \in NodeSeqs /\ m.base \in NodeSeqs
      /\ m.first \in Nat /\ m.last \in Nat
      /\ N \in SUBSET NodeSeqs /\ \A s \in N : s \in Nat
  BY SeqNumbers DEF OrderMessage, NodesOf
<1>4. /\ nodes' \subseteq N
      /\ \A s \in N \ nodes' : LastNodeIn(N, m.id, last) /\ s <= last.seq
  BY <1>1, <1>2, <1>3, PruneShape
<1>5. \A t \in Tasks : ~(Serving(t)' /\ Holding(t)')
  BY AcceptHoldsNone
<1>6. ASSUME NEW q \in queue' PROVE \E n \in nodes' : q.seq <= n
  <2>1. q.seq \in nodes' \cup edges'
    BY <1>1 DEF StepsFor
  <2>2. CASE q.seq \in nodes'
    BY <1>3, <1>4, <2>2
  <2>3. CASE q.seq \in edges'
    <3>1. /\ q.seq \in EdgesOf(m) /\ q.seq \in Nat /\ m.first < q.seq /\ q.seq < m.last
          /\ LastNodeIn(N, m.id, last) => last.seq < q.seq
      BY <1>1, <1>2, <2>3, SeqNumbers DEF PruneEdges, EdgesOf
    <3>2. m.last \in N
      <4>1. m.first <= m.last /\ m.last <= m.last
        BY <1>3, <3>1
      <4>2. QED
        BY <1>3, <4>1 DEF NodesOf
    <3>3. m.last \in nodes'
      BY <1>2, <1>3, <1>4, <3>1, <3>2
    <3>4. QED
      BY <1>3, <3>1, <3>3
  <2>4. QED
    BY <2>1, <2>2, <2>3
<1>7. \A p, q \in queue' : p.seq = q.seq => p = q
  BY <1>1, StepsOnce
<1>8. QED
  BY <1>5, <1>6, <1>7 DEF AheadInv

\* An update adds a node ahead of all there was.
LEMMA UpdateAhead ==
  ASSUME TaskInv, RouteInv, LastInv, AheadInv,
         NEW m \in OrderMessage, Fits(m), m.id = orderId, UpdateOrder(m)
  PROVE  AheadInv'
<1>0. TaskOK /\ ReadyOK /\ PlaceOK /\ OrderOK /\ StepOK /\ StepHeld /\ WorkerInv
  BY DEF TaskInv, TypeInv, TypeOK
<1> DEFINE last == [id |-> lastId, seq |-> lastSeq]
           merged == nodes \cup {s \in NodesOf(m) : s > lastSeq}
           mergedEdges == edges \cup {s \in EdgesOf(m) : s > lastSeq}
           rel == (released \ ItemsOf(m)) \cup ReleasedOf(m)
<1>1. /\ nodes' = PruneNodes(merged, orderId, last, dispatched, status)
      /\ edges' = PruneEdges(merged, mergedEdges, orderId, last)
      /\ queue' = StepsFor(nodes', edges', rel, orderId, last, dispatched, status)
      /\ StartTask(currentStep, last, cancelling, Tail(ready))
  BY DEF UpdateOrder, MergeOrder, MergedItems
<1>2. /\ m.first \in demanded /\ \A s \in demanded : s < m.last
      /\ m.first \in Nat /\ m.last \in Nat /\ m.last \in NodeSeqs
      /\ lastSeq \in Nat /\ last.seq = lastSeq /\ lastSeq \in Seqs
      /\ demanded \subseteq NodeSeqs /\ nodes \subseteq demanded
      /\ \A s \in demanded : s \in Nat
  BY <1>0, SeqNumbers DEF Fits, OrderMessage, PlaceOK, OrderOK, RouteInv
<1>3. lastSeq < m.last
  BY <1>2 DEF LastInv
<1>4. m.last \in merged /\ merged \in SUBSET NodeSeqs /\ \A s \in merged : s \in Nat /\ s <= m.last
  <2>1. m.first <= m.last /\ m.last <= m.last
    BY <1>2
  <2>2. m.last \in NodesOf(m)
    BY <1>2, <2>1 DEF NodesOf
  <2>3. \A s \in NodesOf(m) : s \in Nat /\ s \in NodeSeqs /\ s <= m.last
    BY SeqNumbers DEF NodesOf
  <2>4. QED
    BY <1>2, <1>3, <2>2, <2>3
<1> HIDE DEF last, merged, rel
<1>5. nodes' \subseteq merged /\ \A s \in merged \ nodes' : s <= lastSeq
  BY <1>1, <1>2, <1>4, PruneShape
<1>6. m.last \in nodes'
  BY <1>2, <1>3, <1>4, <1>5
<1>7. ASSUME NEW q \in queue' PROVE q.seq <= m.last
  <2>1. q.seq \in nodes' \cup edges'
    BY <1>1 DEF StepsFor
  <2>2. CASE q.seq \in edges
    <3>1. q.seq + 1 \in demanded /\ q.seq \in Nat
      BY <1>0, <2>2, SeqNumbers DEF RouteInv, OrderOK
    <3>2. QED
      BY <1>2, <3>1
  <2>3. CASE q.seq \in EdgesOf(m)
    <3>1. q.seq \in EdgeSeqs /\ q.seq < m.last
      BY <2>3 DEF EdgesOf
    <3>2. q.seq \in Nat
      BY <3>1, SeqNumbers
    <3>3. QED
      BY <1>2, <3>1, <3>2
  <2>4. edges' \subseteq edges \cup EdgesOf(m)
    BY <1>1 DEF PruneEdges
  <2>5. QED
    BY <1>4, <1>5, <2>1, <2>2, <2>3, <2>4
<1>8. ASSUME NEW t \in Tasks, Serving(t)', Holding(t)'
      PROVE  step'[t].seq < m.last /\ step'[t].seq <= m.last
  <2>1. Serving(t) /\ Holding(t)
    BY <1>0, <1>1, <1>8, StartTaskQuiet
  <2>2. step'[t] = step[t]
    BY <1>0, <1>1, <2>1 DEF StartTask, WorkerInv, SingleWorker, Serving
  <2>3. step[t].seq \in Nat
    BY <1>0, <2>1, SeqNumbers DEF StepHeld, Step, Holding
  <2>4. QED
    BY <1>2, <2>1, <2>2, <2>3 DEF AheadInv
<1>9. \A p, q \in queue' : p.seq = q.seq => p = q
  BY <1>1, StepsOnce
<1>10. QED
  BY <1>6, <1>7, <1>8, <1>9 DEF AheadInv

\* The worker takes a step, the first of the queue, or is done with one.
LEMMA TakeAhead ==
  ASSUME TaskInv, ~lateRestart, AheadInv, NEW t \in Tasks, TakeStep(t)
  PROVE  AheadInv'
<1>0. /\ TaskOK /\ StepOK /\ Serving(t) /\ \A u \in Tasks : u # t => ~Alive(u)
  <2>1. pc[t] = "loop"
    BY DEF TakeStep
  <2>2. Serving(t)
    BY <2>1, OnlyWorker DEF TaskInv, Sync
  <2>3. QED
    BY <2>2 DEF TaskInv, TypeInv, TypeOK, WorkerInv, SingleWorker, Serving
<1>1. requeued = <<>>
  BY <1>0 DEF TaskInv, HeldInv, Serving
<1>2. PICK st \in queue : /\ \A other \in queue : st.seq <= other.seq
                          /\ queue' = queue \ {st}
                          /\ step' = [step EXCEPT ![t] = st]
  BY <1>1 DEF TakeStep
<1>3. pc' = [pc EXCEPT ![t] = "begin"] /\ UNCHANGED <<nodes, cancelling>>
  BY DEF TakeStep, GoTo, stateVars
<1>4. step'[t] = st /\ \A u \in Tasks : Serving(u)' => u = t
  BY <1>0, <1>2, <1>3 DEF TaskOK, StepOK, Serving, Alive
<1>5. \A q \in queue' : ~(q.seq <= st.seq)
  <2> SUFFICES ASSUME NEW q \in queue', q.seq <= st.seq PROVE FALSE
    OBVIOUS
  <2>1. q \in queue /\ q # st /\ st.seq <= q.seq
    BY <1>2
  <2>2. q.seq \in Nat /\ st.seq \in Nat
    BY <1>0, <2>1, SeqNumbers DEF StepOK, Step
  <2>3. q.seq = st.seq
    BY <2>1, <2>2
  <2>4. QED
    BY <2>1, <2>3 DEF AheadInv
<1>6. QED
  BY <1>2, <1>3, <1>4, <1>5 DEF AheadInv

\* A step that is done is cleared without the work ahead of the others.
LEMMA ClearAhead ==
  ASSUME TaskInv, AheadInv, NEW t \in Tasks, ClearStep(t)
  PROVE  AheadInv'
<1> DEFINE s == step[t].seq
<1>0. /\ TaskOK /\ StepOK /\ OrderOK /\ pc[t] = "clear" /\ step[t] \in Step
      /\ Serving(t) /\ Holding(t) /\ \A u \in Tasks : u # t => ~Alive(u)
  <2>1. pc[t] = "clear"
    BY DEF ClearStep
  <2>2. Serving(t)
    BY <2>1, OnlyWorker DEF TaskInv, Sync
  <2>3. QED
    BY <2>1, <2>2 DEF TaskInv, TypeInv, TypeOK, StepHeld, WorkerInv, SingleWorker, Serving, Holding
<1>1. nodes' = nodes \ {s} /\ UNCHANGED <<queue, cancelling>> /\ pc' = [pc EXCEPT ![t] = "loop"]
  BY DEF ClearStep, GoTo, queueVars
<1>2. \A u \in Tasks : ~(Serving(u)' /\ Holding(u)')
  BY <1>0, <1>1 DEF TaskOK, Serving, Holding, Alive
<1>3. ASSUME NEW q \in queue PROVE \E n \in nodes' : q.seq <= n
  <2>1. s \in Nat /\ q.seq \in Nat /\ \A n \in nodes : n \in Nat
    BY <1>0, SeqNumbers DEF StepOK, Step, OrderOK
  <2>2. CASE q.seq <= s
    <3>1. PICK n \in nodes : s < n
      BY <1>0, <2>2 DEF AheadInv
    <3>2. n \in nodes' /\ q.seq <= n
      BY <1>1, <2>1, <2>2, <3>1
    <3>3. QED
      BY <3>2
  <2>3. CASE ~(q.seq <= s)
    <3>1. PICK n \in nodes : q.seq <= n
      BY DEF AheadInv
    <3>2. n \in nodes'
      BY <1>1, <2>1, <2>3, <3>1
    <3>3. QED
      BY <3>1, <3>2
  <2>4. QED
    BY <2>2, <2>3
<1>4. QED
  BY <1>1, <1>2, <1>3 DEF AheadInv

\* Every step keeps it: work that is queued has a node at or ahead of it.
LEMMA AheadStep ==
  ASSUME TaskInv, TrackInv, ~lateRestart, ~lateRestart', [Next]_vars
  PROVE  AheadInv'
<1>0. /\ TaskInv /\ ReadyOK /\ TaskOK /\ MessageInv /\ AheadInv
      /\ IsOrderActive => RouteInv /\ LastInv
  BY DEF TrackInv, Tracked, TaskInv, TypeInv, TypeOK
<1>1. CASE UNCHANGED <<frameVars, queue>> /\ Lets
  BY <1>0, <1>1, FrameAhead DEF frameVars, Lets
<1>2. CASE HandleOrder
  <2>1. /\ Head(ready).kind = "order" /\ Head(ready) \in OrderMessage
        /\ 1 \in 1..Len(ready) /\ Head(ready) = ready[1]
    BY <1>0, <1>2, HeadOfReady DEF HandleOrder, IsNext, ReadyOK
  <2>2. Fits(ready[1])
    BY <1>0, <2>1 DEF MessageInv
  <2>3. PICK m \in OrderMessage : m = Head(ready)
    BY <2>1
  <2>4. CASE ~IsOrderActive /\ AcceptOrder(m)
    BY <1>0, <2>4, AcceptAhead
  <2>5. CASE IsOrderActive /\ m.id = orderId /\ UpdateOrder(m)
    BY <1>0, <2>1, <2>2, <2>3, <2>5, UpdateAhead
  <2>6. CASE UNCHANGED <<stateVars, queueVars, taskVars>>
    BY <1>0, <2>6, FrameAhead DEF stateVars, queueVars, taskVars, Serving, Holding, Alive
  <2>7. QED
    BY <1>2, <2>3, <2>4, <2>5, <2>6 DEF HandleOrder, IsOrderActive
<1>3. ASSUME queue' = {}, \A t \in Tasks : ~(Serving(t)' /\ Holding(t)') PROVE AheadInv'
  BY <1>3 DEF AheadInv
<1>4. CASE CrashDrop
  <2>1. Has("crash")
    BY <1>0, <1>4 DEF CrashDrop, IsNext, Has, ReadyOK
  <2>2. \A t \in Tasks : ~(Serving(t) /\ Holding(t))
    BY <1>0, <2>1 DEF TaskInv, StartInv, Serving, Holding
  <2>3. QED
    BY <1>3, <1>4, <2>2 DEF CrashDrop, ClearQueue, taskVars, Serving, Holding, Alive
<1>5. CASE CancelBegin
  <2>1. \A t \in Tasks : ~Serving(t)'
    BY <1>5 DEF CancelBegin, Serving, Alive, TaskInv, WorkerInv, SingleWorker
  <2>2. CASE queue' = {}
    BY <1>3, <2>1, <2>2
  <2>3. CASE UNCHANGED queue
    BY <1>0, <1>5, <2>1, <2>3, FrameAhead DEF CancelBegin, stateVars
  <2>4. QED
    BY <1>5, <2>2, <2>3 DEF CancelBegin, ClearQueue, queueVars
<1>6. CASE CancelBackgroundEnded
  <2>1. \A t \in Tasks : ~Serving(t)'
    BY <1>0, <1>6 DEF CancelBackgroundEnded, TaskInv, HeldInv, Serving, Alive, taskVars
  <2>2. QED
    BY <1>3, <1>6, <2>1 DEF CancelBackgroundEnded, ClearQueue
<1>7. CASE CancelEnd
  <2>1. queue = {} /\ Quiet
    BY <1>0, <1>7 DEF CancelEnd, TaskInv, HeldInv, NoSteps
  <2>2. QED
    BY <1>3, <1>7, <2>1 DEF CancelEnd, queueVars, taskVars, Quiet, Serving, Holding, Alive
<1>8. CASE \/ \E m \in OrderMessage : ReceiveOrder(m)
           \/ ReceiveCancel \/ PostRestart \/ Restart \/ EndStray
           \/ \E s \in Seqs : EndBackground(s)
           \/ HandleCancel \/ UNCHANGED vars
  BY <1>0, <1>1, <1>8, LoopLets
<1>9. ASSUME NEW p, MoveByHand(p) \/ ReportPose(p) PROVE AheadInv'
  <2>1. UNCHANGED <<nodes, queue, pc, step, cancelling>>
    BY <1>9 DEF MoveByHand, ReportPose, stateVars, queueVars, taskVars
  <2>2. QED
    BY <1>0, <2>1, FrameAhead DEF Serving, Holding, Alive
<1>10. ASSUME NEW t \in Tasks, TakeStep(t) \/ ClearStep(t) \/ Arrive(t) PROVE AheadInv'
  <2>1. CASE Arrive(t)
    <3>1. UNCHANGED <<nodes, queue, step, cancelling>> /\ pc' = [pc EXCEPT ![t] = "actions"]
          /\ pc[t] = "drive"
      BY <2>1 DEF Arrive, GoTo, queueVars
    <3>2. \A u \in Tasks : Serving(u)' /\ Holding(u)' => Serving(u) /\ Holding(u)
      BY <1>0, <3>1 DEF TaskOK, Serving, Holding, Alive
    <3>3. QED
      BY <1>0, <3>1, <3>2, FrameAhead
  <2>2. QED
    BY <1>0, <1>10, <2>1, TakeAhead, ClearAhead
<1>11. ASSUME NEW t \in Tasks, WorkerSync(t) \/ WorkerAwaits(t) \/ WorkerWorks(t) \/ Crash(t)
       PROVE  AheadInv'
  BY <1>0, <1>1, <1>10, <1>11, WorkerLets DEF WorkerSync, WorkerAwaits, WorkerWorks
<1>12. QED
  BY <1>2, <1>4, <1>5, <1>6, <1>7, <1>8, <1>9, <1>11 DEF Next, Fleet, Loop

-----------------------------------------------------------------------------
(* Orders in the ready queue *)

\* What an action may do to them: take one, queue something else, or queue one sent.
OrderMove ==
  \/ \E taken, x : QueueMove(taken, x) /\ x.kind # "order"
  \/ \E m \in OrderMessage : ReceiveOrder(m) /\ QueueMove(0, m)

\* Handling an order takes it from the queue.
LEMMA HandleTakes ==
  ASSUME ReadyOK, HandleOrder
  PROVE  \E x : QueueMove(1, x) /\ x.kind \in {"start", "done"}
<1>1. Rest(Tail(ready), 1)
  BY DEF HandleOrder, IsNext, Rest
<1>2. ASSUME NEW cs, NEW last, NEW canc, StartTask(cs, last, canc, Tail(ready))
      PROVE  \E x : QueueMove(1, x) /\ x.kind \in {"start", "done"}
  BY <1>1, <1>2, StartTaskQueue
<1>3. CASE ready' = Tail(ready)
  <2>1. QueueMove(1, Other) /\ Other.kind = "done"
    BY <1>1, <1>3, TakenIsMove DEF Other
  <2>2. QED
    BY <2>1
<1>4. ASSUME NEW m, AcceptOrder(m) PROVE \E x : QueueMove(1, x) /\ x.kind \in {"start", "done"}
  BY <1>2, <1>4 DEF AcceptOrder
<1>5. ASSUME NEW m, UpdateOrder(m) PROVE \E x : QueueMove(1, x) /\ x.kind \in {"start", "done"}
  BY <1>2, <1>5 DEF UpdateOrder
<1>6. QED
  BY <1>3, <1>4, <1>5 DEF HandleOrder

\* Every step handles the messages of the fleet in one of the ways of OrderMove.
LEMMA NextMovesOrders ==
  ASSUME TypeInv, [Next]_vars
  PROVE  OrderMove
<1>0. TaskOK /\ ReadyOK /\ OrderOK
  BY DEF TypeInv, TypeOK
<1>a. ASSUME NEW taken, NEW x, QueueMove(taken, x), x.kind # "order" PROVE OrderMove
  BY <1>a DEF OrderMove
<1>b. Other.kind # "order"
  BY DEF Other
<1>c. ASSUME NEW k \in {"crash", "done", "restart", "cancelling"}
      PROVE  [kind |-> k].kind # "order" /\ [kind |-> k] \in Message \cup Callback
  BY Callbacks
<1>1. ASSUME NEW rest, NEW taken, Rest(rest, taken), ready' = rest PROVE OrderMove
  BY <1>0, <1>1, <1>a, <1>b, TakenIsMove
<1>2. ASSUME NEW t \in Tasks, NEW rest, NEW taken, Rest(rest, taken), EndTask(t, rest)
      PROVE  OrderMove
  BY <1>0, <1>2, <1>a, <1>b, EndIsMove
<1>3. ASSUME NEW x, x.kind # "order", x \in Message \cup Callback, NEW rest, NEW taken,
             Rest(rest, taken), ready' = Append(rest, x)
      PROVE  OrderMove
  BY <1>0, <1>3, <1>a, AppendIsMove
<1>4. Rest(ready, 0) /\ (ready # <<>> => Rest(Tail(ready), 1))
  BY DEF Rest
<1>5. CASE Fleet
  <2>1. ASSUME NEW m \in OrderMessage, ReceiveOrder(m) PROVE OrderMove
    <3>1. m \in Message /\ ready' = Append(ready, m)
      BY <2>1 DEF ReceiveOrder, Message
    <3>2. QueueMove(0, m)
      BY <1>0, <1>4, <3>1, AppendIsMove
    <3>3. QED
      BY <2>1, <3>2 DEF OrderMove
  <2>2. CASE ReceiveCancel
    <3>1. /\ [kind |-> "cancel", id |-> orderId].kind # "order"
          /\ [kind |-> "cancel", id |-> orderId] \in Message
      BY <1>0 DEF Message, CancelMessage, OrderOK
    <3>2. QED
      BY <1>3, <1>4, <2>2, <3>1 DEF ReceiveCancel
  <2>3. ASSUME NEW p, MoveByHand(p) PROVE OrderMove
    BY <1>1, <1>4, <2>3 DEF MoveByHand
  <2>4. QED
    BY <1>5, <2>1, <2>2, <2>3 DEF Fleet
<1>6. CASE HandleOrder
  <2>1. PICK x : QueueMove(1, x) /\ x.kind \in {"start", "done"}
    BY <1>0, <1>6, HandleTakes
  <2>2. QED
    BY <1>a, <2>1
<1>7. CASE Restart
  <2>1. ready # <<>>
    BY <1>7 DEF Restart, IsNext
  <2>2. PICK x : QueueMove(1, x) /\ x.kind \in {"start", "done"}
    BY <1>0, <1>4, <1>7, <2>1, StartTaskQueue DEF Restart
  <2>3. QED
    BY <1>a, <2>2
<1>8. CASE PostRestart \/ HandleCancel
  BY <1>3, <1>4, <1>8, <1>c DEF PostRestart, HandleCancel, IsNext
<1>9. CASE \/ CancelBegin \/ CancelBackgroundEnded \/ CancelEnd \/ CrashDrop \/ EndStray
           \/ (\E p \in Places : ReportPose(p))
           \/ \E s \in Seqs : EndBackground(s)
  BY <1>1, <1>4, <1>9 DEF CancelBegin, CancelBackgroundEnded, CancelEnd, CrashDrop, EndStray,
       ReportPose, EndBackground, IsNext
<1>10. ASSUME NEW t \in Tasks, WorkerSync(t) PROVE OrderMove
  BY <1>1, <1>2, <1>4, <1>10 DEF WorkerSync, TakeStep, WorkerDone, BeginStep, Requeue,
                                DispatchActions, ClearStep
<1>11. ASSUME NEW t \in Tasks, WorkerAwaits(t) \/ WorkerWorks(t) PROVE OrderMove
  BY <1>1, <1>2, <1>4, <1>11 DEF WorkerAwaits, WorkerWorks, WorkerStart, Arrive, DriveFails,
       Requeue, StopVehicle, EndAction, EndTick, Cancelled, StartCancelled, IsNext
<1>12. ASSUME NEW t \in Tasks, Crash(t) PROVE OrderMove
  BY <1>0, <1>12, <1>a, <1>c, CrashIsMove DEF Crash
<1>13. CASE UNCHANGED vars
  BY <1>1, <1>4, <1>13 DEF vars
<1>14. QED
  BY <1>5, <1>6, <1>7, <1>8, <1>9, <1>10, <1>11, <1>12, <1>13 DEF Next, Loop

\* A fleet that waits for an order to be handled has one in the queue at most.
LEMMA OnceStep ==
  ASSUME TypeInv, TypeInv', Disciplined, Once("order"), [Next]_vars
  PROVE  Once("order")'
<1>0. ReadyOK /\ ReadyOK'
  BY DEF TypeInv, TypeOK
<1>1. ASSUME NEW taken, NEW x, QueueMove(taken, x), x.kind # "order" PROVE Once("order")'
  BY <1>0, <1>1, MoveOnce
<1>2. ASSUME NEW m \in OrderMessage, ReceiveOrder(m), QueueMove(0, m) PROVE Once("order")'
  <2>1. Unhandled = {}
    BY <1>2 DEF ReceiveOrder, CanSend, Disciplined
  <2>2. ~Has("order")
    BY <2>1 DEF Unhandled, Has
  <2>3. QED
    BY <1>0, <1>2, <2>2, MoveOnce
<1>3. QED
  BY <1>1, <1>2, NextMovesOrders DEF OrderMove

\* It sends none behind the done callback of a worker that raised.
LEMMA BeforeStep ==
  ASSUME TypeInv, TypeInv', Disciplined, Before("order", "crash"), [Next]_vars
  PROVE  Before("order", "crash")'
<1>0. ReadyOK /\ ReadyOK'
  BY DEF TypeInv, TypeOK
<1>1. ASSUME NEW taken, NEW x, QueueMove(taken, x), x.kind # "order"
      PROVE  Before("order", "crash")'
  BY <1>0, <1>1, MoveBefore
<1>2. ASSUME NEW m \in OrderMessage, ReceiveOrder(m), QueueMove(0, m)
      PROVE  Before("order", "crash")'
  <2>1. ~Has("crash")
    BY <1>2 DEF ReceiveOrder, Disciplined, Has
  <2>2. QED
    BY <1>0, <1>2, <2>1, MoveBefore
<1>3. QED
  BY <1>1, <1>2, NextMovesOrders DEF OrderMove

\* The orders queued still fit if every order that fits does so after the step.
LEMMA MessagesKept ==
  ASSUME ReadyOK, NEW taken, NEW x, QueueMove(taken, x), MessageInv,
         x.kind = "order" => x \in OrderMessage /\ Fits(x)',
         Has("order") => \A m \in OrderMessage : Fits(m) => Fits(m)'
  PROVE  MessageInv'
<1> SUFFICES ASSUME NEW i \in 1..Len(ready'), ready'[i].kind = "order"
             PROVE  \E m \in OrderMessage : ready'[i] = m /\ Fits(m)'
  BY DEF MessageInv, Fits, IsOrderFinished
<1>1. CASE i + taken \in 1..Len(ready) /\ ready'[i] = ready[i + taken]
  <2>1. ready[i + taken] \in Message \cup Callback
    BY <1>1 DEF ReadyOK
  <2>2. ready[i + taken] \in OrderMessage /\ Has("order")
    BY <1>1, <2>1 DEF Message, CancelMessage, Callback, Has
  <2>3. PICK m \in OrderMessage : m = ready[i + taken]
    BY <2>2
  <2>4. Fits(m)
    BY <1>1, <2>3 DEF MessageInv
  <2>5. QED
    BY <1>1, <2>2, <2>3, <2>4
<1>2. CASE ready'[i] = x
  BY <1>2
<1>3. QED
  BY <1>1, <1>2 DEF QueueMove

-----------------------------------------------------------------------------
(* The induction *)

\* Steps that leave the frame and the robot alone leave fitting orders fitting.
LEMMA FrameFits ==
  ASSUME UNCHANGED <<frameVars, pos>>, NEW m, Fits(m)
  PROVE  Fits(m)'
BY DEF frameVars, Fits, IsOrderFinished

\* Which steps change it.
LEMMA FrameChanges ==
  ASSUME [Next]_vars
  PROVE  \/ UNCHANGED <<frameVars, pos>>
         \/ HandleOrder \/ CrashDrop \/ CancelEnd
         \/ \E p \in Places : ReportPose(p) \/ MoveByHand(p)
         \/ \E t \in Tasks : Arrive(t) \/ ClearStep(t) \/ BeginStep(t)
<1> USE DEF orderVars, stateVars, placeVars, frameVars
<1>1. CASE Fleet
  BY <1>1 DEF Fleet, ReceiveOrder, ReceiveCancel
<1>2. CASE Loop
  BY <1>2 DEF Loop, PostRestart, Restart, EndStray, EndBackground, HandleCancel, CancelBegin,
              CancelBackgroundEnded
<1>3. ASSUME NEW t \in Tasks, WorkerSync(t) \/ WorkerAwaits(t) \/ WorkerWorks(t) \/ Crash(t),
             ~Arrive(t), ~ClearStep(t), ~BeginStep(t)
      PROVE  UNCHANGED <<frameVars, pos>>
  BY <1>3 DEF WorkerSync, WorkerAwaits, WorkerWorks, TakeStep, WorkerDone, DispatchActions,
              WorkerStart, DriveFails, StopVehicle, EndAction, EndTick, Cancelled,
              StartCancelled, Crash
<1>4. CASE UNCHANGED vars
  BY <1>4 DEF vars
<1>5. QED
  BY <1>1, <1>2, <1>3, <1>4 DEF Next

\* Three of them leave the order and its nodes alone.
LEMMA FrameStays ==
  ASSUME \/ \E p \in Places : ReportPose(p) \/ MoveByHand(p)
         \/ \E t \in Tasks : BeginStep(t)
  PROVE  UNCHANGED <<orderId, nodes, edges, released, demanded, visited, baseline>>
BY DEF ReportPose, MoveByHand, BeginStep, orderVars, stateVars

\* A worker that holds a step of an order works for an active one.
LEMMA HolderActive ==
  ASSUME TaskInv, ~lateRestart, AheadInv, NEW t \in Tasks, Serving(t), Holding(t)
  PROVE  nodes # {} /\ IsOrderActive
<1>1. nodes # {}
  BY DEF AheadInv
<1>2. QED
  BY <1>1 DEF TaskInv, HeldInv, IsOrderActive, IsOrderFinished

\* So does one that clears a step, reaches a node or begins a step.
LEMMA WorkerActive ==
  ASSUME TaskInv, ~lateRestart, AheadInv, NEW t \in Tasks,
         Arrive(t) \/ ClearStep(t) \/ BeginStep(t)
  PROVE  nodes # {} /\ IsOrderActive
<1>1. CASE Arrive(t)
  BY <1>1, HolderActive DEF Arrive, Serving, Holding, Alive
<1>2. CASE ClearStep(t) \/ BeginStep(t)
  <2>1. pc[t] \in {"clear", "begin"}
    BY <1>2 DEF ClearStep, BeginStep
  <2>2. Serving(t) /\ Holding(t)
    BY <2>1, OnlyWorker DEF TaskInv, Holding, Sync
  <2>3. QED
    BY <2>2, HolderActive
<1>3. QED
  BY <1>1, <1>2

\* An order sent by the rules fits.
LEMMA SentFits ==
  ASSUME Disciplined, NEW m \in OrderMessage, ReceiveOrder(m)
  PROVE  Fits(m)
<1>1. /\ m.base \in NodesOf(m)
      /\ m.id # orderId \/ IsOrderFinished =>
           IsOrderFinished /\ pos = lastId /\ Route[m.id][m.first] = lastId
      /\ m.id = orderId => m.first \in demanded \cap released /\ \A s \in demanded : s < m.last
  BY DEF ReceiveOrder, Disciplined
<1>2. m.first \in NodesOf(m)
  <2>1. m.first <= m.base /\ m.base <= m.last /\ m.base \in Nat
    BY <1>1, SeqNumbers DEF NodesOf
  <2>2. m.first \in NodeSeqs /\ m.first \in Nat /\ m.last \in Nat
    BY SeqNumbers DEF OrderMessage
  <2>3. QED
    BY <2>1, <2>2 DEF NodesOf
<1>3. QED
  BY <1>1, <1>2 DEF Fits

\* And goes on fitting until it is handled: a crash or a cancelOrder comes behind it, the
\* robot stands still without an active order, and the order in progress ends where the
\* robot stands.
LEMMA FitsOn ==
  ASSUME OrderInv, Has("order"), ~lateRestart, Disciplined, [Next]_vars, ~HandleOrder,
         NEW m \in OrderMessage, Fits(m)
  PROVE  Fits(m)'
<1>0. /\ TaskInv /\ TypeInv /\ ReadyOK /\ OrderOK /\ PlaceOK /\ AheadInv
      /\ IsOrderActive => Tracked
  BY DEF OrderInv, TaskInv, TypeInv, TypeOK, TrackInv
<1>1. CASE UNCHANGED <<frameVars, pos>>
  BY <1>1, FrameFits
<1>2. CASE CrashDrop
  BY <1>0, <1>2, NoneBefore DEF OrderInv, CrashDrop, IsNext
<1>3. CASE CancelEnd
  BY <1>0, <1>3 DEF CancelEnd, TaskInv, CancelInv
<1>4. ASSUME NEW p, MoveByHand(p) PROVE FALSE
  BY <1>4 DEF MoveByHand, Disciplined, Has
<1>5. ASSUME NEW p \in Places, ReportPose(p) PROVE Fits(m)'
  <2>1. UNCHANGED <<orderId, nodes, edges, released, demanded, pos>>
    BY <1>5, FrameStays DEF ReportPose
  <2>2. IsOrderFinished => lastId \in Places /\ lastId # NoPlace
    BY OrderEngineAssumption DEF Fits, OrderMessage, NodesOf
  <2>3. IsOrderFinished => UNCHANGED lastId
    BY <1>5, <2>2, ReportKeeps DEF Disciplined, Fits
  <2>4. QED
    BY <2>1, <2>3 DEF Fits, IsOrderFinished
<1>6. ASSUME NEW t \in Tasks, Arrive(t) \/ BeginStep(t) PROVE Fits(m)'
  <2>1. nodes # {}
    BY <1>0, <1>6, WorkerActive
  <2>2. UNCHANGED <<orderId, nodes, released, demanded>>
    BY <1>6 DEF Arrive, BeginStep, orderVars, stateVars
  <2>3. QED
    BY <2>1, <2>2 DEF Fits, IsOrderFinished
<1>7. ASSUME NEW t \in Tasks, ClearStep(t) PROVE Fits(m)'
  <2>1. nodes # {} /\ IsOrderActive
    BY <1>0, <1>7, WorkerActive
  <2>2. m.id = orderId /\ m.first \in demanded \cap released /\ \A s \in demanded : s < m.last
    BY <2>1 DEF Fits, IsOrderFinished
  <2>3. UNCHANGED <<orderId, released, demanded, lastId, lastSeq, pos, visited, baseline>>
    BY <1>7 DEF ClearStep, orderVars, placeVars
  <2>4. Tracked /\ Tracked'
    BY <1>0, <1>7, <2>1, ClearTracks
  <2>5. ASSUME IsOrderFinished' PROVE pos = lastId /\ \E s \in NodesOf(m) : Route[m.id][s] = lastId
    <3>1. pos = lastId /\ lastSeq \in demanded /\ Route[m.id][lastSeq] = lastId
      BY <2>2, <2>3, <2>4, <2>5 DEF Tracked, StandInv, LastInv, IsOrderFinished
    <3>2. Done(m.first)
      BY <2>2, <2>3, <2>4, <2>5 DEF Tracked, RouteInv, DoneInv, Done, IsOrderFinished
    <3>3. m.first <= lastSeq
      BY <1>0, <2>4, <3>2, DoneBehind DEF OrderMessage, Tracked
    <3>4. lastSeq \in NodeSeqs /\ lastSeq < m.last
      BY <1>0, <2>2, <3>1 DEF OrderOK
    <3>5. lastSeq <= m.last
      <4>1. lastSeq \in Nat /\ m.last \in Nat
        BY <3>4, SeqNumbers DEF OrderMessage
      <4>2. QED
        BY <3>4, <4>1
    <3>6. QED
      BY <3>1, <3>3, <3>4, <3>5 DEF NodesOf
  <2>6. QED
    BY <2>2, <2>3, <2>5 DEF Fits
<1>8. QED
  BY <1>1, <1>2, <1>3, <1>4, <1>5, <1>6, <1>7, FrameChanges

\* Every step keeps it: the fleet sends what fits the order that is there.
LEMMA MessageStep ==
  ASSUME OrderInv, ~lateRestart, Disciplined, [Next]_vars
  PROVE  MessageInv'
<1>0. ReadyOK /\ MessageInv /\ TypeInv
  BY DEF OrderInv, TrackInv, TaskInv, TypeInv, TypeOK
<1>1. CASE HandleOrder
  <2>1. PICK x : QueueMove(1, x) /\ x.kind \in {"start", "done"}
    BY <1>0, <1>1, HandleTakes
  <2>2. Head(ready).kind = "order"
    BY <1>1 DEF HandleOrder, IsNext
  <2>3. ~Has("order")'
    BY <1>0, <2>1, <2>2, TakenIsGone DEF OrderInv
  <2>4. QED
    BY <2>3 DEF Has, MessageInv
<1>2. CASE ~HandleOrder
  <2>1. Has("order") => \A m \in OrderMessage : Fits(m) => Fits(m)'
    BY <1>2, FitsOn
  <2>2. ASSUME NEW taken, NEW x, QueueMove(taken, x), x.kind # "order" PROVE MessageInv'
    BY <1>0, <2>1, <2>2, MessagesKept
  <2>3. ASSUME NEW m \in OrderMessage, ReceiveOrder(m), QueueMove(0, m) PROVE MessageInv'
    <3>1. UNCHANGED <<frameVars, pos>>
      BY <2>3 DEF ReceiveOrder, frameVars, orderVars, stateVars, placeVars
    <3>2. Fits(m)'
      BY <2>3, <3>1, SentFits, FrameFits
    <3>3. QED
      BY <1>0, <2>1, <2>3, <3>2, MessagesKept
  <2>4. QED
    BY <1>0, <2>2, <2>3, NextMovesOrders DEF OrderMove
<1>3. QED
  BY <1>1, <1>2

\* An order handled is tracked, or ignored.
LEMMA HandleTracks ==
  ASSUME OrderInv, ~lateRestart, HandleOrder
  PROVE  Tracked' \/ (UNCHANGED <<frameVars, queue>> /\ Lets)
<1>0. TaskInv /\ ReadyOK /\ MessageInv /\ (IsOrderActive => Tracked)
  BY DEF OrderInv, TrackInv, TaskInv, TypeInv, TypeOK
<1>1. /\ ready # <<>> /\ Head(ready).kind = "order" /\ Head(ready) \in OrderMessage
      /\ Len(ready) \in Nat /\ 1 \in 1..Len(ready) /\ Head(ready) = ready[1]
  BY <1>0, HeadOfReady DEF HandleOrder, IsNext, ReadyOK
<1>2. Fits(ready[1])
  BY <1>0, <1>1 DEF MessageInv
<1>3. PICK m \in OrderMessage : m = Head(ready)
  BY <1>1
<1>4. Fits(m)
  BY <1>1, <1>2, <1>3
<1>5. CASE (orderId = NoOrder \/ IsOrderFinished) /\ AcceptOrder(m)
  <2>1. IsOrderFinished
    BY <1>0, <1>5 DEF TaskInv, HeldInv, IsOrderFinished
  <2>2. UNCHANGED pos
    BY DEF HandleOrder
  <2>3. QED
    BY <1>0, <1>4, <1>5, <2>1, <2>2, AcceptTracks
<1>6. CASE IsOrderActive /\ m.id = orderId /\ UpdateOrder(m)
  BY <1>0, <1>4, <1>6, UpdateTracks
<1>7. CASE /\ ready' = Tail(ready)
           /\ UNCHANGED <<orderVars, stateVars, lastId, lastSeq, queueVars, taskVars, visited>>
  <2>1. QueueMove(1, Other)
    <3>1. Rest(Tail(ready), 1)
      BY <1>1 DEF Rest
    <3>2. QED
      BY <1>0, <1>7, <3>1, TakenIsMove
  <2>2. /\ UNCHANGED <<pc, step, cancelling, requeued, cancelPc, pos>>
        /\ UNCHANGED <<frameVars, queue>>
    BY <1>7 DEF HandleOrder, cancelVars, taskVars, queueVars, frameVars, orderVars, stateVars
  <2>3. QED
    BY <1>0, <1>1, <2>1, <2>2, StandLets
<1>8. QED
  BY <1>3, <1>5, <1>6, <1>7 DEF HandleOrder

\* The order goes on: every action that leaves one tracks it.
LEMMA OrderTracks ==
  ASSUME OrderInv, ~lateRestart, ~lateRestart', Disciplined, [Next]_vars, IsOrderActive'
  PROVE  Tracked'
<1>0. TaskInv /\ AheadInv /\ (IsOrderActive => Tracked)
  BY DEF OrderInv, TrackInv
<1>a. UNCHANGED <<orderId, nodes, edges>> => IsOrderActive
  BY DEF IsOrderActive, IsOrderFinished
<1>1. CASE UNCHANGED <<frameVars, queue>> /\ Lets
  BY <1>0, <1>1, <1>a, FrameKeeps DEF frameVars
<1>2. CASE HandleOrder
  BY <1>1, <1>2, HandleTracks
<1>3. CASE CrashDrop
  BY <1>3 DEF CrashDrop, ClearOrderState, IsOrderActive
<1>4. CASE CancelBegin \/ CancelBackgroundEnded \/ CancelEnd
  <2>1. orderId' # NoOrder
    BY DEF IsOrderActive
  <2>2. UNCHANGED <<orderId, nodes, edges>>
    BY <1>4, <2>1 DEF CancelBegin, CancelBackgroundEnded, CancelEnd, ClearOrderState, orderVars,
                      stateVars
  <2>3. QED
    BY <1>0, <1>4, <1>a, <2>1, <2>2, CancelTracks
<1>5. CASE \/ \E m \in OrderMessage : ReceiveOrder(m)
           \/ ReceiveCancel \/ PostRestart \/ Restart \/ EndStray
           \/ \E s \in Seqs : EndBackground(s)
           \/ HandleCancel \/ UNCHANGED vars
  BY <1>0, <1>1, <1>5, LoopLets
<1>6. ASSUME NEW p \in Places, MoveByHand(p) PROVE FALSE
  BY <1>6, <1>a, FrameStays DEF MoveByHand
<1>7. ASSUME NEW p \in Places, ReportPose(p) PROVE Tracked'
  <2>1. IsOrderActive
    BY <1>7, <1>a, FrameStays
  <2>2. QED
    BY <1>0, <1>1, <1>7, <2>1, ReportLets DEF Tracked, Disciplined
<1>8. ASSUME NEW t \in Tasks, TakeStep(t) \/ ClearStep(t) \/ Arrive(t) PROVE Tracked'
  <2>1. orderId' = orderId /\ nodes' \subseteq nodes /\ edges' \subseteq edges
    BY <1>8 DEF TakeStep, ClearStep, Arrive, orderVars, stateVars
  <2>2. IsOrderActive
    BY <2>1 DEF IsOrderActive, IsOrderFinished
  <2>3. QED
    BY <1>0, <1>8, <2>2, TakeTracks, ClearTracks, ArriveTracks
<1>9. ASSUME NEW t \in Tasks, WorkerSync(t) \/ WorkerAwaits(t) \/ WorkerWorks(t) \/ Crash(t)
      PROVE  Tracked'
  BY <1>0, <1>1, <1>8, <1>9, WorkerLets DEF WorkerSync, WorkerAwaits, WorkerWorks
<1>10. QED
  BY <1>2, <1>3, <1>4, <1>5, <1>6, <1>7, <1>9 DEF Next, Fleet, Loop

\* No node of it is lost, not when it ends either.
LEMMA DoneStep ==
  ASSUME OrderInv, ~lateRestart, [Next]_vars
  PROVE  DoneInv'
<1>0. TaskInv /\ AheadInv /\ DoneInv /\ (IsOrderActive => Tracked)
  BY DEF OrderInv, TrackInv
<1>1. CASE UNCHANGED <<nodes, demanded, visited, baseline>>
  BY <1>0, <1>1 DEF DoneInv, Done
<1>2. CASE UNCHANGED <<frameVars, pos>>
  BY <1>1, <1>2 DEF frameVars
<1>3. CASE HandleOrder
  BY <1>1, <1>3, HandleTracks DEF Tracked, RouteInv, frameVars
<1>4. CASE CrashDrop \/ CancelEnd
  <2>1. CASE ClearOrderState
    BY <2>1 DEF ClearOrderState, DoneInv
  <2>2. QED
    BY <1>1, <1>4, <2>1 DEF CrashDrop, CancelEnd, orderVars, stateVars
<1>5. ASSUME NEW t \in Tasks, Arrive(t) \/ ClearStep(t) PROVE DoneInv'
  <2>1. IsOrderActive
    BY <1>0, <1>5, WorkerActive
  <2>2. QED
    BY <1>0, <1>5, <2>1, ArriveTracks, ClearTracks DEF Tracked, RouteInv
<1>6. QED
  BY <1>1, <1>2, <1>3, <1>4, <1>5, FrameChanges, FrameStays

\* Nothing was ordered yet.
LEMMA InitOrder == Init => OrderInv
<1> SUFFICES ASSUME Init PROVE OrderInv
  OBVIOUS
<1>1. TaskInv
  BY InitTasks
<1>2. /\ Len(ready) = 0 /\ ~IsOrderActive /\ demanded = {} /\ queue = {}
      /\ \A t \in Tasks : ~Serving(t)
  BY DEF Init, IsOrderActive, Serving, Alive
<1>3. QED
  BY <1>1, <1>2 DEF OrderInv, TrackInv, MessageInv, AheadInv, DoneInv, Once, Before

\* Every step keeps the invariant of the order and its numbers.
LEMMA OrderStep ==
  ASSUME OrderInv, Disciplined, [Next]_vars
  PROVE  OrderInv'
<1>1. TaskInv'
  BY TaskStep DEF OrderInv, Disciplined
<1>2. Once("order")' /\ Before("order", "crash")'
  BY <1>1, OnceStep, BeforeStep DEF OrderInv, TaskInv
<1>3. TrackInv'
  <2> SUFFICES ASSUME ~lateRestart'
               PROVE  MessageInv' /\ AheadInv' /\ DoneInv' /\ (IsOrderActive' => Tracked')
    BY DEF TrackInv
  <2>1. ~lateRestart
    BY NotLate DEF OrderInv, TaskInv
  <2>2. QED
    BY <2>1, MessageStep, AheadStep, DoneStep, OrderTracks DEF OrderInv
<1>4. QED
  BY <1>1, <1>2, <1>3 DEF OrderInv

-----------------------------------------------------------------------------
(* What it shows *)

\* The robot never turns back: a worker that serves an order drives to no node behind
\* one reached in it, however updates, failures, cancellations and restarts fall.
THEOREM NeverTurnsBack ==
  ASSUME Disciplined
  PROVE  Spec => []NoReturn
<1>1. OrderInv => NoReturn
  <2> SUFFICES ASSUME OrderInv, ~lateRestart, NEW t \in Tasks, pc[t] = "drive",
                      t \notin cancelling, step[t].of = orderId, NEW v \in visited
               PROVE  v <= step[t].seq
    BY DEF NoReturn
  <2>1. Serving(t) /\ Holding(t) /\ Driving(t) /\ step[t].seq \in NodeSeqs
    BY DEF Serving, Holding, Driving, Alive, OrderInv, TaskInv, TypeInv, StepHeld
  <2>2. Tracked
    BY <2>1, HolderActive DEF OrderInv, TrackInv
  <2>3. lastSeq <= step[t].seq /\ v <= lastSeq
    BY <2>1, <2>2 DEF Tracked, HolderInv, RouteInv
  <2>4. lastSeq \in Nat /\ v \in Nat /\ step[t].seq \in Nat
    BY <2>1, SeqNumbers DEF OrderInv, TaskInv, TypeInv, TypeOK, OrderOK, PlaceOK
  <2>5. QED
    BY <2>3, <2>4
<1>2. OrderInv /\ [Next]_vars => OrderInv'
  BY OrderStep
<1>3. QED
  BY InitOrder, <1>1, <1>2, PTL DEF Spec

\* No node the fleet asked for is lost: not by updates that arrive while the robot is on
\* its way, nor by the pose telemetry that writes the last node meanwhile.
THEOREM NothingIsSkipped ==
  ASSUME Disciplined
  PROVE  Spec => []NothingSkipped
<1>1. OrderInv => NothingSkipped
  BY DEF OrderInv, TrackInv, DoneInv, Done, NothingSkipped
<1>2. OrderInv /\ [Next]_vars => OrderInv'
  BY OrderStep
<1>3. QED
  BY InitOrder, <1>1, <1>2, PTL DEF Spec

\* An edge leaves edge_states only when the robot has reached the node behind it, or
\* took the order up beyond it.
THEOREM EdgesAreHeld ==
  ASSUME Disciplined
  PROVE  Spec => EdgeHeldUntilPassed
<1> DEFINE Held == \A e \in edges \ edges' :
                     \/ orderId' = NoOrder \/ IsOrderFinished
                     \/ e + 1 \in visited' \/ e < baseline
                     \/ lateRestart
<1>1. OrderInv /\ [Next]_vars => Held
  <2> SUFFICES ASSUME OrderInv, [Next]_vars, ~lateRestart, orderId' # NoOrder,
                      ~IsOrderFinished, NEW e \in edges, e \notin edges'
               PROVE  e + 1 \in visited' \/ e < baseline
    OBVIOUS
  <2>1. /\ IsOrderActive /\ Tracked /\ MessageInv /\ AheadInv
        /\ TaskInv /\ ReadyOK /\ OrderOK
    BY DEF OrderInv, TrackInv, TaskInv, TypeInv, TypeOK, HeldInv, IsOrderActive
  <2>2. e \in Nat /\ baseline \in Nat \cup {-1}
    BY <2>1, SeqNumbers DEF OrderOK, None
  <2>3. CASE HandleOrder
    <3>1. /\ Head(ready).kind = "order" /\ Head(ready) \in OrderMessage
          /\ Len(ready) \in Nat /\ 1 \in 1..Len(ready) /\ Head(ready) = ready[1]
      BY <2>1, <2>3, HeadOfReady DEF HandleOrder, IsNext, ReadyOK
    <3>2. Fits(ready[1])
      BY <2>1, <3>1 DEF MessageInv
    <3>3. PICK m \in OrderMessage : m = Head(ready) /\ Fits(m)
      BY <3>1, <3>2
    <3>4. m.id = orderId /\ UpdateOrder(m)
      BY <2>1, <2>3, <3>3 DEF HandleOrder, IsOrderActive, stateVars
    <3>5. Done(e + 1)
      BY <2>1, <3>3, <3>4, UpdateTracks
    <3>6. visited' = visited
      BY <3>4 DEF UpdateOrder, MergeOrder
    <3>7. QED
      BY <2>2, <3>5, <3>6 DEF Done
  <2>4. ASSUME NEW t \in Tasks, Arrive(t) PROVE e + 1 \in visited' \/ e < baseline
    <3>1. Done(e + 1)'
      BY <2>1, <2>4, ArriveTracks
    <3>2. baseline' = baseline
      BY <2>4 DEF Arrive, orderVars
    <3>3. QED
      BY <2>2, <3>1, <3>2 DEF Done
  <2>5. CASE CrashDrop \/ CancelEnd
    BY <2>5 DEF CrashDrop, CancelEnd, ClearOrderState, stateVars
  <2>6. ASSUME NEW t \in Tasks, ClearStep(t) PROVE FALSE
    BY <2>6 DEF ClearStep
  <2>7. QED
    BY <2>3, <2>4, <2>5, <2>6, FrameChanges, FrameStays DEF frameVars
<1>2. OrderInv /\ [Next]_vars => OrderInv'
  BY OrderStep
<1>3. OrderInv /\ [Next]_vars => [Held]_vars
  BY <1>1
<1>4. QED
  BY InitOrder, <1>2, <1>3, PTL DEF Spec, EdgeHeldUntilPassed

-----------------------------------------------------------------------------
(* A queue with steps in it has a worker *)

\* Only the action a callback belongs to takes it from the head of the queue.
Takes(kind) ==
  \/ kind = "order" /\ HandleOrder
  \/ kind = "cancel" /\ HandleCancel
  \/ kind = "cancelling" /\ CancelBegin
  \/ kind = "crash" /\ CrashDrop
  \/ kind = "done" /\ PostRestart
  \/ kind = "restart" /\ Restart
  \/ kind = "start" /\ \E t \in Tasks : WorkerStart(t) \/ StartCancelled(t)

\* Only HandleOrder and Restart queue the start of a worker, and only a worker that
\* raises queues its done callback.
Puts(kind) ==
  /\ kind = "start" => HandleOrder \/ Restart
  /\ kind = "crash" => \E t \in Tasks : Crash(t)

HeadMove ==
  \E taken, x : /\ QueueMove(taken, x)
                /\ taken = 1 => Takes(Head(ready).kind)
                /\ Puts(x.kind)

\* Every step takes from the head of the queue only what it handles.
LEMMA NextTakesItsOwn ==
  ASSUME TypeInv, [Next]_vars
  PROVE  HeadMove
<1>0. TaskOK /\ ReadyOK /\ OrderOK
  BY DEF TypeInv, TypeOK
<1>a. ASSUME NEW taken, NEW x, QueueMove(taken, x), x.kind \notin {"start", "crash"},
             taken = 1 => Takes(Head(ready).kind)
      PROVE  HeadMove
  BY <1>a DEF HeadMove, Puts
<1>b. Other.kind \notin {"start", "crash"}
  BY DEF Other
<1>c. ASSUME NEW k \in {"done", "restart", "cancelling"}
      PROVE  [kind |-> k].kind \notin {"start", "crash"} /\ [kind |-> k] \in Message \cup Callback
  BY Callbacks
<1>1. ASSUME NEW rest, NEW taken, Rest(rest, taken), ready' = rest,
             taken = 1 => Takes(Head(ready).kind)
      PROVE  HeadMove
  BY <1>0, <1>1, <1>a, <1>b, TakenIsMove
<1>2. ASSUME NEW t \in Tasks, NEW rest, NEW taken, Rest(rest, taken), EndTask(t, rest),
             taken = 1 => Takes(Head(ready).kind)
      PROVE  HeadMove
  BY <1>0, <1>2, <1>a, <1>b, EndIsMove
<1>3. ASSUME NEW x, x.kind \notin {"start", "crash"}, x \in Message \cup Callback, NEW rest,
             NEW taken, Rest(rest, taken), ready' = Append(rest, x),
             taken = 1 => Takes(Head(ready).kind)
      PROVE  HeadMove
  BY <1>0, <1>3, <1>a, AppendIsMove
<1>4. /\ Rest(ready, 0) /\ 0 # 1 /\ (ready # <<>> => Rest(Tail(ready), 1))
  BY DEF Rest
<1>5. CASE Fleet
  <2>1. ASSUME NEW m \in OrderMessage, ReceiveOrder(m) PROVE HeadMove
    <3>1. m \in Message /\ ready' = Append(ready, m) /\ m.kind = "order"
      BY <2>1 DEF ReceiveOrder, Message, OrderMessage
    <3>2. QED
      BY <1>3, <1>4, <3>1
  <2>2. CASE ReceiveCancel
    <3>1. /\ [kind |-> "cancel", id |-> orderId].kind \notin {"start", "crash"}
          /\ [kind |-> "cancel", id |-> orderId] \in Message
      BY <1>0 DEF Message, CancelMessage, OrderOK
    <3>2. QED
      BY <1>3, <1>4, <2>2, <3>1 DEF ReceiveCancel
  <2>3. ASSUME NEW p, MoveByHand(p) PROVE HeadMove
    BY <1>1, <1>4, <2>3 DEF MoveByHand
  <2>4. QED
    BY <1>5, <2>1, <2>2, <2>3 DEF Fleet
<1>6. CASE HandleOrder \/ Restart
  <2>1. ready # <<>> /\ Takes(Head(ready).kind)
    BY <1>6 DEF HandleOrder, Restart, IsNext, Takes
  <2>2. PICK x : QueueMove(1, x) /\ x.kind \in {"start", "done"}
    BY <1>0, <1>4, <1>6, <2>1, HandleTakes, StartTaskQueue DEF Restart
  <2>3. Puts(x.kind)
    BY <1>6, <2>2 DEF Puts
  <2>4. QED
    BY <2>1, <2>2, <2>3 DEF HeadMove
<1>7. CASE PostRestart \/ HandleCancel
  <2>1. ready # <<>> /\ Takes(Head(ready).kind)
    BY <1>7 DEF PostRestart, HandleCancel, IsNext, Takes
  <2>2. QED
    BY <1>3, <1>4, <1>7, <1>c, <2>1 DEF PostRestart, HandleCancel
<1>8. CASE CancelBegin \/ CrashDrop
  <2>1. ready # <<>> /\ Takes(Head(ready).kind) /\ ready' = Tail(ready)
    BY <1>8 DEF CancelBegin, CrashDrop, IsNext, Takes
  <2>2. QED
    BY <1>1, <1>4, <2>1
<1>9. CASE CancelBackgroundEnded \/ CancelEnd \/ EndStray \/ (\E p \in Places : ReportPose(p))
           \/ \E s \in Seqs : EndBackground(s)
  BY <1>1, <1>4, <1>9 DEF CancelBackgroundEnded, CancelEnd, EndStray, ReportPose, EndBackground
<1>10. ASSUME NEW t \in Tasks, WorkerSync(t) PROVE HeadMove
  BY <1>1, <1>2, <1>4, <1>10 DEF WorkerSync, TakeStep, WorkerDone, BeginStep, Requeue,
                                DispatchActions, ClearStep
<1>11. ASSUME NEW t \in Tasks, WorkerAwaits(t) \/ WorkerWorks(t) PROVE HeadMove
  <2>1. CASE WorkerStart(t) \/ StartCancelled(t)
    <3>1. ready # <<>> /\ Takes(Head(ready).kind)
      BY <2>1 DEF WorkerStart, StartCancelled, IsNext, Takes
    <3>2. QED
      BY <1>1, <1>2, <1>4, <2>1, <3>1 DEF WorkerStart, StartCancelled
  <2>2. QED
    BY <1>1, <1>2, <1>4, <1>11, <2>1 DEF WorkerAwaits, WorkerWorks, Arrive, DriveFails, Requeue,
           StopVehicle, EndAction, EndTick, Cancelled
<1>12. ASSUME NEW t \in Tasks, Crash(t) PROVE HeadMove
  <2>1. QueueMove(0, [kind |-> "crash"])
    BY <1>0, <1>12, CrashIsMove DEF Crash
  <2>2. Puts("crash")
    BY <1>12 DEF Puts
  <2>3. QED
    BY <1>4, <2>1, <2>2 DEF HeadMove
<1>13. CASE UNCHANGED vars
  BY <1>1, <1>4, <1>13 DEF vars
<1>14. QED
  BY <1>5, <1>6, <1>7, <1>8, <1>9, <1>10, <1>11, <1>12, <1>13 DEF Next, Loop

\* So a callback stays in the queue until its own action takes it.
LEMMA StaysQueued ==
  ASSUME TypeInv, [Next]_vars, NEW kind, Has(kind), ~Takes(kind)
  PROVE  Has(kind)'
<1>0. ReadyOK
  BY DEF TypeInv, TypeOK
<1>1. PICK taken, x : QueueMove(taken, x) /\ (taken = 1 => Takes(Head(ready).kind))
  BY NextTakesItsOwn DEF HeadMove
<1>2. taken = 1 => Head(ready).kind # kind
  BY <1>1
<1>3. QED
  BY <1>0, <1>1, <1>2, MoveStays

\* A worker that has not run yet has its first step queued.  A first step behind an
\* order is that of a worker restarted for an order in progress, with no crash to be
\* handled: it can only be an update that is handled before.
FirstStepInv ==
  /\ \A t \in Tasks : pc[t] = "ready" => Has("start")
  /\ \A i, j \in 1..Len(ready) :
       ready[i].kind = "order" /\ ready[j].kind = "start" /\ i < j
         => IsOrderActive /\ ~Has("crash")

\* A worker that becomes ready was made by StartTask, its first step queued last.
LEMMA NewlyReady ==
  ASSUME TypeInv, [Next]_vars, NEW t \in Tasks, pc[t] # "ready", pc'[t] = "ready"
  PROVE  Has("start")'
<1>0. TaskOK /\ ReadyOK
  BY DEF TypeInv, TypeOK
<1>1. ASSUME NEW cs, NEW last, NEW canc, ready # <<>>, StartTask(cs, last, canc, Tail(ready))
      PROVE  Has("start")'
  <2>1. PICK u \in Tasks : ready' = Append(Tail(ready), [kind |-> "start", task |-> u])
    BY <1>1 DEF StartTask
  <2>2. Tail(ready) \in Seq(Message \cup Callback) /\ [kind |-> "start", task |-> u] \in Callback
    BY <1>0, <1>1, HeadOfReady, Callbacks
  <2>3. /\ Len(ready') \in 1..Len(ready')
        /\ ready'[Len(ready')] = [kind |-> "start", task |-> u]
    BY <2>1, <2>2
  <2>4. QED
    BY <2>3 DEF Has
<1>2. ASSUME NEW u \in Tasks, NEW label \in Labels \ {"ready"}, GoTo(u, label) PROVE FALSE
  BY <1>0, <1>2 DEF GoTo, TaskOK
<1>3. ASSUME NEW u \in Tasks, NEW rest, EndTask(u, rest) PROVE FALSE
  BY <1>0, <1>3 DEF EndTask, TaskOK
<1>4. CASE UNCHANGED pc
  BY <1>4
<1>5. CASE HandleOrder \/ Restart
  BY <1>1, <1>4, <1>5 DEF HandleOrder, AcceptOrder, UpdateOrder, Restart, IsNext, taskVars
<1>6. ASSUME NEW u \in Tasks, WorkerSync(u) PROVE FALSE
  BY <1>2, <1>3, <1>6 DEF WorkerSync, TakeStep, WorkerDone, BeginStep, Requeue, DispatchActions,
                         ClearStep, Labels
<1>7. ASSUME NEW u \in Tasks, WorkerAwaits(u) \/ WorkerWorks(u) PROVE FALSE
  BY <1>2, <1>3, <1>7 DEF WorkerAwaits, WorkerWorks, WorkerStart, Arrive, DriveFails, Requeue,
       StopVehicle, EndAction, EndTick, Cancelled, StartCancelled, Labels
<1>8. ASSUME NEW u \in Tasks, Crash(u) PROVE FALSE
  BY <1>3, <1>8 DEF Crash
<1>9. CASE \/ Fleet \/ PostRestart \/ CrashDrop \/ EndStray \/ (\E p \in Places : ReportPose(p))
           \/ HandleCancel \/ CancelBegin
           \/ CancelBackgroundEnded \/ CancelEnd \/ \E s \in Seqs : EndBackground(s)
           \/ UNCHANGED vars
  BY <1>4, <1>9 DEF Fleet, ReceiveOrder, ReceiveCancel, MoveByHand, PostRestart, CrashDrop,
        EndStray, ReportPose, HandleCancel, CancelBegin, CancelBackgroundEnded, CancelEnd,
        EndBackground, vars, taskVars
<1>10. QED
  BY <1>5, <1>6, <1>7, <1>8, <1>9 DEF Next, Loop

\* While a worker waits for its first step, nobody else can act for the order.
LEMMA ReadyAlone ==
  ASSUME TaskInv, NEW t \in Tasks, pc[t] = "ready", NEW u \in Tasks, Alive(u)
  PROVE  pc[u] = "ready"
BY DEF TaskInv, WorkerInv, SingleWorker, Alive

\* Every step keeps it: the first step of a new task is put ahead of later messages.
LEMMA FirstStepStep ==
  ASSUME OrderInv, TypeInv', ~lateRestart', FirstStepInv, [Next]_vars
  PROVE  FirstStepInv'
<1>0. /\ TaskInv /\ TypeInv /\ TaskOK /\ ReadyOK /\ ReadyOK' /\ Len(ready) \in Nat
      /\ Once("order")
      /\ \A i \in 1..Len(ready) : ready[i].kind = "start" =>
           ready[i].task \in Tasks /\ pc[ready[i].task] = "ready"
  <2>1. \A i \in 1..Len(ready) : ready[i] \in Message \cup Callback
    BY DEF OrderInv, TaskInv, TypeInv, TypeOK, ReadyOK
  <2>2. QED
    BY <2>1 DEF OrderInv, TaskInv, TypeInv, TypeOK, ReadyOK, StartInv, Message, OrderMessage,
                CancelMessage, Callback
<1>1. ASSUME NEW t \in Tasks, pc'[t] = "ready" PROVE Has("start")'
  <2>1. CASE pc[t] # "ready"
    BY <1>0, <1>1, <2>1, NewlyReady
  <2>2. CASE pc[t] = "ready"
    <3>1. ASSUME NEW u \in Tasks, WorkerStart(u) \/ StartCancelled(u) PROVE FALSE
      <4>1. pc[u] = "ready" /\ pc'[u] # "ready"
        BY <1>0, <3>1 DEF WorkerStart, StartCancelled, GoTo, EndTask, TaskOK
      <4>2. u = t
        BY <1>0, <2>2, <4>1 DEF TaskInv, WorkerInv, SingleWorker, Alive
      <4>3. QED
        BY <1>1, <4>1, <4>2
    <3>2. ~Takes("start")
      BY <3>1 DEF Takes
    <3>3. QED
      BY <1>0, <2>2, <3>2, StaysQueued DEF FirstStepInv
  <2>3. QED
    BY <2>1, <2>2
<1>2. ASSUME NEW i \in 1..Len(ready'), NEW j \in 1..Len(ready'), i < j,
             ready'[i].kind = "order", ready'[j].kind = "start"
      PROVE  IsOrderActive' /\ ~Has("crash")'
  <2>1. PICK taken, x : /\ QueueMove(taken, x)
                        /\ taken = 1 => Takes(Head(ready).kind)
                        /\ Puts(x.kind)
    BY <1>0, NextTakesItsOwn DEF HeadMove
  <2>2. ~HandleOrder
    <3> SUFFICES ASSUME HandleOrder PROVE FALSE
      OBVIOUS
    <3>1. PICK y : QueueMove(1, y) /\ y.kind \in {"start", "done"}
      BY <1>0, HandleTakes
    <3>2. ~Has("order")'
      BY <1>0, <3>1, TakenIsGone DEF HandleOrder, IsNext
    <3>3. QED
      BY <1>2, <3>2 DEF Has
  <2>3. /\ i + taken \in 1..Len(ready) /\ ready[i + taken].kind = "order"
        /\ \/ j + taken \in 1..Len(ready) /\ ready[j + taken].kind = "start"
           \/ x.kind = "start"
    <3>1. i \in Nat /\ j \in Nat /\ taken \in {0, 1}
      BY <2>1 DEF QueueMove
    <3>2. \/ i + taken \in 1..Len(ready) /\ ready'[i] = ready[i + taken]
          \/ i + taken = Len(ready) + 1 /\ ready'[i] = x
      BY <1>2, <2>1 DEF QueueMove
    <3>3. \/ j + taken \in 1..Len(ready) /\ ready'[j] = ready[j + taken]
          \/ j + taken = Len(ready) + 1 /\ ready'[j] = x
      BY <1>2, <2>1 DEF QueueMove
    <3>4. i + taken < j + taken
      BY <1>2, <3>1
    <3>5. i + taken # Len(ready) + 1
      BY <1>0, <3>1, <3>3, <3>4
    <3>6. QED
      BY <1>2, <3>2, <3>3, <3>5
  <2>4. CASE x.kind = "start"
    <3>1. Restart /\ ~IsLate
      BY <1>0, <2>1, <2>2, <2>4, NotLate DEF Puts
    <3>2. UNCHANGED <<orderId, nodes, edges>>
      BY <3>1 DEF Restart, orderVars, stateVars
    <3>3. CASE ~Alive(worker)
      <4>1. IsOrderActive /\ ~Has("crash")
        BY <3>1, <3>3 DEF IsLate, Has
      <4>2. ~Has("crash")'
        BY <1>0, <2>1, <2>4, <4>1, MoveHas
      <4>3. QED
        BY <3>2, <4>1, <4>2 DEF IsOrderActive, IsOrderFinished
    <3>4. CASE Alive(worker)
      <4>1. ready' = Tail(ready) /\ ready # <<>> /\ Head(ready).kind = "restart"
        BY <3>1, <3>4 DEF Restart, StartTask, IsNext
      <4>2. /\ i \in Nat /\ j \in Nat /\ Len(ready') = Len(ready) - 1
            /\ ready'[i] = ready[i + 1] /\ ready'[j] = ready[j + 1]
        BY <1>0, <4>1 DEF ReadyOK
      <4>3. i + 1 \in 1..Len(ready) /\ j + 1 \in 1..Len(ready) /\ i + 1 < j + 1
        BY <1>0, <1>2, <4>2
      <4>4. IsOrderActive /\ ~Has("crash")
        BY <1>2, <4>2, <4>3 DEF FirstStepInv
      <4>5. ~Has("crash")'
        BY <1>0, <2>1, <2>4, <4>4, MoveHas
      <4>6. QED
        BY <3>2, <4>4, <4>5 DEF IsOrderActive, IsOrderFinished
    <3>5. QED
      BY <3>3, <3>4
  <2>5. CASE j + taken \in 1..Len(ready) /\ ready[j + taken].kind = "start"
    <3>1. i + taken < j + taken
      BY <1>2, <2>1 DEF QueueMove
    <3>2. IsOrderActive /\ ~Has("crash")
      BY <2>3, <2>5, <3>1 DEF FirstStepInv
    <3>3. PICK t \in Tasks : pc[t] = "ready"
      BY <1>0, <2>5
    <3>4. ASSUME NEW u \in Tasks, Arrive(u) \/ ClearStep(u) \/ Crash(u) PROVE FALSE
      <4>1. Alive(u) /\ pc[u] # "ready"
        BY <3>4 DEF Arrive, ClearStep, Crash, Alive
      <4>2. QED
        BY <1>0, <3>3, <4>1, ReadyAlone
    <3>5. ~CrashDrop /\ ~CancelEnd
      <4>1. Has("order")
        BY <2>3 DEF Has
      <4>2. cancelPc # "stopping"
        BY <1>0, <4>1 DEF TaskInv, CancelInv
      <4>3. CrashDrop => Has("crash")
        BY <1>0 DEF CrashDrop, IsNext, Has, ReadyOK
      <4>4. QED
        BY <3>2, <4>2, <4>3 DEF CancelEnd
    <3>6. UNCHANGED <<orderId, nodes, edges>>
      BY <2>2, <3>4, <3>5, FrameChanges, FrameStays DEF frameVars
    <3>7. x.kind # "crash"
      BY <2>1, <3>4 DEF Puts
    <3>8. ~Has("crash")'
      BY <1>0, <2>1, <3>2, <3>7, MoveHas
    <3>9. QED
      BY <3>2, <3>6, <3>8 DEF IsOrderActive, IsOrderFinished
  <2>6. QED
    BY <2>3, <2>4, <2>5
<1>3. QED
  BY <1>1, <1>2 DEF FirstStepInv

\* A callback that calls a task to end is attached to it, unless cancelOrder did.
FollowedInv == \A t \in cancelling : waiters[t] > 0 \/ cancelPc \in {"background", "stopping"}

ServedInv == ~lateRestart => QueueHasWorker /\ FirstStepInv /\ FollowedInv

\* When the order is done with, so is the worker: one that holds a step has nodes to
\* do, and one that has not run yet runs before the next order is handled.
LEMMA AcceptAlone ==
  ASSUME TaskInv, ~lateRestart, FirstStepInv, AheadInv, May = {}, HandleOrder, ~IsOrderActive
  PROVE  ~Alive(worker)
<1> SUFFICES ASSUME Alive(worker) PROVE FALSE
  OBVIOUS
<1>0. /\ worker \in Tasks /\ ReadyOK /\ Len(ready) \in Nat
      /\ pc[worker] \notin Sync /\ Serving(worker)
  <2>1. cancelling = {} /\ LoopFree
    BY DEF HandleOrder, CancelsDelivered
  <2>2. QED
    BY <2>1 DEF TaskInv, TypeInv, TypeOK, TaskOK, ReadyOK, LoopFree, Serving
<1>1. CASE pc[worker] = "ready"
  <2>1. PICK j \in 1..Len(ready) : ready[j].kind = "start"
    BY <1>0, <1>1 DEF FirstStepInv, Has
  <2>2. ready[1].kind = "order" /\ 1 \in 1..Len(ready)
    BY <1>0 DEF HandleOrder, IsNext, ReadyOK
  <2>3. j # 1
    BY <2>1, <2>2
  <2>4. 1 < j
    BY <1>0, <2>3
  <2>5. QED
    BY <2>1, <2>2, <2>4 DEF FirstStepInv
<1>2. CASE pc[worker] # "ready"
  <2>1. Holding(worker)
    BY <1>0, <1>2 DEF Holding, Serving, Alive, Sync
  <2>2. nodes # {}
    BY <1>0, <2>1 DEF AheadInv
  <2>3. orderId = NoOrder
    BY <2>2 DEF IsOrderActive, IsOrderFinished
  <2>4. QED
    BY <2>2, <2>3 DEF TaskInv, HeldInv
<1>3. QED
  BY <1>1, <1>2

\* Every step keeps it: whoever cancels a worker looks at the queue afterwards.
LEMMA FollowedStep ==
  ASSUME TaskInv, ~lateRestart, FirstStepInv, AheadInv, FollowedInv, May = {}, [Next]_vars
  PROVE  FollowedInv'
<1>0. TaskOK /\ WorkerInv
  BY DEF TaskInv, TypeInv, TypeOK
<1> USE DEF taskVars, cancelVars
<1>1. CASE UNCHANGED <<cancelling, waiters, cancelPc>>
  BY <1>1 DEF FollowedInv
<1>2. ASSUME NEW cs, NEW last, NEW rest, StartTask(cs, last, cancelling, rest), UNCHANGED cancelPc
      PROVE  FollowedInv'
  <2>1. \A t \in Tasks : waiters[t] \in Nat
    BY <1>0 DEF TaskOK
  <2>2. CASE Alive(worker) /\ IsObsolete(cs, last)
    <3>1. /\ cancelling' = cancelling \cup {worker}
          /\ waiters' = [waiters EXCEPT ![worker] = @ + 1]
      BY <1>2, <2>2 DEF StartTask
    <3>2. \A t \in Tasks : waiters'[t] = IF t = worker THEN waiters[t] + 1 ELSE waiters[t]
      BY <1>0, <3>1 DEF TaskOK
    <3>3. worker \in Tasks /\ cancelling \subseteq Tasks
      BY <1>0 DEF TaskOK
    <3>4. ASSUME NEW t \in cancelling \cup {worker}
          PROVE  waiters'[t] > 0 \/ cancelPc \in {"background", "stopping"}
      <4>1. CASE t = worker
        BY <2>1, <3>2, <3>3, <4>1
      <4>2. CASE t # worker
        BY <3>2, <3>3, <4>2 DEF FollowedInv
      <4>3. QED
        BY <4>1, <4>2
    <3>5. QED
      BY <1>2, <3>1, <3>4 DEF FollowedInv
  <2>3. CASE ~(Alive(worker) /\ IsObsolete(cs, last))
    <3>1. UNCHANGED <<cancelling, waiters>>
      BY <1>2, <2>3 DEF StartTask
    <3>2. QED
      BY <1>1, <1>2, <3>1
  <2>4. QED
    BY <2>2, <2>3
<1>3. ASSUME NEW t \in Tasks, NEW rest, EndTask(t, rest), UNCHANGED cancelPc PROVE FollowedInv'
  BY <1>0, <1>3 DEF EndTask, TaskOK, FollowedInv
<1>4. CASE HandleOrder
  <2>1. ASSUME NEW m, AcceptOrder(m), ~IsOrderActive PROVE FollowedInv'
    <3>1. ~Alive(worker)
      BY <1>4, <2>1, AcceptAlone
    <3>2. UNCHANGED cancelPc
      BY <1>4 DEF HandleOrder
    <3>3. QED
      BY <1>2, <2>1, <3>1, <3>2 DEF AcceptOrder
  <2>2. ASSUME NEW m, UpdateOrder(m) PROVE FollowedInv'
    <3>1. UNCHANGED cancelPc
      BY <1>4 DEF HandleOrder
    <3>2. QED
      BY <1>2, <2>2, <3>1 DEF UpdateOrder
  <2>3. QED
    BY <1>1, <1>4, <2>1, <2>2 DEF HandleOrder, IsOrderActive
<1>5. CASE Restart
  BY <1>2, <1>5 DEF Restart
<1>6. CASE CancelBegin
  BY <1>6 DEF CancelBegin, FollowedInv
<1>7. CASE CancelBackgroundEnded
  BY <1>7 DEF CancelBackgroundEnded, FollowedInv
<1>8. CASE CancelEnd
  <2>1. cancelling' = {}
    BY <1>8 DEF CancelEnd, CancelsDelivered
  <2>2. QED
    BY <2>1 DEF FollowedInv
<1>9. CASE HandleCancel
  <2>1. cancelPc = "idle"
    <3>1. Has("cancel")
      BY <1>9 DEF HandleCancel, IsNext, Has, TaskInv, TypeInv, TypeOK, ReadyOK
    <3>2. QED
      BY <3>1 DEF TaskInv, CancelInv
  <2>2. QED
    BY <1>9, <2>1 DEF HandleCancel, FollowedInv
<1>10. CASE \/ Fleet \/ PostRestart \/ CrashDrop \/ EndStray \/ (\E p \in Places : ReportPose(p))
            \/ \E s \in Seqs : EndBackground(s)
            \/ UNCHANGED vars
  BY <1>1, <1>10 DEF Fleet, ReceiveOrder, ReceiveCancel, MoveByHand, PostRestart, CrashDrop,
                     EndStray, ReportPose, EndBackground, vars
<1>11. ASSUME NEW t \in Tasks, WorkerSync(t) PROVE FollowedInv'
  BY <1>1, <1>3, <1>11 DEF WorkerSync, TakeStep, WorkerDone, BeginStep, Requeue,
                           DispatchActions, ClearStep, GoTo
<1>12. ASSUME NEW t \in Tasks, WorkerAwaits(t) \/ WorkerWorks(t) \/ Crash(t) PROVE FollowedInv'
  BY <1>1, <1>3, <1>12 DEF WorkerAwaits, WorkerWorks, WorkerStart, Arrive, DriveFails, Requeue,
       StopVehicle, EndAction, EndTick, Cancelled, StartCancelled, Crash, GoTo
<1>13. QED
  BY <1>4, <1>5, <1>6, <1>7, <1>8, <1>9, <1>10, <1>11, <1>12 DEF Next, Loop

\* What stands for a worker that will be started, or for an order that is dropped.
Expected == Has("done") \/ Has("restart") \/ Has("crash")

\* Nobody takes the last worker or callback away while the queue is filled.
LEMMA QueueServed ==
  ASSUME TaskInv, ~lateRestart, QueueHasWorker, FollowedInv, [Next]_vars, queue' # {},
         cancelPc' = "idle", requeued' = <<>>, TypeInv', HeldInv'
  PROVE  (\E t \in Tasks : Alive(t)') \/ Expected'
<1>0. TaskOK /\ ReadyOK /\ TypeInv
  BY DEF TaskInv, TypeInv, TypeOK
<1> USE DEF taskVars, cancelVars, queueVars
\* Nobody takes the last worker or callback away.
<1>1. ASSUME UNCHANGED <<queue, requeued, cancelPc>>, ~PostRestart, ~Restart, ~CrashDrop,
             (\E t \in Tasks : Alive(t)) => \E t \in Tasks : Alive(t)'
      PROVE  (\E t \in Tasks : Alive(t)') \/ Expected'
  <2>1. ~Takes("done") /\ ~Takes("restart") /\ ~Takes("crash")
    BY <1>1 DEF Takes
  <2>2. Expected => Expected'
    BY <1>0, <2>1, StaysQueued DEF Expected
  <2>3. (\E t \in Tasks : Alive(t)) \/ Expected
    BY <1>1 DEF QueueHasWorker, Expected, Has
  <2>4. QED
    BY <1>1, <2>2, <2>3
\* StartTask leaves a worker.
<1>2. ASSUME NEW cs, NEW last, NEW canc, NEW rest, StartTask(cs, last, canc, rest)
      PROVE  \E t \in Tasks : Alive(t)'
  BY <1>0, <1>2 DEF StartTask, TaskOK, Alive
<1>3. ASSUME NEW t \in Tasks, NEW label \in Labels \ {"idle"}, GoTo(t, label)
      PROVE  \E u \in Tasks : Alive(u)'
  BY <1>0, <1>3 DEF GoTo, TaskOK, Alive
<1>4. CASE PostRestart
  <2>1. ready' = Append(Tail(ready), [kind |-> "restart"]) /\ ready # <<>>
    BY <1>4 DEF PostRestart, IsNext
  <2>2. ready'[Len(ready')] = [kind |-> "restart"] /\ Len(ready') \in 1..Len(ready')
    BY <1>0, <2>1, HeadOfReady, Callbacks
  <2>3. Has("restart")'
    BY <2>2 DEF Has
  <2>4. QED
    BY <2>3 DEF Expected
<1>5. CASE Restart
  BY <1>2, <1>5 DEF Restart
<1>6. CASE CrashDrop \/ CancelBackgroundEnded
  BY <1>6 DEF CrashDrop, CancelBackgroundEnded, ClearQueue
<1>7. CASE CancelEnd
  BY <1>7 DEF CancelEnd, TaskInv, HeldInv, NoSteps
<1>8. CASE CancelBegin \/ HandleCancel
  BY <1>8 DEF CancelBegin, HandleCancel
<1>9. CASE HandleOrder
  <2>1. ASSUME NEW m, AcceptOrder(m) \/ UpdateOrder(m) PROVE \E t \in Tasks : Alive(t)'
    BY <1>2, <2>1 DEF AcceptOrder, UpdateOrder
  <2>2. CASE PostRestart \/ Restart \/ CrashDrop
    BY <1>4, <1>5, <1>6, <2>2
  <2>3. QED
    BY <1>1, <1>9, <2>1, <2>2 DEF HandleOrder, Alive
<1>10. CASE Fleet \/ EndStray \/ (\E p \in Places : ReportPose(p))
            \/ (\E s \in Seqs : EndBackground(s)) \/ UNCHANGED vars
  <2>1. UNCHANGED <<queue, requeued, cancelPc, pc>>
    BY <1>10 DEF Fleet, ReceiveOrder, ReceiveCancel, MoveByHand, EndStray, ReportPose,
         EndBackground, vars
  <2>2. QED
    BY <1>1, <1>4, <1>5, <1>6, <2>1 DEF Alive
<1>11. ASSUME NEW t \in Tasks, WorkerSync(t) PROVE \E u \in Tasks : Alive(u)'
  <2>1. CASE TakeStep(t) \/ DispatchActions(t) \/ ClearStep(t)
    BY <1>3, <2>1 DEF TakeStep, DispatchActions, ClearStep, Labels
  <2>2. CASE WorkerDone(t)
    BY <2>2 DEF WorkerDone
  <2>3. CASE BeginStep(t)
    BY <1>0, <1>3, <2>3 DEF BeginStep, Requeue, Labels, TypeInv, TypeOK, StepOK
  <2>4. QED
    BY <1>11, <2>1, <2>2, <2>3 DEF WorkerSync
<1>12. ASSUME NEW t \in Tasks, WorkerAwaits(t) \/ WorkerWorks(t)
       PROVE (\E u \in Tasks : Alive(u)') \/ Expected'
  <2>1. CASE WorkerStart(t) \/ Arrive(t) \/ EndAction(t) \/ EndTick(t)
    BY <1>3, <2>1 DEF WorkerStart, Arrive, EndAction, EndTick, Labels
  <2>2. CASE DriveFails(t) \/ StopVehicle(t)
    BY <1>0, <1>3, <2>2 DEF DriveFails, StopVehicle, Requeue, Labels, TypeInv, TypeOK, StepOK
  <2>3. CASE Cancelled(t) \/ StartCancelled(t)
    <3>1. waiters[t] > 0 /\ waiters[t] \in Nat
      BY <1>0, <2>3 DEF Cancelled, StartCancelled, FollowedInv, TaskOK
    <3>2. PICK rest \in Seq(Message \cup Callback) :
            ready' = rest \o [i \in 1..waiters[t] |-> [kind |-> "done"]]
      BY <1>0, <2>3, HeadOfReady DEF Cancelled, StartCancelled, EndTask, IsNext, ReadyOK
    <3>3. ready'[Len(rest) + 1] = [kind |-> "done"] /\ Len(rest) + 1 \in 1..Len(ready')
      <4> DEFINE done == [i \in 1..waiters[t] |-> [kind |-> "done"]]
      <4>1. /\ done \in Seq(Message \cup Callback) /\ Len(done) = waiters[t]
            /\ done[1] = [kind |-> "done"]
        BY <3>1, Callbacks
      <4> HIDE DEF done
      <4>2. Len(rest) \in Nat /\ Len(rest \o done) = Len(rest) + Len(done)
        BY <4>1
      <4>3. (rest \o done)[Len(rest) + 1] = done[1]
        BY <3>1, <4>1, <4>2
      <4>4. QED
        BY <3>1, <3>2, <4>1, <4>2, <4>3 DEF done
    <3>4. Has("done")'
      BY <3>3 DEF Has
    <3>5. QED
      BY <3>4 DEF Expected
  <2>4. QED
    BY <1>12, <2>1, <2>2, <2>3 DEF WorkerAwaits, WorkerWorks
<1>13. ASSUME NEW t \in Tasks, Crash(t) PROVE Expected'
  <2> DEFINE rest == Append(ready, [kind |-> "crash"])
  <2>1. /\ rest \in Seq(Message \cup Callback) /\ Len(rest) \in 1..Len(rest)
        /\ rest[Len(rest)] = [kind |-> "crash"]
    BY <1>0, Callbacks DEF ReadyOK
  <2>2. EndTask(t, rest)
    BY <1>13 DEF Crash
  <2> HIDE DEF rest
  <2>3. Len(rest) \in 1..Len(ready') /\ ready'[Len(rest)] = rest[Len(rest)]
    BY <1>0, <2>1, <2>2, DonesBehind
  <2>4. Has("crash")'
    BY <2>1, <2>3 DEF Has
  <2>5. QED
    BY <2>4 DEF Expected
<1>14. QED
  BY <1>4, <1>5, <1>6, <1>7, <1>8, <1>9, <1>10, <1>11, <1>12, <1>13 DEF Next, Loop

\* Every step keeps the invariant of the served queue.
LEMMA ServedStep ==
  ASSUME OrderInv, ServedInv, May = {}, Capture # "proximity", [Next]_vars
  PROVE  ServedInv'
<1> SUFFICES ASSUME ~lateRestart'
             PROVE  QueueHasWorker' /\ FirstStepInv' /\ FollowedInv'
  BY DEF ServedInv
<1>1. /\ TaskInv /\ TypeInv /\ Disciplined /\ ~lateRestart
      /\ QueueHasWorker /\ FirstStepInv /\ AheadInv /\ FollowedInv
  BY NotLate DEF OrderInv, TrackInv, TaskInv, ServedInv, Disciplined
<1>2. TypeInv' /\ HeldInv'
  BY <1>1, OrderStep DEF OrderInv, TaskInv
<1>3. FirstStepInv'
  BY <1>1, <1>2, FirstStepStep
<1>4. FollowedInv'
  BY <1>1, FollowedStep
<1>5. QueueHasWorker'
  BY <1>1, <1>2, QueueServed DEF QueueHasWorker, Expected, Has
<1>6. QED
  BY <1>3, <1>4, <1>5

\* An order with steps in its queue has a worker, unless a step failed, a crash or a
\* restart is being handled, the order is being cancelled, or a restart came too late:
\* for a fleet that keeps to the rules and actions that end when they are cancelled.
THEOREM QueueIsServed ==
  ASSUME May = {}, Capture # "proximity"
  PROVE  Spec => []QueueHasWorker
<1>1. Init => OrderInv /\ ServedInv
  <2> SUFFICES ASSUME Init PROVE ServedInv
    BY InitOrder
  <2>1. Len(ready) = 0 /\ queue = {} /\ cancelling = {} /\ \A t \in Tasks : pc[t] = "idle"
    BY DEF Init
  <2>2. QED
    BY <2>1 DEF ServedInv, QueueHasWorker, FirstStepInv, FollowedInv
<1>2. OrderInv /\ ServedInv /\ [Next]_vars => OrderInv' /\ ServedInv'
  BY OrderStep, ServedStep DEF Disciplined
<1>3. OrderInv /\ ServedInv => QueueHasWorker
  BY DEF OrderInv, TaskInv, TypeInv, TypeOK, ServedInv, QueueHasWorker
<1>4. QED
  BY <1>1, <1>2, <1>3, PTL DEF Spec

==============================================================================
