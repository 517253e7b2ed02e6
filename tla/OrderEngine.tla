------------------------------ MODULE OrderEngine ------------------------------
(***************************************************************************)
(* The VDA5050 order engine of adaptor/adapter_jibot.py: the intake of     *)
(* orders and order updates, the step queue, the order worker task, its    *)
(* cancellation and restart, its crash path, and cancelOrder.              *)
(*                                                                         *)
(* Two threads act.  The MQTT thread receives messages and posts callbacks *)
(* to the adapter's event loop.  The loop runs what is in its ready queue  *)
(* in order (messages, first steps of tasks, done callbacks), and resumes  *)
(* a task when what it awaits ends; a task gives way only where it awaits. *)
(* A worker whose program counter is in Sync is inside a stretch of code   *)
(* with no await: no other loop action is enabled until it leaves it.      *)
(*                                                                         *)
(* Data abstraction.  A node or an edge is its sequenceId (nodes are even, *)
(* edges odd); a route maps node sequenceIds to places; an item carries at *)
(* most one action, of blocking type "PAR" (NONE or SINGLE, scheduled in   *)
(* the background) or "STOP" (SOFT or HARD, awaited by the worker with the *)
(* vehicle stopped).  Lists of actions are the subject of ActionScheduler. *)
(* Driving to a node is one await that ends in arrival, failure or an      *)
(* exception.                                                              *)
(*                                                                         *)
(* Definitions whose name ends in Fault are the faults that the properties *)
(* are tried on: no action uses them.                                      *)
(*                                                                         *)
(* Bounds: MaxSeq, MaxUpdateId, MaxMessages (orders the fleet sends) and   *)
(* MaxCancels (cancelOrder actions it sends).                              *)
(***************************************************************************)
EXTENDS Integers, Sequences

CONSTANTS
  Orders,       \* orderIds
  NoOrder,      \* the empty orderId
  Places,       \* nodeIds
  NoPlace,      \* the empty nodeId
  MaxSeq,       \* the highest sequenceId
  Route,        \* Route[o][s]: the nodeId of node s in order o
  Blocking,     \* Blocking[s]: blocking type of the action of item s, or "none"
  Continuous,   \* path_control = "continuous"
  Capture,      \* last_node_capture_mode
  Seeding,      \* use_nearest_node_as_last_node_when_missing
  Tasks,        \* identities of asyncio tasks running the order queue
  MaxUpdateId, MaxMessages, MaxCancels,
  May           \* what the surroundings do besides the usual

Seqs == 0..MaxSeq
NodeSeqs == {s \in Seqs : s % 2 = 0}
EdgeSeqs == Seqs \ NodeSeqs
None == -1

\* Behaviours of the surroundings that the code meets in the field but that a
\* disciplined fleet manager avoids; a configuration allows a subset.
Liberties == {"startAnywhere",      \* a new order need not begin at the node the robot
                                    \* reports and stands at, nor wait for the end of the
                                    \* current one
              "irregularUpdate",    \* an update may add no node, start outside the
                                    \* released base or withdraw a release
              "blindSend",          \* a message is sent before the last one was handled
              "orderDuringCancel",  \* an order is sent while cancelOrder is RUNNING
              "orderDuringCrash",   \* or between the crash of a worker and its callback
              "moveByHand",         \* an idle robot is driven manually while an order is on
                                    \* its way to it
              "slowCleanup"}        \* an action handler awaits its cleanup when cancelled

ASSUME OrderEngineAssumption ==
  /\ NoOrder \notin Orders
  /\ NoPlace \notin Places
  /\ MaxSeq \in Nat
  /\ Route \in [Orders -> [NodeSeqs -> Places]]
  /\ Blocking \in [Seqs -> {"none", "PAR", "STOP"}]
  /\ Continuous \in BOOLEAN
  /\ Capture \in {"settled", "proximity", "disabled"} /\ Seeding \in BOOLEAN
  /\ MaxUpdateId \in Nat /\ MaxMessages \in Nat /\ MaxCancels \in Nat
  /\ May \subseteq Liberties

VARIABLES
  ready,        \* the ready queue of the event loop
  sent,         \* orders sent so far
  cancels,      \* cancelOrder actions sent so far
  orderId,      \* state.order_id
  updateId,     \* state.order_update_id
  order,        \* node sequenceIds of self.order, the last accepted message
  nodes,        \* state.node_states
  edges,        \* state.edge_states
  released,     \* items of the order whose released flag is set
  status,       \* state.action_states: the status of the action of each item
  dispatched,   \* _dispatched_order_action_ids
  lastId,       \* _last_node_id
  lastSeq,      \* _last_node_sequence_id
  pos,          \* the place the robot stands at, NoPlace between places
  queue,        \* order_queue as filled by a rebuild: taken in sequenceId order
  requeued,     \* steps put at the tail of order_queue afterwards
  currentStep,  \* current_order_step
  inFlight,     \* _order_action_step_in_flight
  runStep,      \* _coalescing_run_step
  worker,       \* order_worker_task
  pc,           \* where each worker task is
  step,         \* the step each worker task processes
  cancelling,   \* tasks on which cancel() was called and not yet delivered
  waiters,      \* restart callbacks attached to each task
  background,   \* items whose PAR action runs in the background
  stray,        \* a background task of an earlier order is still running
  cancelPc,     \* progress of the cancelOrder coroutine
  cancelId,     \* the orderId it captured when the message was received
  visited,      \* history: nodes reached while this order was current
  demanded,     \* history: nodes the fleet asked for in accepted messages
  baseline,     \* history: lastNodeSequenceId from which the order was taken up
  runs,         \* history: dispatches of each item's action in this order
  lateRestart   \* history: a restart of the worker has come too late

fleetVars == <<sent, cancels>>
orderVars == <<orderId, updateId, order, released, demanded, baseline>>
stateVars == <<nodes, edges>>
actionVars == <<status, dispatched, runs, background, stray>>
placeVars == <<lastId, lastSeq, pos>>
queueVars == <<queue, requeued>>
taskVars == <<worker, pc, step, cancelling, waiters>>
markVars == <<currentStep, inFlight, runStep>>
cancelVars == <<cancelPc, cancelId>>
vars == <<fleetVars, orderVars, stateVars, actionVars, placeVars, queueVars, taskVars,
          markVars, cancelVars, ready, visited, lateRestart>>

-----------------------------------------------------------------------------
(* Values *)

\* An OrderStep: the item (an item of order "of") and actions_only
Step == [of : Orders, seq : Seqs, only : BOOLEAN]
NoStep == [of |-> NoOrder, seq |-> None, only |-> FALSE]

OrderMessage == [kind : {"order"}, id : Orders, update : 0..MaxUpdateId,
                 first : NodeSeqs, last : NodeSeqs, base : NodeSeqs]
CancelMessage == [kind : {"cancel"}, id : Orders \cup {NoOrder}]
Message == OrderMessage \cup CancelMessage

\* What the ready queue holds besides messages: the first step of a worker
\* task, the done callback of a worker that raised, the done callback that
\* restarts an obsolete worker, the restart it posts, the first step of the
\* cancelOrder coroutine
Callback == [kind : {"start"}, task : Tasks]
            \cup [kind : {"crash", "done", "restart", "cancelling"}]

NodesOf(m) == {s \in NodeSeqs : m.first <= s /\ s <= m.last}
EdgesOf(m) == {s \in EdgeSeqs : m.first < s /\ s < m.last}
ItemsOf(m) == NodesOf(m) \cup EdgesOf(m)
ReleasedOf(m) == {s \in ItemsOf(m) : s <= m.base}

Sync == {"loop", "begin", "actions", "clear"}
LoopFree == \A t \in Tasks : pc[t] \notin Sync
IsNext(kind) == LoopFree /\ ready # <<>> /\ Head(ready).kind = kind
Alive(t) == pc[t] # "idle"

NoStatus == [s \in Seqs |-> "none"]
NoRuns == [s \in Seqs |-> 0]

\* _is_v3_order_finished
IsOrderFinished == nodes = {} /\ edges = {}

\* _is_v3_order_active
IsOrderActive == orderId # NoOrder /\ ~IsOrderFinished

\* Fault: a dispatched action counts as pending until its status changes
IsPendingFault(s, disp, st) == Blocking[s] # "none" /\ st[s] \in {"none", "WAITING"}

\* _order_action_is_pending: not dispatched, and waiting or not yet known
IsPending(s, disp, st) ==
  Blocking[s] # "none" /\ s \notin disp /\ st[s] \in {"none", "WAITING"}

LastNodeIn(ns, o, last) == last.seq \in ns /\ Route[o][last.seq] = last.id

\* _prune_v3_order_state_before_last_node, with the exception of
\* _is_start_node_with_pending_actions
PruneNodes(ns, o, last, disp, st) ==
  IF LastNodeIn(ns, o, last)
  THEN {s \in ns : s > last.seq \/ (s = last.seq /\ IsPending(s, disp, st))}
  ELSE ns
PruneEdges(ns, es, o, last) ==
  IF LastNodeIn(ns, o, last) THEN {e \in es : e > last.seq} ELSE es

\* _rebuild_v3_order_queue_from_state: the released prefix, without what lies
\* behind the last node; the start node only for the actions it still owes
StepsFor(ns, es, rel, o, last, disp, st) ==
  LET behind == {s \in ns \cup es : LastNodeIn(ns, o, last) /\ s <= last.seq}
      owed == {s \in behind \cap ns \cap rel : s = last.seq /\ IsPending(s, disp, st)}
      ahead == {s \in (ns \cup es) \ behind :
                  \A r \in (ns \cup es) \ behind : r <= s => r \in rel}
  IN  [of : {o}, seq : owed, only : {TRUE}] \cup [of : {o}, seq : ahead, only : {FALSE}]

-----------------------------------------------------------------------------
(* Starting, ending and cancelling the worker task *)

\* _active_order_worker_step_is_obsolete
IsObsolete(cs, last) ==
  /\ cs # NoStep
  /\ last.id # NoPlace
  /\ inFlight # cs
  /\ runStep # cs
  /\ cs.seq <= last.seq

\* Fault: the successor of an obsolete worker is started at once
StartTaskFault(cs, last, canc, rest) ==
  IF Alive(worker) /\ ~IsObsolete(cs, last)
  THEN cancelling' = canc /\ ready' = rest /\ UNCHANGED <<waiters, worker, pc, step>>
  ELSE \E t \in Tasks :
       /\ ~Alive(t)
       /\ worker' = t
       /\ pc' = [pc EXCEPT ![t] = "ready"]
       /\ step' = [step EXCEPT ![t] = NoStep]
       /\ cancelling' = canc \cup ({worker} \cap {w \in Tasks : Alive(w)})
       /\ ready' = Append(rest, [kind |-> "start", task |-> t])
       /\ UNCHANGED waiters

\* _start_task of _schedule_v3_order_worker, with the current step cs, the tasks
\* being cancelled and the rest of the ready queue as the caller leaves them
StartTask(cs, last, canc, rest) ==
  IF Alive(worker)
  THEN /\ IF IsObsolete(cs, last)
          THEN /\ cancelling' = canc \cup {worker}
               /\ waiters' = [waiters EXCEPT ![worker] = @ + 1]
          ELSE /\ cancelling' = canc
               /\ UNCHANGED waiters
       /\ ready' = rest
       /\ UNCHANGED <<worker, pc, step>>
  ELSE \E t \in Tasks :
       /\ ~Alive(t)
       /\ worker' = t
       /\ pc' = [pc EXCEPT ![t] = "ready"]
       /\ step' = [step EXCEPT ![t] = NoStep]
       /\ cancelling' = canc
       /\ ready' = Append(rest, [kind |-> "start", task |-> t])
       /\ UNCHANGED waiters

\* A task ends; the restart callbacks attached to it are posted
EndTask(t, rest) ==
  /\ pc' = [pc EXCEPT ![t] = "idle"]
  /\ step' = [step EXCEPT ![t] = NoStep]
  /\ cancelling' = cancelling \ {t}
  /\ waiters' = [waiters EXCEPT ![t] = 0]
  /\ ready' = rest \o [i \in 1..waiters[t] |-> [kind |-> "done"]]
  /\ UNCHANGED worker

GoTo(t, label) ==
  /\ pc' = [pc EXCEPT ![t] = label]
  /\ UNCHANGED <<worker, cancelling, waiters>>

-----------------------------------------------------------------------------
(* The fleet manager, the MQTT thread and the operator *)

\* CancelledError reaches the end of the worker within the loop iterations that
\* follow cancel(), ahead of any later message, but for such a handler
CancelsDelivered == \A t \in cancelling : pc[t] = "act" /\ "slowCleanup" \in May

Unhandled == {i \in 1..Len(ready) : ready[i].kind \in {"order", "cancel"}}

CanSend ==
  /\ LoopFree
  /\ Unhandled = {} \/ ("blindSend" \in May /\ \E i \in Unhandled : Unhandled = {i})

\* handle_incoming_acs_cmd on ".../order": parsed, then posted to the loop
ReceiveOrder(m) ==
  /\ CanSend
  /\ sent < MaxMessages
  /\ m.base \in NodesOf(m)
  /\ (m.id # orderId \/ IsOrderFinished) /\ "startAnywhere" \notin May
       => IsOrderFinished /\ pos = lastId /\ Route[m.id][m.first] = lastId
  /\ m.id = orderId /\ "irregularUpdate" \notin May =>
       /\ m.first \in demanded \cap released /\ \A s \in demanded : s < m.last
       /\ \A s \in released \cap demanded : s <= m.base
  /\ "orderDuringCancel" \notin May => cancelPc = "idle"
  /\ "orderDuringCrash" \notin May => \A i \in 1..Len(ready) : ready[i].kind # "crash"
  /\ ready' = Append(ready, m)
  /\ sent' = sent + 1
  /\ UNCHANGED <<cancels, orderVars, stateVars, actionVars, placeVars, queueVars, taskVars,
                 markVars, cancelVars, visited, lateRestart>>

\* _handle_cancel_order_instant_action: the orderId is captured on the MQTT
\* thread, the coroutine is posted
ReceiveCancel ==
  /\ CanSend
  /\ cancels < MaxCancels
  /\ cancelPc = "idle" /\ \A i \in 1..Len(ready) : ready[i].kind # "cancel"
  /\ ready' = Append(ready, [kind |-> "cancel", id |-> orderId])
  /\ cancels' = cancels + 1
  /\ UNCHANGED <<sent, orderVars, stateVars, actionVars, placeVars, queueVars, taskVars,
                 markVars, cancelVars, visited, lateRestart>>

\* A robot without an active order is driven to a place by hand
MoveByHand(p) ==
  /\ LoopFree
  /\ "moveByHand" \notin May => \A i \in 1..Len(ready) : ready[i].kind # "order"
  /\ ~IsOrderActive
  /\ \A t \in Tasks : ~Alive(t)
  /\ pos' = p
  /\ UNCHANGED <<ready, fleetVars, orderVars, stateVars, actionVars, lastId, lastSeq, queueVars,
                 taskVars, markVars, cancelVars, visited, lateRestart>>

-----------------------------------------------------------------------------
(* Pose telemetry: _update_nearest_node_from_position *)

\* _find_nearest_node: the last of the order's nodes at a place gives its sequenceId
SeqOfPlace(p) ==
  LET here == {s \in order : Route[orderId][s] = p}
  IN  IF here = {} THEN {0} ELSE {s \in here : \A r \in here : r <= s}

Unplaced == [id |-> NoPlace, seq |-> 0]

\* Fault: a robot on its way to the next node has left its last node, too
ReleasedFault(last) == IF Capture = "settled" /\ pos # last.id THEN {last, Unplaced} ELSE {last}

\* _release_stale_last_node: a robot without an active order has left its last node,
\* by more than the release distance or by less
Released(last) ==
  IF Capture = "settled" /\ ~IsOrderActive /\ pos # last.id THEN {last, Unplaced} ELSE {last}

\* The seed of an empty lastNodeId, order or no order, if it passes the distance gate
Seeded(last, near) == IF Seeding /\ last.id = NoPlace THEN {last, near} ELSE {last}

\* _capture_idle_last_node: "settled" captures where a robot without an active order
\* stands, unless it is moving or under manual control
Captured(last, near) ==
  CASE Capture = "proximity" -> {near}
    [] Capture = "disabled" -> {last}
    [] OTHER -> IF IsOrderActive \/ pos # near.id THEN {last} ELSE {last, near}

\* A pose is published, nearest to p: where the robot stands, or any place near its way
ReportPose(p) ==
  /\ LoopFree
  /\ pos \in {p, NoPlace}
  /\ \E near \in [id : {p}, seq : SeqOfPlace(p)] :
       \E r \in Released([id |-> lastId, seq |-> lastSeq]) :
         \E d \in Seeded(r, near) : \E c \in Captured(d, near) :
           lastId' = c.id /\ lastSeq' = c.seq
  /\ UNCHANGED <<ready, fleetVars, orderVars, stateVars, actionVars, pos, queueVars,
                 taskVars, markVars, cancelVars, visited, lateRestart>>

-----------------------------------------------------------------------------
(* Order intake on the adapter loop *)

\* _remap_last_node_sequence_for_new_order: the first node of the order with
\* the nodeId of the last node gives it its sequenceId
Remapped(m) ==
  LET here == {s \in NodesOf(m) : Route[m.id][s] = lastId}
  IN  [id : {lastId}, seq : IF here = {} THEN {lastSeq}
                            ELSE {s \in here : \A r \in here : s <= r}]

\* _bootstrap_v3_order_from_vehicle_station and ..._from_current_pose: when the
\* vehicle reports its station or a pose near a node of the order, that node
\* becomes the last node; the pose alone never selects the first node.  Only the
\* capture mode "settled" looks.
Bootstrapped(m) ==
  LET here == {s \in NodesOf(m) : Route[m.id][s] = pos}
      last == {s \in here : \A r \in here : r <= s}
  IN  Remapped(m) \cup [id : {pos}, seq : IF Capture = "settled"
                                          THEN last \cup (here \ {m.first}) ELSE {}]

\* _accept_v3_order_for_queue
AcceptOrder(m) ==
  \E last \in Bootstrapped(m) :
    LET st == [s \in Seqs |-> IF s \in ItemsOf(m) /\ Blocking[s] # "none"
                              THEN "WAITING" ELSE "none"]
        ns == PruneNodes(NodesOf(m), m.id, last, {}, st)
        es == PruneEdges(NodesOf(m), EdgesOf(m), m.id, last)
    IN  /\ orderId' = m.id /\ updateId' = m.update /\ order' = NodesOf(m)
        /\ released' = ReleasedOf(m)
        /\ nodes' = ns /\ edges' = es
        /\ status' = st /\ dispatched' = {}
        /\ stray' = (stray \/ background # {}) /\ background' = {}
        /\ lastId' = last.id /\ lastSeq' = last.seq
        /\ queue' = StepsFor(ns, es, ReleasedOf(m), m.id, last, {}, st)
        /\ requeued' = <<>>
        /\ currentStep' = NoStep
        /\ StartTask(NoStep, last,
                     IF Alive(worker) THEN cancelling \cup {worker} ELSE cancelling,
                     Tail(ready))
        /\ visited' = {} /\ demanded' = NodesOf(m) /\ runs' = NoRuns
        /\ baseline' = IF LastNodeIn(NodesOf(m), m.id, last) THEN last.seq ELSE None

\* _merge_v3_order_items: known items take the new released flag, unknown ones
\* are appended unless the last node's sequenceId is at or past theirs
MergedItems(current, requested) ==
  current \cup {s \in requested : s > lastSeq}

\* _update_v3_order_for_queue, up to the schedule of the worker
MergeOrder(m) ==
  LET last == [id |-> lastId, seq |-> lastSeq]
      mergedNodes == MergedItems(nodes, NodesOf(m))
      mergedEdges == MergedItems(edges, EdgesOf(m))
      rel == (released \ ItemsOf(m)) \cup ReleasedOf(m)
      ns == PruneNodes(mergedNodes, m.id, last, dispatched, status)
      es == PruneEdges(mergedNodes, mergedEdges, m.id, last)
  IN  /\ updateId' = m.update /\ order' = NodesOf(m)
      /\ released' = rel
      /\ nodes' = ns /\ edges' = es
      /\ queue' = StepsFor(ns, es, rel, m.id, last, dispatched, status)
      /\ requeued' = <<>>
      /\ status' = [s \in Seqs |-> IF s \in ItemsOf(m) /\ Blocking[s] # "none"
                                      /\ status[s] = "none"
                                   THEN "WAITING" ELSE status[s]]
      /\ demanded' = demanded \cup NodesOf(m)
      /\ UNCHANGED <<orderId, dispatched, background, stray, lastId, lastSeq, currentStep,
                     visited, baseline, runs>>

\* Fault: the steps of the update are left to a worker that may have ended
UpdateOrderFault(m) == MergeOrder(m) /\ ready' = Tail(ready) /\ UNCHANGED taskVars

UpdateOrder(m) ==
  /\ MergeOrder(m)
  /\ StartTask(currentStep, [id |-> lastId, seq |-> lastSeq], cancelling, Tail(ready))

\* _handle_v3_order.  A message may also be refused because the state is not
\* initialised, the robot is BUSY, the message has no nodes or the vehicle link
\* is down: the last disjunct.
HandleOrder ==
  /\ LoopFree
  /\ IsNext("order") /\ CancelsDelivered
  /\ LET m == Head(ready)
     IN  \/ /\ orderId = NoOrder \/ IsOrderFinished
            /\ AcceptOrder(m)
         \/ /\ IsOrderActive
            /\ m.id = orderId /\ m.update > updateId
            /\ UpdateOrder(m)
         \/ /\ ready' = Tail(ready)
            /\ UNCHANGED <<orderVars, stateVars, actionVars, lastId, lastSeq, queueVars,
                           taskVars, currentStep, visited>>
  /\ UNCHANGED <<sent, cancels, pos, inFlight, runStep, cancelVars, lateRestart>>

\* The restart comes too late: an update has given the queue another worker,
\* which is itself obsolete, or has stopped at a failed step, crashed or ended
\* the order; or the order is being cancelled
IsLate ==
  IF Alive(worker)
  THEN IsObsolete(currentStep, [id |-> lastId, seq |-> lastSeq])
  ELSE \/ requeued # <<>>
       \/ ~IsOrderActive
       \/ cancelPc = "background"
       \/ \E i \in 1..Len(ready) : ready[i].kind = "crash"

\* The done callback of an obsolete worker posts _start_task, which then runs
PostRestart ==
  /\ IsNext("done")
  /\ ready' = Append(Tail(ready), [kind |-> "restart"])
  /\ UNCHANGED <<fleetVars, orderVars, stateVars, actionVars, placeVars, queueVars, taskVars,
                 markVars, cancelVars, visited, lateRestart>>

Restart ==
  /\ IsNext("restart")
  /\ StartTask(currentStep, [id |-> lastId, seq |-> lastSeq], cancelling, Tail(ready))
  /\ lateRestart' = (lateRestart \/ IsLate)
  /\ UNCHANGED <<fleetVars, orderVars, stateVars, actionVars, placeVars, queueVars,
                 markVars, cancelVars, visited>>

-----------------------------------------------------------------------------
(* The order worker: _process_v3_order_queue *)

\* A new task runs for the first time
WorkerStart(t) ==
  /\ IsNext("start") /\ Head(ready).task = t
  /\ pc[t] = "ready"
  /\ t \notin cancelling
  /\ ready' = Tail(ready)
  /\ GoTo(t, "loop")
  /\ UNCHANGED <<fleetVars, orderVars, stateVars, actionVars, placeVars, queueVars, step,
                 markVars, cancelVars, visited, lateRestart>>

\* order_queue.get(): the queue in order, then what was put back at its tail
TakeStep(t) ==
  /\ pc[t] = "loop"
  /\ \/ \E st \in queue :
          /\ \A other \in queue : st.seq <= other.seq
          /\ queue' = queue \ {st}
          /\ step' = [step EXCEPT ![t] = st]
          /\ currentStep' = st
          /\ UNCHANGED requeued
     \/ /\ queue = {} /\ requeued # <<>>
        /\ step' = [step EXCEPT ![t] = Head(requeued)]
        /\ currentStep' = Head(requeued)
        /\ requeued' = Tail(requeued)
        /\ UNCHANGED queue
  /\ GoTo(t, "begin")
  /\ UNCHANGED <<ready, fleetVars, orderVars, stateVars, actionVars, placeVars, inFlight, runStep,
                 cancelVars, visited, lateRestart>>

\* The queue is empty: the worker returns
WorkerDone(t) ==
  /\ pc[t] = "loop" /\ queue = {} /\ requeued = <<>>
  /\ EndTask(t, ready)
  /\ UNCHANGED <<fleetVars, orderVars, stateVars, actionVars, placeVars, queueVars,
                 markVars, cancelVars, visited, lateRestart>>

\* Fault: the worker goes on with the steps behind the failed one
RequeueFault(t) ==
  /\ requeued' = Append(requeued, step[t])
  /\ currentStep' = NoStep
  /\ runStep' = NoStep
  /\ inFlight' = IF inFlight = step[t] THEN NoStep ELSE inFlight
  /\ GoTo(t, "loop")
  /\ step' = [step EXCEPT ![t] = NoStep]
  /\ UNCHANGED <<ready, queue>>

\* The step was not completed: it goes to the tail of the queue, the worker returns
Requeue(t) ==
  /\ requeued' = Append(requeued, step[t])
  /\ currentStep' = NoStep
  /\ runStep' = NoStep
  /\ inFlight' = IF inFlight = step[t] THEN NoStep ELSE inFlight
  /\ EndTask(t, ready)
  /\ UNCHANGED queue

\* _is_coalescing_breaker, for the items a queue can hold
IsBreaker(st) == st.only \/ Blocking[st.seq] = "STOP" \/ st.seq \in EdgeSeqs

\* _is_run_end: the next node, or edge with a blocking action, ends the run
IsRunEnd(st) ==
  LET next == {q \in queue : q.seq \in NodeSeqs \/ Blocking[q.seq] = "STOP"}
  IN  \/ ~Continuous
      \/ IsBreaker(st)
      \/ next = {}
      \/ \E q \in next : (\A r \in next : q.seq <= r.seq) /\ IsBreaker(q)

\* _process_v3_order_step: an unreleased step blocks, an edge or a start node
\* already reached goes straight to its actions, a node is driven to first
BeginStep(t) ==
  /\ pc[t] = "begin"
  /\ LET st == step[t]
     IN  \/ /\ st.seq \notin released
            /\ Requeue(t)
         \/ /\ st.seq \in released
            /\ IF st.only \/ st.seq \in EdgeSeqs
               THEN GoTo(t, "actions") /\ UNCHANGED runStep
               ELSE GoTo(t, "drive") /\ runStep' = IF IsRunEnd(st) THEN NoStep ELSE st
            /\ UNCHANGED <<queueVars, currentStep, inFlight, step, ready>>
  /\ UNCHANGED <<fleetVars, orderVars, stateVars, actionVars, lastId, lastSeq,
                 cancelVars, visited, lateRestart>>
  /\ pos' = IF pc'[t] = "drive" THEN NoPlace ELSE pos

\* Fault: the edge ahead of the node goes with the edge behind it
ArriveFault(t) ==
  /\ LoopFree
  /\ pc[t] = "drive" /\ t \notin cancelling
  /\ LET s == step[t].seq
         here == Route[step[t].of][s]
     IN  /\ pos' = here
         /\ lastId' = here /\ lastSeq' = s
         /\ edges' = {e \in edges : e > s + 1}
         /\ visited' = IF step[t].of = orderId THEN visited \cup {s} ELSE visited
  /\ runStep' = NoStep
  /\ GoTo(t, "actions")
  /\ UNCHANGED <<ready, fleetVars, orderVars, nodes, actionVars, queueVars, step, currentStep,
                 inFlight, cancelVars, lateRestart>>

\* The robot reaches the node: _finalize_v3_node_step and
\* _clear_edge_states_up_to
Arrive(t) ==
  /\ LoopFree
  /\ pc[t] = "drive" /\ t \notin cancelling
  /\ LET s == step[t].seq
         here == Route[step[t].of][s]
     IN  /\ pos' = here
         /\ lastId' = here /\ lastSeq' = s
         /\ edges' = {e \in edges : e >= s}
         /\ visited' = IF step[t].of = orderId THEN visited \cup {s} ELSE visited
  /\ runStep' = NoStep
  /\ GoTo(t, "actions")
  /\ UNCHANGED <<ready, fleetVars, orderVars, nodes, actionVars, queueVars, step, currentStep,
                 inFlight, cancelVars, lateRestart>>

\* The goto, dock or move is refused or given up
DriveFails(t) ==
  /\ LoopFree
  /\ pc[t] = "drive" /\ t \notin cancelling
  /\ Requeue(t)
  /\ UNCHANGED <<fleetVars, orderVars, stateVars, actionVars, placeVars, cancelVars,
                 visited, lateRestart>>

\* An exception leaves the worker; _on_done will run as a callback
Crash(t) ==
  /\ LoopFree
  /\ pc[t] = "drive" /\ t \notin cancelling
  /\ currentStep' = NoStep /\ runStep' = NoStep
  /\ EndTask(t, Append(ready, [kind |-> "crash"]))
  /\ UNCHANGED <<fleetVars, orderVars, stateVars, actionVars, placeVars, queueVars,
                 inFlight, cancelVars, visited, lateRestart>>

\* _process_v3_step_actions, up to its first await: an action that is not
\* pending is skipped, a pending one is recorded as dispatched
DispatchActions(t) ==
  /\ pc[t] = "actions"
  /\ LET s == step[t].seq
     IN  \/ /\ status[s] = "none" \/ ~IsPending(s, dispatched, status)
            /\ GoTo(t, "clear")
            /\ UNCHANGED <<dispatched, runs, background, inFlight>>
         \/ /\ status[s] # "none" /\ IsPending(s, dispatched, status)
            /\ dispatched' = dispatched \cup {s}
            /\ runs' = [runs EXCEPT ![s] = @ + 1]
            /\ inFlight' = step[t]
            /\ IF Blocking[s] = "STOP"
               THEN GoTo(t, "stop") /\ UNCHANGED background
               ELSE GoTo(t, "tick") /\ background' = background \cup {s}
  /\ UNCHANGED <<ready, fleetVars, orderVars, stateVars, status, stray, placeVars, queueVars, step,
                 currentStep, runStep, cancelVars, visited, lateRestart>>

\* _stop_for_blocking_order_actions: the vehicle stands still, the action
\* begins; or the stop fails, the action is FAILED and the step not completed
StopVehicle(t) ==
  /\ LoopFree
  /\ pc[t] = "stop" /\ t \notin cancelling
  /\ \/ /\ status' = [status EXCEPT ![step[t].seq] = "RUNNING"]
        /\ GoTo(t, "act")
        /\ UNCHANGED <<queueVars, step, markVars, ready>>
     \/ /\ status' = [status EXCEPT ![step[t].seq] = "FAILED"]
        /\ Requeue(t)
  /\ UNCHANGED <<fleetVars, orderVars, stateVars, dispatched, runs, background, stray,
                 placeVars, cancelVars, visited, lateRestart>>

\* _execute_order_action returns: the worker goes on whatever the outcome
EndAction(t) ==
  /\ LoopFree
  /\ pc[t] = "act" /\ t \notin cancelling
  /\ \E result \in {"FINISHED", "FAILED"} :
       status' = [status EXCEPT ![step[t].seq] = result]
  /\ GoTo(t, "tick")
  /\ UNCHANGED <<ready, fleetVars, orderVars, stateVars, dispatched, runs, background, stray,
                 placeVars, queueVars, step, markVars, cancelVars, visited, lateRestart>>

\* The worker comes back from sleep(0) with its actions dispatched
EndTick(t) ==
  /\ LoopFree
  /\ pc[t] = "tick" /\ t \notin cancelling
  /\ inFlight' = IF inFlight = step[t] THEN NoStep ELSE inFlight
  /\ GoTo(t, "clear")
  /\ UNCHANGED <<ready, fleetVars, orderVars, stateVars, actionVars, placeVars, queueVars, step,
                 currentStep, runStep, cancelVars, visited, lateRestart>>

\* _clear_v3_order_step: the node leaves node_states, an edge stays until the
\* node behind it is reached
ClearStep(t) ==
  /\ pc[t] = "clear"
  /\ nodes' = nodes \ {step[t].seq}
  /\ currentStep' = NoStep
  /\ step' = [step EXCEPT ![t] = NoStep]
  /\ GoTo(t, "loop")
  /\ UNCHANGED <<ready, fleetVars, orderVars, edges, actionVars, placeVars, queueVars, inFlight,
                 runStep, cancelVars, visited, lateRestart>>

\* CancelledError is delivered where the worker awaits
Cancelled(t) ==
  /\ LoopFree
  /\ Alive(t) /\ pc[t] # "ready" /\ t \in cancelling
  /\ currentStep' = NoStep
  /\ runStep' = IF pc[t] = "drive" THEN NoStep ELSE runStep
  /\ inFlight' = IF inFlight = step[t] THEN NoStep ELSE inFlight
  /\ EndTask(t, ready)
  /\ UNCHANGED <<fleetVars, orderVars, stateVars, actionVars, placeVars, queueVars,
                 cancelVars, visited, lateRestart>>

\* or at its first step, before it has entered its try block
StartCancelled(t) ==
  /\ IsNext("start") /\ Head(ready).task = t
  /\ pc[t] = "ready"
  /\ t \in cancelling
  /\ EndTask(t, Tail(ready))
  /\ UNCHANGED <<fleetVars, orderVars, stateVars, actionVars, placeVars, queueVars,
                 markVars, cancelVars, visited, lateRestart>>

\* A background action ends
EndBackground(s) ==
  /\ LoopFree
  /\ s \in background
  /\ background' = background \ {s}
  /\ \E result \in {"FINISHED", "FAILED"} : status' = [status EXCEPT ![s] = result]
  /\ UNCHANGED <<ready, fleetVars, orderVars, stateVars, dispatched, runs, stray, placeVars,
                 queueVars, taskVars, markVars, cancelVars, visited, lateRestart>>

\* A background action of an earlier order ends, out of the published state
EndStray ==
  /\ LoopFree
  /\ stray /\ stray' = FALSE
  /\ UNCHANGED <<ready, fleetVars, orderVars, stateVars, status, dispatched, runs, background,
                 placeVars, queueVars, taskVars, markVars, cancelVars, visited, lateRestart>>

-----------------------------------------------------------------------------
(* cancelOrder and the crash path *)

\* _clear_cancelled_order_state
ClearOrderState ==
  /\ orderId' = NoOrder /\ updateId' = 0 /\ order' = {}
  /\ nodes' = {} /\ edges' = {}
  /\ status' = NoStatus /\ dispatched' = {}
  /\ stray' = (stray \/ background # {}) /\ background' = {}
  /\ visited' = {} /\ demanded' = {} /\ baseline' = None /\ runs' = NoRuns
  /\ UNCHANGED released

\* _clear_order_queue
ClearQueue == queue' = {} /\ requeued' = <<>> /\ currentStep' = NoStep

\* _drop_order_after_worker_crash, from the done callback of the worker
CrashDrop ==
  /\ IsNext("crash")
  /\ ready' = Tail(ready)
  /\ ClearQueue
  /\ ClearOrderState
  /\ UNCHANGED <<fleetVars, placeVars, inFlight, runStep, taskVars, cancelVars, lateRestart>>

\* The callback posted by ReceiveCancel creates the coroutine's task
HandleCancel ==
  /\ IsNext("cancel")
  /\ ready' = Append(Tail(ready), [kind |-> "cancelling"])
  /\ cancelPc' = "created" /\ cancelId' = Head(ready).id
  /\ UNCHANGED <<sent, cancels, orderVars, stateVars, actionVars, placeVars, queueVars,
                 taskVars, markVars, visited, lateRestart>>

\* Fault: the queue is cleared and the worker left to find it empty
CancelBeginFault ==
  /\ IsNext("cancelling")
  /\ ready' = Tail(ready)
  /\ background' = {} /\ stray' = FALSE
  /\ cancelPc' = "stopping" /\ ClearQueue
  /\ UNCHANGED <<fleetVars, orderVars, stateVars, status, dispatched, runs, placeVars,
                 taskVars, inFlight, runStep, cancelId, visited, lateRestart>>

\* _cancel_order_on_loop: the worker is cancelled, then the background actions,
\* which are awaited when there are any; then the queue is cleared
CancelBegin ==
  /\ IsNext("cancelling")
  /\ ready' = Tail(ready)
  /\ cancelling' = IF Alive(worker) THEN cancelling \cup {worker} ELSE cancelling
  /\ background' = {} /\ stray' = FALSE
  /\ IF background = {} /\ ~stray
     THEN cancelPc' = "stopping" /\ ClearQueue
     ELSE cancelPc' = "background" /\ UNCHANGED <<queueVars, currentStep>>
  /\ UNCHANGED <<fleetVars, orderVars, stateVars, status, dispatched, runs, placeVars,
                 worker, pc, step, waiters, inFlight, runStep, cancelId, visited, lateRestart>>

CancelBackgroundEnded ==
  /\ LoopFree
  /\ cancelPc = "background"
  /\ cancelPc' = "stopping" /\ ClearQueue
  /\ UNCHANGED <<ready, fleetVars, orderVars, stateVars, actionVars, placeVars, taskVars,
                 inFlight, runStep, cancelId, visited, lateRestart>>

\* The vehicle stands still, or could not be stopped: the order is cleared
\* either way, unless another one has taken its place
CancelEnd ==
  /\ LoopFree /\ CancelsDelivered
  /\ cancelPc = "stopping"
  /\ cancelPc' = "idle" /\ cancelId' = NoOrder
  /\ IF orderId # NoOrder /\ orderId # cancelId
     THEN UNCHANGED <<orderVars, stateVars, actionVars, visited>>
     ELSE ClearOrderState
  /\ UNCHANGED <<ready, fleetVars, placeVars, queueVars, taskVars, markVars, lateRestart>>

-----------------------------------------------------------------------------
Init ==
  /\ ready = <<>> /\ sent = 0 /\ cancels = 0
  /\ orderId = NoOrder /\ updateId = 0 /\ order = {}
  /\ nodes = {} /\ edges = {} /\ released = {}
  /\ status = NoStatus /\ dispatched = {}
  /\ pos \in Places /\ lastId \in {pos, NoPlace} /\ lastSeq = 0
  /\ queue = {} /\ requeued = <<>>
  /\ currentStep = NoStep /\ inFlight = NoStep /\ runStep = NoStep
  /\ worker \in Tasks
  /\ pc = [t \in Tasks |-> "idle"] /\ step = [t \in Tasks |-> NoStep]
  /\ cancelling = {} /\ waiters = [t \in Tasks |-> 0]
  /\ background = {} /\ stray = FALSE
  /\ cancelPc = "idle" /\ cancelId = NoOrder
  /\ visited = {} /\ demanded = {} /\ baseline = None /\ runs = NoRuns
  /\ lateRestart = FALSE

Fleet ==
  \/ \E m \in OrderMessage : ReceiveOrder(m)
  \/ ReceiveCancel
  \/ \E p \in Places : MoveByHand(p)

WorkerSync(t) == TakeStep(t) \/ WorkerDone(t) \/ BeginStep(t) \/ DispatchActions(t) \/ ClearStep(t)

\* Waits without a bound: a drive is given up only by an error, an order's action by
\* its handler
WorkerWorks(t) == Arrive(t) \/ DriveFails(t) \/ EndAction(t)

\* Waits that end
WorkerAwaits(t) ==
  WorkerStart(t) \/ StopVehicle(t) \/ EndTick(t) \/ Cancelled(t) \/ StartCancelled(t)

Loop ==
  \/ HandleOrder \/ PostRestart \/ Restart \/ CrashDrop \/ EndStray
  \/ \E p \in Places : ReportPose(p)
  \/ \E s \in Seqs : EndBackground(s)
  \/ HandleCancel \/ CancelBegin \/ CancelBackgroundEnded \/ CancelEnd

Next ==
  \/ Fleet
  \/ Loop
  \/ \E t \in Tasks : WorkerSync(t) \/ WorkerAwaits(t) \/ WorkerWorks(t) \/ Crash(t)

Spec == Init /\ [][Next]_vars

\* The event loop runs what is ready, a stop of the vehicle succeeds or times out, and
\* cancelled tasks end.  Nobody owes the end of a drive or of an action: the fleet, the
\* operator, the vehicle and exceptions owe nothing.
Fairness ==
  /\ WF_vars(HandleOrder) /\ WF_vars(HandleCancel)
  /\ WF_vars(PostRestart) /\ WF_vars(Restart) /\ WF_vars(CrashDrop)
  /\ WF_vars(CancelBegin) /\ WF_vars(CancelBackgroundEnded) /\ WF_vars(CancelEnd)
  /\ \A t \in Tasks : WF_vars(WorkerSync(t)) /\ WF_vars(WorkerAwaits(t))

FairSpec == Spec /\ Fairness

-----------------------------------------------------------------------------
(* Properties *)

Labels == {"idle", "ready", "loop", "begin", "drive", "actions", "stop", "act", "tick", "clear"}

FleetOK ==
  /\ sent \in 0..MaxMessages /\ cancels \in 0..MaxCancels
  /\ cancelPc \in {"idle", "created", "background", "stopping"}
  /\ cancelId \in Orders \cup {NoOrder}
ReadyOK == ready \in Seq(Message \cup Callback)
OrderOK ==
  /\ orderId \in Orders \cup {NoOrder} /\ updateId \in 0..MaxUpdateId
  /\ order \subseteq NodeSeqs /\ nodes \subseteq NodeSeqs /\ edges \subseteq EdgeSeqs
  /\ released \subseteq Seqs
  /\ visited \subseteq NodeSeqs /\ demanded \subseteq NodeSeqs /\ baseline \in Seqs \cup {None}
ActionOK ==
  /\ status \in [Seqs -> {"none", "WAITING", "RUNNING", "FINISHED", "FAILED"}]
  /\ dispatched \subseteq Seqs /\ background \subseteq Seqs
  /\ stray \in BOOLEAN
  /\ runs \in [Seqs -> Nat]
PlaceOK == pos \in Places \cup {NoPlace} /\ lastId \in Places \cup {NoPlace} /\ lastSeq \in Seqs
StepOK ==
  /\ queue \subseteq Step /\ requeued \in Seq(Step)
  /\ currentStep \in Step \cup {NoStep}
  /\ inFlight \in Step \cup {NoStep} /\ runStep \in Step \cup {NoStep}
  /\ step \in [Tasks -> Step \cup {NoStep}]
TaskOK ==
  /\ worker \in Tasks /\ pc \in [Tasks -> Labels]
  /\ cancelling \subseteq Tasks /\ waiters \in [Tasks -> Nat]

\* Every variable keeps the shape the code gives it.
TypeOK ==
  /\ FleetOK /\ ReadyOK /\ OrderOK /\ ActionOK /\ PlaceOK /\ StepOK /\ TaskOK
  /\ lateRestart \in BOOLEAN

\* A worker that processes a step holds one of an order, and drives to nodes only.
StepHeld ==
  \A t \in Tasks :
    /\ pc[t] \notin {"idle", "ready", "loop"} => step[t] \in Step
    /\ pc[t] = "drive" => step[t].seq \in NodeSeqs

\* At most one task ever runs the order queue, and it is the one the adapter
\* knows as order_worker_task: the restart of an obsolete worker, the update
\* that found it obsolete and the done callbacks never make a second one.
SingleWorker == \A t \in Tasks : Alive(t) => t = worker

\* An actionId is dispatched at most once while its order lives, however often
\* updates put its step back into the queue and workers are restarted.
ActionAtMostOnce == \A s \in Seqs : runs[s] <= 1

\* The properties below hold as long as no restart of an obsolete worker comes too
\* late: one that does starts a worker on a queue nobody was to work on, such as the
\* one a failed step has left.

\* A worker that is not being cancelled never drives to a node that lies behind
\* one already reached in the same order.
NoReturn ==
  lateRestart \/ \A t \in Tasks :
    pc[t] = "drive" /\ t \notin cancelling /\ step[t].of = orderId
      => \A v \in visited : v <= step[t].seq

\* While an order lasts, an edge leaves edge_states only when the robot has
\* reached the node behind it (or took the order up beyond it).
EdgeHeldUntilPassed ==
  [][\A e \in edges \ edges' :
        \/ orderId' = NoOrder \/ IsOrderFinished
        \/ e + 1 \in visited' \/ e < baseline
        \/ lateRestart]_vars

\* No node of an accepted message is lost: it is still to do, has been reached,
\* or lies at or before the node where the order was taken up.
NothingSkipped ==
  lateRestart \/ \A s \in demanded : s \in nodes \cup visited \/ s <= baseline

\* An order with steps in the queue has a worker, unless a step failed, a crash
\* or a restart is being handled or the order is being cancelled.
QueueHasWorker ==
  queue # {} => \/ \E t \in Tasks : Alive(t)
                \/ \E i \in 1..Len(ready) : ready[i].kind \in {"done", "restart", "crash"}
                \/ requeued # <<>>
                \/ cancelPc # "idle"
                \/ lateRestart

\* Once no order is left, no worker drives or acts for it.
NoOrderNoMotion ==
  orderId = NoOrder /\ ~lateRestart =>
    \A t \in Tasks : pc[t] \in {"drive", "stop", "act"} => t \in cancelling

\* When the fleet has sent its last message an order stands still only when it is
\* finished, dropped or cancelled, waits for a release or has stopped at a failed step;
\* otherwise its worker is on the way to a node or at an action, as long as that takes.
OrderSettles == <>[](\/ ~IsOrderActive
                     \/ nodes \cap released = {}
                     \/ requeued # <<>>
                     \/ lateRestart
                     \/ \E t \in Tasks : pc[t] \in {"drive", "act"} /\ t \notin cancelling)

=============================================================================
