----------------------------- MODULE StateActions -----------------------------
(* The StateActionController: the publisher reports the working state it derived,
   and a worker runs the configured action of the state that was left (end) and of
   the one that was entered (start).  Publisher, workers, done callbacks and action
   tasks take turns on the adapter's loop.  Names that ActionScheduler has as well
   begin with State here. *)
EXTENDS Naturals, Sequences

CONSTANTS
  States,      \* working states
  Started,     \* those with a start action
  Ended,       \* those with an end action
  MaxChanges,  \* bound: changes of the working state
  StateMay     \* liberties: "observeBeforeCallback"

ASSUME StatesAssumption == Started \subseteq States /\ Ended \subseteq States
ASSUME BoundAssumption == MaxChanges \in Nat
ASSUME MayAssumption == StateMay \subseteq {"observeBeforeCallback"}

Entries == 1..MaxChanges        \* every entry of a state has a number
Workers == 1..(2 * MaxChanges)  \* and so has every worker task

VARIABLES
  observed,    \* _observed_state; a set, empty for None
  changes,     \* changes observed so far
  queue,       \* _queue of the states observed and not taken yet
  stateWorker, \* _worker, 0 for None
  pc,          \* where each worker is in _run, or none, or gone with its callback run
  taken,       \* the states each worker took from the queue last; a set like observed
  place,       \* the states entered so far
  active,      \* _active_state: the number of the entry that is active, 0 for None
  leaving,     \* the entry each worker leaves
  starter,     \* _start_task: the entry whose start action it runs, 0 for None
  startTask,   \* the start task of each entry, a stage of ActionTask; none if it has none
  ends         \* how often the end action of each entry was begun

stateVars == <<observed, changes, queue, stateWorker, pc, taken, place, active, leaving, starter,
               startTask, ends>>

\* A worker waits for its turn, for a start action, for an end action; or it runs.
Waiting == {"none", "queued", "leaving", "ending", "returned", "gone"}
Awake == {"loop", "left", "enter"}

Task(e, cleanup) == INSTANCE ActionTask WITH stage <- startTask[e], HasCleanup <- cleanup
TaskStages == {"queued", "body", "cleanup", "done", "dropped", "torn"}
Live == {"queued", "body", "cleanup"}

StateInit ==
  /\ observed = {} /\ changes = 0 /\ queue = <<>> /\ stateWorker = 0
  /\ pc = [w \in Workers |-> "none"] /\ taken = [w \in Workers |-> {}]
  /\ place = <<>> /\ active = 0 /\ starter = 0
  /\ leaving = [w \in Workers |-> 0]
  /\ startTask = [e \in Entries |-> "none"]
  /\ ends = [e \in Entries |-> 0]

\* A worker that runs is not interrupted before it awaits something.
Quiet == \A w \in Workers : pc[w] \in Waiting

\* Bug: a worker is only ever made once.
OneWorkerFault == stateWorker = 0

\* create_task(self._run())
NewWorker(pcs) ==
  \E w \in Workers :
    /\ pcs[w] = "none" /\ \A v \in 1..(w - 1) : pcs[v] # "none"
    /\ pc' = [pcs EXCEPT ![w] = "queued"]
    /\ stateWorker' = w

WorkerIsDone == stateWorker = 0 \/ pc[stateWorker] \in {"returned", "gone"}

------------------------------------------------------------------------------
\* The publisher reports a state; only a change is queued, and a worker is made
\* when there is none or the last one has ended.
Observe(s) ==
  /\ Quiet
  /\ changes < MaxChanges /\ observed # {s}
  /\ "observeBeforeCallback" \notin StateMay => \A w \in Workers : pc[w] # "returned"
  /\ observed' = {s} /\ changes' = changes + 1
  /\ queue' = Append(queue, s)
  /\ IF WorkerIsDone THEN NewWorker(pc) ELSE UNCHANGED <<pc, stateWorker>>
  /\ UNCHANGED <<taken, place, active, leaving, starter, startTask, ends>>

\* The done callback of a worker makes another when something was queued meanwhile.
WorkerDone(w) ==
  /\ Quiet /\ pc[w] = "returned"
  /\ LET gone == [pc EXCEPT ![w] = "gone"]
     IN  IF queue # <<>> THEN NewWorker(gone) ELSE pc' = gone /\ UNCHANGED stateWorker
  /\ UNCHANGED <<observed, changes, queue, taken, place, active, leaving, starter, startTask, ends>>

Wake(w) ==
  /\ Quiet /\ pc[w] = "queued"
  /\ pc' = [pc EXCEPT ![w] = "loop"]
  /\ UNCHANGED <<observed, changes, queue, stateWorker, taken, place, active, leaving, starter, startTask, ends>>

Return(w) ==
  /\ pc[w] = "loop" /\ queue = <<>>
  /\ pc' = [pc EXCEPT ![w] = "returned"]
  /\ UNCHANGED <<observed, changes, queue, stateWorker, taken, place, active, leaving, starter, startTask, ends>>

\* task.cancel(): the body hastens to its cleanup, and a cleanup is torn.
Cancelled(stage) ==
  CASE stage = "queued" -> "dropped" [] stage = "cleanup" -> "torn" [] OTHER -> stage

\* The next state is taken; a start action still under way is cancelled and awaited.
Take(w) ==
  /\ pc[w] = "loop" /\ queue # <<>>
  /\ taken' = [taken EXCEPT ![w] = {Head(queue)}] /\ queue' = Tail(queue)
  /\ leaving' = [leaving EXCEPT ![w] = active]
  /\ \/ active = 0 /\ pc' = [pc EXCEPT ![w] = "enter"] /\ UNCHANGED startTask
     \/ /\ active # 0 /\ starter # 0 /\ startTask[starter] \in Live
        /\ startTask' = [startTask EXCEPT ![starter] = Cancelled(@)]
        /\ pc' = [pc EXCEPT ![w] = "leaving"]
     \/ /\ active # 0 /\ ~(starter # 0 /\ startTask[starter] \in Live)
        /\ pc' = [pc EXCEPT ![w] = "left"]
        /\ UNCHANGED startTask
  /\ UNCHANGED <<observed, changes, stateWorker, place, active, starter, ends>>

\* Bug: a start action that was cancelled is not awaited.
StartOverFault(w) ==
  /\ Quiet /\ pc[w] = "leaving"
  /\ pc' = [pc EXCEPT ![w] = "left"]
  /\ UNCHANGED <<observed, changes, queue, stateWorker, taken, place, active, leaving, starter, startTask, ends>>

\* The start action of the entry that is left has ended.
StartOver(w) ==
  /\ Quiet /\ pc[w] = "leaving" /\ startTask[leaving[w]] \notin Live
  /\ pc' = [pc EXCEPT ![w] = "left"]
  /\ UNCHANGED <<observed, changes, queue, stateWorker, taken, place, active, leaving, starter, startTask, ends>>

\* Bug: no end action when the start action was cancelled.
LeaveFault(w) ==
  /\ pc[w] = "left"
  /\ starter' = 0
  /\ IF place[leaving[w]] \in Ended /\ startTask[leaving[w]] \notin {"dropped", "torn"}
       THEN /\ pc' = [pc EXCEPT ![w] = "ending"]
            /\ ends' = [ends EXCEPT ![leaving[w]] = @ + 1]
            /\ UNCHANGED active
       ELSE /\ pc' = [pc EXCEPT ![w] = "enter"]
            /\ active' = 0
            /\ UNCHANGED ends
  /\ UNCHANGED <<observed, changes, queue, stateWorker, taken, place, leaving, startTask>>

\* The end action of the entry that is left begins, if its state has one.
Leave(w) ==
  /\ pc[w] = "left"
  /\ starter' = 0
  /\ IF place[leaving[w]] \in Ended
       THEN /\ pc' = [pc EXCEPT ![w] = "ending"]
            /\ ends' = [ends EXCEPT ![leaving[w]] = @ + 1]
            /\ UNCHANGED active
       ELSE /\ pc' = [pc EXCEPT ![w] = "enter"]
            /\ active' = 0
            /\ UNCHANGED ends
  /\ UNCHANGED <<observed, changes, queue, stateWorker, taken, place, leaving, startTask>>

EndOver(w) ==
  /\ Quiet /\ pc[w] = "ending"
  /\ active' = 0
  /\ pc' = [pc EXCEPT ![w] = "enter"]
  /\ UNCHANGED <<observed, changes, queue, stateWorker, taken, place, leaving, starter, startTask, ends>>

\* The state taken is entered; its start action, if it has one, gets a task.
Enter(w) ==
  /\ pc[w] = "enter"
  /\ \E s \in taken[w] :
       /\ place' = Append(place, s)
       /\ IF s \in Started
            THEN /\ startTask' = [startTask EXCEPT ![Len(place) + 1] = "queued"]
                 /\ starter' = Len(place) + 1
            ELSE UNCHANGED <<startTask, starter>>
  /\ active' = Len(place) + 1
  /\ pc' = [pc EXCEPT ![w] = "loop"]
  /\ UNCHANGED <<observed, changes, queue, stateWorker, taken, leaving, ends>>

\* The start action of an entry goes on; its failures are only logged.
TaskRuns(e) ==
  /\ Quiet
  /\ \E stage \in TaskStages, cleanup \in BOOLEAN :
       startTask' = [startTask EXCEPT ![e] = stage] /\ Task(e, cleanup)!Step
  /\ UNCHANGED <<observed, changes, queue, stateWorker, pc, taken, place, active, leaving, starter, ends>>

WorkerStep(w) ==
  Wake(w) \/ Return(w) \/ Take(w) \/ StartOver(w) \/ Leave(w) \/ EndOver(w) \/ Enter(w) \/ WorkerDone(w)

StateNext ==
  \/ \E s \in States : Observe(s)
  \/ \E w \in Workers : WorkerStep(w)
  \/ \E e \in Entries : TaskRuns(e)

StateSpec == StateInit /\ [][StateNext]_stateVars

\* The loop runs what is ready, an end action ends, and so does a start action that
\* was cancelled; one that was not may run for as long as its state lasts.
StateFairness ==
  /\ \A w \in Workers : WF_stateVars(WorkerStep(w))
  /\ \A e \in Entries : WF_stateVars((\E w \in Workers : leaving[w] = e) /\ TaskRuns(e))

StateFairSpec == StateSpec /\ StateFairness

------------------------------------------------------------------------------
(* Properties. *)

StateTypeOK ==
  /\ {observed} \cup {taken[w] : w \in Workers} \subseteq SUBSET States
  /\ changes \in 0..MaxChanges
  /\ queue \in Seq(States) /\ place \in Seq(States)
  /\ Len(queue) + Len(place) <= changes
  /\ stateWorker \in 0..(2 * MaxChanges)
  /\ pc \in [Workers -> Waiting \cup Awake]
  /\ active \in 0..Len(place) /\ starter \in 0..Len(place)
  /\ leaving \in [Workers -> 0..Len(place)]
  /\ startTask \in [Entries -> TaskStages \cup {"none"}]
  /\ ends \in [Entries -> Nat]

\* The end action of a state runs when no start action is under way any more, be it of
\* that state or of another one.
EndFollowsStart ==
  (\E w \in Workers : pc[w] = "ending") => \A e \in Entries : startTask[e] \notin Live

\* What was switched on is switched off: an entry is left once, before the next one.
LeftOnce ==
  \A e \in 1..Len(place) :
    /\ ends[e] <= 1
    /\ e < Len(place) /\ place[e] \in Ended => ends[e] = 1

\* A working state that lasts is entered, however long the actions before it take.
LastStateEntered ==
  \A s \in States :
    observed = {s} ~> (observed # {s} \/ (active # 0 /\ place[active] = s))
==============================================================================
