------------------------------ MODULE JibotClient ------------------------------
(* The JIBOT client: one TCP socket, the task that reads it, the one queue in  *)
(* which it leaves every response for whoever waits, the calls that send a     *)
(* command and wait for its response, and the adapter's supervisor that opens  *)
(* the socket again.                                                           *)
(*   jibot-client/src/jibot_client/client.py and                               *)
(*   adaptor/adapter_jibot.py, monitor_jibot_connection.                       *)
(* Everything runs on one event loop, so a step is what happens between two    *)
(* awaits. A response is only its number and its command.                      *)
EXTENDS Naturals, Sequences, FiniteSets

CONSTANTS
  Tasks,        \* coroutines that call send_command_and_wait
  Commands,     \* the commands they wait for
  Goto,         \* UmGoto, the command whose wait accepts an error frame
  Streamed,     \* commands whose response the robot also sends periodically
  Error,        \* #CMD# of an error frame, which names no command
  MaxRequests,  \* bound on the commands sent
  MaxFrames,    \* bound on the responses the robot sends
  MaxSessions,  \* bound on the sockets opened
  MaxFaults     \* bound on lost, silent and unreachable links

ASSUME CommandsAssumption ==
  /\ Goto \in Commands
  /\ Streamed \subseteq Commands \ {Goto}
  /\ Error \notin Commands
ASSUME BoundsAssumption ==
  /\ MaxRequests \in Nat
  /\ MaxFrames \in Nat
  /\ MaxFaults \in Nat
  /\ MaxSessions \in Nat \ {0}

VARIABLES
  running,    \* self._running, which is_connected() returns
  writer,     \* self.writer: "none", "open" or "closing"
  session,    \* number of the socket opened last
  reader,     \* the receive task of each socket
  supervisor, \* where monitor_jibot_connection waits
  queue,      \* self._response_queue
  waits,      \* the call each task is in
  sent,       \* number of commands sent
  inbox,      \* requests that reached the robot on this socket
  wire,       \* frames the robot sent on this socket, not yet read
  frames,     \* number of frames the robot sent
  reachable,  \* the robot accepts connections
  silent,     \* no byte arrived for the rx timeout
  faults,     \* faults so far
  received,   \* history: numbers of the frames that were read
  answers     \* history: which frame a call returned

link == <<running, writer, session, reader, supervisor, silent>>
calls == <<queue, waits, answers>>
robot == <<inbox, wire, frames>>
world == <<reachable, faults>>
vars == <<link, calls, robot, world, sent, received>>

Sessions == 1..MaxSessions
Frame == [number : 1..MaxFrames, cmd : Commands \cup {Error}]
Request == [number : 1..MaxRequests, cmd : Commands]
NoRequest == [number |-> 0, cmd |-> Goto]
Idle == [busy |-> FALSE, request |-> NoRequest, skipped |-> <<>>]

-------------------------------------------------------------------------------
(* The receive task *)

ReaderEndsFault(s) ==
  /\ reader' = [reader EXCEPT ![s] = "done"]
  /\ UNCHANGED <<running, writer, session, supervisor, silent>>

\* Its finally: whatever ended it, the link is reported down.
ReaderEnds(s) ==
  /\ reader' = [reader EXCEPT ![s] = "done"]
  /\ running' = FALSE
  /\ UNCHANGED <<writer, session, supervisor, silent>>

\* A cancelled receive task reaches its await.
ReaderCancelled(s) ==
  /\ reader[s] = "cancelled"
  /\ ReaderEnds(s)
  /\ UNCHANGED <<calls, robot, world, sent, received>>

\* End of file, a socket error or bytes that do not decode.
LinkBreaks ==
  /\ session > 0
  /\ reader[session] = "reading"
  /\ faults < MaxFaults
  /\ faults' = faults + 1
  /\ ReaderEnds(session)
  /\ UNCHANGED <<calls, robot, reachable, sent, received>>

\* process_data: every response goes into the queue, waited for or not.
Receive ==
  /\ session > 0
  /\ reader[session] = "reading"
  /\ wire # <<>>
  /\ queue' = Append(queue, Head(wire))
  /\ wire' = Tail(wire)
  /\ received' = received \cup {Head(wire).number}
  /\ silent' = FALSE
  /\ UNCHANGED <<running, writer, session, reader, supervisor, waits, answers,
                 inbox, frames, world, sent>>

-------------------------------------------------------------------------------
(* Calls: send_command_and_wait *)

\* Without an open writer the send raises and there is no wait. A command that
\* is written to a socket nobody reads any more is lost.
Send(t, c) ==
  /\ ~waits[t].busy
  /\ writer = "open"
  /\ sent < MaxRequests
  /\ sent' = sent + 1
  /\ LET r == [number |-> sent + 1, cmd |-> c] IN
     /\ waits' = [waits EXCEPT ![t] = [busy |-> TRUE, request |-> r, skipped |-> <<>>]]
     /\ \/ inbox' = inbox \cup {r}
        \/ reader[session] # "reading" /\ inbox' = inbox
  /\ UNCHANGED <<link, queue, answers, wire, frames, world, received>>

Matches(frame, request) ==
  \/ frame.cmd = request.cmd
  \/ frame.cmd = Error /\ request.cmd = Goto

PutBackFault(rest, t) == rest

\* The finally of wait_for_response: what was skipped goes to the tail.
PutBack(rest, t) == rest \o waits[t].skipped

TakeAnswer(t) ==
  /\ waits[t].busy
  /\ queue # <<>>
  /\ Matches(Head(queue), waits[t].request)
  /\ answers' = answers \cup {[frame |-> Head(queue), request |-> waits[t].request]}
  /\ queue' = PutBack(Tail(queue), t)
  /\ waits' = [waits EXCEPT ![t] = Idle]
  /\ UNCHANGED <<link, robot, world, sent, received>>

\* A frame for somebody else is kept aside until this call is over.
SkipFrame(t) ==
  /\ waits[t].busy
  /\ queue # <<>>
  /\ ~Matches(Head(queue), waits[t].request)
  /\ queue' = Tail(queue)
  /\ waits' = [waits EXCEPT ![t].skipped = Append(@, Head(queue))]
  /\ UNCHANGED <<link, answers, robot, world, sent, received>>

\* The deadline passes, in get() or between two frames of a long queue, or the
\* calling task is cancelled.
GiveUp(t) ==
  /\ waits[t].busy
  /\ queue' = PutBack(queue, t)
  /\ waits' = [waits EXCEPT ![t] = Idle]
  /\ UNCHANGED <<link, answers, robot, world, sent, received>>

-------------------------------------------------------------------------------
(* The supervisor: monitor_jibot_connection, reconnect, _close_stale_connection *)

IsHealthy == running /\ ~silent

StopReading(r) == IF session > 0 /\ r[session] = "reading"
                  THEN [r EXCEPT ![session] = "cancelled"]
                  ELSE r

\* The connection is down or silent: the old receive task is cancelled first.
Check ==
  /\ supervisor = "asleep"
  /\ ~IsHealthy
  /\ reader' = StopReading(reader)
  /\ supervisor' = "cancelling"
  /\ UNCHANGED <<running, writer, session, silent, calls, robot, world, sent, received>>

\* The receive task is awaited before the writer is closed.
AwaitReader ==
  /\ supervisor = "cancelling"
  /\ session > 0 => reader[session] = "done"
  /\ supervisor' = "closing"
  /\ writer' = IF writer = "open" THEN "closing" ELSE "none"
  /\ UNCHANGED <<running, session, reader, silent, calls, robot, world, sent, received>>

WriterClosed ==
  /\ supervisor = "closing"
  /\ supervisor' = "opening"
  /\ writer' = "none"
  /\ UNCHANGED <<running, session, reader, silent, calls, robot, world, sent, received>>

\* connect_socket: a new socket and a new receive task; the queue is kept.
\* The login is written before anybody else runs.
Opened ==
  /\ supervisor = "opening"
  /\ reachable
  /\ session < MaxSessions
  /\ session' = session + 1
  /\ running' = TRUE
  /\ writer' = "open"
  /\ reader' = [reader EXCEPT ![session + 1] = "reading"]
  /\ silent' = FALSE
  /\ supervisor' = "asleep"
  /\ inbox' = {}
  /\ wire' = <<>>
  /\ UNCHANGED <<calls, frames, world, sent, received>>

OpenFailsFault ==
  /\ supervisor = "opening"
  /\ ~reachable
  /\ supervisor' = "ended"
  /\ UNCHANGED <<running, writer, session, reader, silent, calls, robot, world, sent,
                 received>>

\* The next attempt is made after the retry interval.
OpenFails ==
  /\ supervisor = "opening"
  /\ ~reachable
  /\ supervisor' = "asleep"
  /\ UNCHANGED <<running, writer, session, reader, silent, calls, robot, world, sent,
                 received>>

-------------------------------------------------------------------------------
(* The robot and the network *)

RobotSends(cmd) ==
  /\ session > 0
  /\ reader[session] = "reading"
  /\ frames < MaxFrames
  /\ frames' = frames + 1
  /\ wire' = Append(wire, [number |-> frames + 1, cmd |-> cmd])
  /\ UNCHANGED <<link, calls, world, sent, received>>

\* A goto that is accepted has no response, one that is refused an error frame.
RobotAnswers(r) ==
  /\ RobotSends(r.cmd) /\ r.cmd # Goto
  /\ inbox' = inbox \ {r}

RobotRefuses(r) ==
  /\ RobotSends(Error)
  /\ inbox' = inbox \ {r}

RobotStreams(c) ==
  /\ RobotSends(c)
  /\ UNCHANGED inbox

LinkSilent ==
  /\ running /\ ~silent
  /\ faults < MaxFaults
  /\ faults' = faults + 1
  /\ silent' = TRUE
  /\ UNCHANGED <<running, writer, session, reader, supervisor, calls, robot, reachable,
                 sent, received>>

RobotLeaves ==
  /\ reachable
  /\ faults < MaxFaults
  /\ faults' = faults + 1
  /\ reachable' = FALSE
  /\ UNCHANGED <<link, calls, robot, sent, received>>

RobotReturns ==
  /\ ~reachable
  /\ reachable' = TRUE
  /\ UNCHANGED <<link, calls, robot, faults, sent, received>>

-------------------------------------------------------------------------------

\* try_connect_vehicle has succeeded or failed; the supervisor starts after it.
Init ==
  /\ \E connected \in BOOLEAN :
       /\ running = connected
       /\ reachable = connected
       /\ writer = IF connected THEN "open" ELSE "none"
       /\ session = IF connected THEN 1 ELSE 0
       /\ reader = [s \in Sessions |-> IF connected /\ s = 1 THEN "reading" ELSE "none"]
  /\ supervisor = "asleep"
  /\ silent = FALSE
  /\ queue = <<>>
  /\ waits = [t \in Tasks |-> Idle]
  /\ answers = {}
  /\ inbox = {}
  /\ wire = <<>>
  /\ frames = 0
  /\ faults = 0
  /\ sent = 0
  /\ received = {}

Supervise == Check \/ AwaitReader \/ WriterClosed \/ Opened \/ OpenFails

Next ==
  \/ \E s \in Sessions : ReaderCancelled(s)
  \/ LinkBreaks
  \/ Receive
  \/ \E t \in Tasks, c \in Commands : Send(t, c)
  \/ \E t \in Tasks : TakeAnswer(t) \/ SkipFrame(t) \/ GiveUp(t)
  \/ Supervise
  \/ \E r \in inbox : RobotAnswers(r) \/ RobotRefuses(r)
  \/ \E c \in Streamed : RobotStreams(c)
  \/ LinkSilent
  \/ RobotLeaves
  \/ RobotReturns

Spec == Init /\ [][Next]_vars

\* The loop runs what is ready, and the robot comes back.
Fairness ==
  /\ WF_vars(Supervise)
  /\ WF_vars(\E s \in Sessions : ReaderCancelled(s))
  /\ WF_vars(RobotReturns)

FairSpec == Spec /\ Fairness

-------------------------------------------------------------------------------
(* Properties *)

\* The state has the shape the client gives it: readers and supervisor are in
\* one of their phases, calls hold sequences of frames.
TypeOK ==
  /\ running \in BOOLEAN
  /\ writer \in {"none", "open", "closing"}
  /\ session \in 0..MaxSessions
  /\ reader \in [Sessions -> {"none", "reading", "cancelled", "done"}]
  /\ supervisor \in {"asleep", "cancelling", "closing", "opening"}
  /\ queue \in Seq(Frame)
  /\ waits \in [Tasks -> [busy : BOOLEAN, request : Request \cup {NoRequest},
                          skipped : Seq(Frame)]]
  /\ sent \in 0..MaxRequests
  /\ inbox \in SUBSET Request
  /\ wire \in Seq(Frame)
  /\ frames \in 0..MaxFrames
  /\ reachable \in BOOLEAN
  /\ silent \in BOOLEAN
  /\ faults \in 0..MaxFaults
  /\ received \in SUBSET (1..MaxFrames)
  /\ answers \in SUBSET [frame : Frame, request : Request]

\* A link that is reported up has an open writer and a receive task on the
\* newest socket, and no older socket is read: is_connected() is true to the
\* task that clears it in its finally.
LinkUpIsRead ==
  running =>
    /\ writer = "open"
    /\ session > 0
    /\ reader[session] \in {"reading", "cancelled"}
    /\ \A s \in Sessions \ {session} : reader[s] \in {"none", "done"}

\* Where the frame with number n is kept: the queue, the private list of a
\* call, or with the caller it was returned to.
Places(n) ==
  {<<"queue", i>> : i \in {j \in DOMAIN queue : queue[j].number = n}}
  \cup (UNION {{<<t, i>> : i \in {j \in DOMAIN waits[t].skipped :
                                    waits[t].skipped[j].number = n}} : t \in Tasks})
  \cup {<<"caller", a.request.number>> : a \in {b \in answers : b.frame.number = n}}

\* A response that was read is never lost and never delivered twice, whatever
\* calls skip it, time out or are cancelled, and across sockets: at each moment
\* it is in exactly one place.
FrameInOnePlace == \A n \in received : Cardinality(Places(n)) = 1

\* The link is marked down only by the receive task of its own socket: a task
\* of an earlier socket that ends late does not take the new link down.
DownByOwnReader ==
  [][running /\ ~running' => session > 0 /\ reader[session] # "done"
                                         /\ reader'[session] = "done"]_vars

\* A link that is down is opened again, once the robot is reachable for long
\* enough: neither a failed attempt nor a second fault ends the supervision.
LinkRecovers == ~running ~> running
=============================================================================
