----------------------------- MODULE SeerConnection -----------------------------
(***************************************************************************)
(* One logical port of a SEER controller, as                               *)
(* seer_client/src/seer_client/connection.py keeps it: coroutines that     *)
(* share one TCP stream, a lock that lets one of them use it at a time, and *)
(* a stream that is thrown away whenever it may still carry an answer that *)
(* nobody waits for.  Requests time out and are cancelled, streams break,   *)
(* and the client takes the port down beside them, without the lock.       *)
(*                                                                         *)
(* A coroutine runs from one await to the next in a step, and its pc names *)
(* the await.  The lock is granted in any order: asyncio.Lock grants it in *)
(* the order asked, which is one of them.  It is held by whoever is in     *)
(* Holding.  A stream is a number; 0 stands for the absent one.            *)
(*                                                                         *)
(* The controller (inbox, executed) is external.  It reads its inbox also   *)
(* after the client has closed the stream: what was sent may have arrived. *)
(*                                                                         *)
(* Definitions whose name ends in Fault are the faults that the properties *)
(* are tried on: no action uses them.                                      *)
(*                                                                         *)
(* Bounds: each request is made once, and MaxStreams streams are opened.   *)
(***************************************************************************)
EXTENDS Integers, Sequences

CONSTANTS
  Requests,     \* the requests, by the coroutine that makes each
  MaxStreams,
  SeqModulus,   \* sequence numbers are 16 bits wide: 65536
  NoRequest

ASSUME SeerConnectionAssumption ==
  /\ MaxStreams \in Nat \ {0}
  /\ SeqModulus \in Nat \ {0}
  /\ NoRequest \notin Requests

Streams == 1..MaxStreams

VARIABLES
  pc,        \* the await each request is in, or its outcome
  onward,    \* what follows the recovery of the connection: "send" or "raise"
  on,        \* the stream a request was sent on
  seqOf,     \* its sequence number
  got,       \* history: the request whose answer it was given
  current,   \* reader and writer, and _running: the stream in use, or 0
  reqId,     \* _req_id
  opened,    \* _generation: streams opened so far
  torn,      \* SeerClient._teardown_ports: "no", "closing" or "done"
  link,      \* each stream: "unused", "open", "broken", "noticed" or "closed"
  inbox,     \* frames on their way to the controller
  outbox,    \* frames on their way to the client
  executed   \* how often the controller has executed each request

requestVars == <<onward, on, seqOf, got>>
portVars == <<current, reqId, opened, torn>>
wireVars == <<link, inbox, outbox>>
vars == <<pc, requestVars, portVars, wireVars, executed>>

Recovering == {"closing", "opening"}
Exchanging == {"draining", "reading"}
Holding == Recovering \cup Exchanging \cup {"sending", "cancelClosing"}
Outcomes == {"answer", "apiError", "failed", "refused", "cancelled"}

LockFree == \A r \in Requests : pc[r] \notin Holding
Go(r, label) == pc' = [pc EXCEPT ![r] = label]

\* is_connected: a broken stream looks connected until a write has failed on it
IsConnected == current # 0 /\ link[current] # "noticed"

-----------------------------------------------------------------------------
(* Closing and opening the stream *)

\* What is under way on a stream may be lost, in either direction
Loses(s) ==
  /\ UNCHANGED inbox \/ inbox' = [inbox EXCEPT ![s] = <<>>]
  /\ UNCHANGED outbox \/ outbox' = [outbox EXCEPT ![s] = <<>>]

\* The synchronous part of disconnect.  What has arrived may still be read by
\* a coroutine that holds the reader; what was sent may still arrive.
Disconnect ==
  /\ current' = 0
  /\ \/ current = 0 /\ UNCHANGED wireVars
     \/ /\ current # 0
        /\ link' = [link EXCEPT ![current] = "closed"]
        /\ Loses(current)

\* _recover_connection: disconnect waits only when there was a writer
Recover(r, next) ==
  /\ Disconnect
  /\ onward' = [onward EXCEPT ![r] = next]
  /\ Go(r, IF current = 0 THEN "opening" ELSE "closing")
  /\ UNCHANGED <<on, seqOf, got, reqId, opened, torn, executed>>

\* wait_closed has ended
Closed(r) ==
  /\ pc[r] = "closing"
  /\ Go(r, "opening")
  /\ UNCHANGED <<requestVars, portVars, wireVars, executed>>

\* Fault: the request is sent again on the new stream
OpenedFault(r) == Go(r, "sending")

Opened(r) == Go(r, IF onward[r] = "send" THEN "sending" ELSE "failed")

\* connect, after open_connection
OpenEnds(r) ==
  /\ pc[r] = "opening"
  /\ \/ /\ opened < MaxStreams
        /\ opened' = opened + 1 /\ current' = opened + 1
        /\ link' = [link EXCEPT ![opened + 1] = "open"]
        /\ Opened(r)
        /\ UNCHANGED <<requestVars, reqId, torn, inbox, outbox, executed>>
     \/ /\ Go(r, IF onward[r] = "send" THEN "refused" ELSE "failed")
        /\ UNCHANGED <<requestVars, portVars, wireVars, executed>>

-----------------------------------------------------------------------------
(* A request *)

\* send_command finds the port as long as the client has not dropped it
Call(r) ==
  /\ pc[r] = "idle" /\ torn # "done"
  /\ Go(r, "waiting")
  /\ UNCHANGED <<requestVars, portVars, wireVars, executed>>

\* The lock is granted; a port that is down is opened before anything is sent
Enter(r) ==
  /\ pc[r] = "waiting" /\ LockFree
  /\ \/ ~IsConnected /\ Recover(r, "send")
     \/ /\ IsConnected /\ Go(r, "sending")
        /\ UNCHANGED <<requestVars, portVars, wireVars, executed>>

NextReqId == (reqId + 1) % SeqModulus

\* The first part of _request_once.  The interval between requests has passed,
\* and the port may have been taken down meanwhile.
Send(r) ==
  /\ pc[r] = "sending"
  /\ \/ current = 0 /\ Recover(r, "raise")
     \/ /\ current # 0
        /\ reqId' = NextReqId
        /\ on' = [on EXCEPT ![r] = current]
        /\ seqOf' = [seqOf EXCEPT ![r] = NextReqId]
        /\ inbox' = IF link[current] # "open" THEN inbox
                    ELSE [inbox EXCEPT ![current] = Append(@, [of |-> r, seq |-> NextReqId])]
        /\ Go(r, "draining")
        /\ UNCHANGED <<onward, got, current, opened, torn, link, outbox, executed>>

\* The reader is looked up after the drain
Drained(r) ==
  /\ pc[r] = "draining" /\ current # 0
  /\ Go(r, "reading")
  /\ UNCHANGED <<requestVars, portVars, wireVars, executed>>

DrainFails(r) ==
  /\ pc[r] = "draining" /\ ~(current # 0 /\ link[current] = "open")
  /\ Recover(r, "raise")

\* An answer is accepted when it is well formed and has the sequence of the request
Accepts(r, frame) == frame.kind # "garbled" /\ frame.seq = seqOf[r]

Read(r) ==
  LET frame == Head(outbox[on[r]])
  IN  /\ pc[r] = "reading" /\ outbox[on[r]] # <<>> /\ Accepts(r, frame)
      /\ outbox' = [outbox EXCEPT ![on[r]] = Tail(@)]
      /\ got' = [got EXCEPT ![r] = frame.of]
      /\ Go(r, frame.kind)
      /\ UNCHANGED <<onward, on, seqOf, portVars, link, inbox, executed>>

\* A malformed answer, one of another request, or the end of the stream
ReadFails(r) ==
  /\ pc[r] = "reading"
  /\ \/ outbox[on[r]] # <<>> /\ ~Accepts(r, Head(outbox[on[r]]))
     \/ outbox[on[r]] = <<>> /\ link[on[r]] # "open"
  /\ Recover(r, "raise")

\* Fault: only the write is timed
TimeoutFault(r) == pc[r] = "draining" /\ Recover(r, "raise")

\* wait_for gives up
Timeout(r) == pc[r] \in Exchanging /\ Recover(r, "raise")

\* Fault: the stream is kept
CancelExchangeFault(r) ==
  /\ Go(r, "cancelled")
  /\ UNCHANGED <<requestVars, portVars, wireVars, executed>>

\* The stream is closed before the lock is released
CancelExchange(r) ==
  /\ Disconnect
  /\ Go(r, IF current = 0 THEN "cancelled" ELSE "cancelClosing")
  /\ UNCHANGED <<requestVars, reqId, opened, torn, executed>>

\* The task of the request is cancelled: waiting for the lock, while the
\* connection is recovered, or with the stream in use
Cancel(r) ==
  \/ /\ pc[r] \in Recovering \cup {"waiting", "cancelClosing"}
     /\ Go(r, "cancelled")
     /\ UNCHANGED <<requestVars, portVars, wireVars, executed>>
  \/ /\ pc[r] \in Exchanging \cup {"sending"}
     /\ CancelExchange(r)

CancelClosed(r) ==
  /\ pc[r] = "cancelClosing"
  /\ Go(r, "cancelled")
  /\ UNCHANGED <<requestVars, portVars, wireVars, executed>>

-----------------------------------------------------------------------------
(* The client takes its ports down: disconnect, without the lock *)

TearDown ==
  /\ torn = "no" /\ torn' = "closing"
  /\ Disconnect
  /\ UNCHANGED <<pc, requestVars, reqId, opened, executed>>

TornDown ==
  /\ torn = "closing" /\ torn' = "done"
  /\ UNCHANGED <<pc, requestVars, current, reqId, opened, wireVars, executed>>

-----------------------------------------------------------------------------
(* The controller and the network *)

\* The answer is lost when the stream is not open any more
Execute(s) ==
  LET frame == Head(inbox[s])
  IN  /\ inbox[s] # <<>>
      /\ inbox' = [inbox EXCEPT ![s] = Tail(@)]
      /\ executed' = [executed EXCEPT ![frame.of] = @ + 1]
      /\ \E kind \in {"answer", "apiError", "garbled"} :
           outbox' = IF link[s] # "open" THEN outbox
                     ELSE [outbox EXCEPT ![s] =
                             Append(@, [of |-> frame.of, seq |-> frame.seq, kind |-> kind])]
      /\ UNCHANGED <<pc, requestVars, portVars, link>>

Break(s) ==
  /\ link[s] = "open"
  /\ link' = [link EXCEPT ![s] = "broken"]
  /\ Loses(s)
  /\ UNCHANGED <<pc, requestVars, portVars, executed>>

\* The transport is closing: is_closing
Notice(s) ==
  /\ link[s] = "broken"
  /\ link' = [link EXCEPT ![s] = "noticed"]
  /\ UNCHANGED <<pc, requestVars, portVars, inbox, outbox, executed>>

-----------------------------------------------------------------------------
(* The specification *)

\* _open_port has connected
Init ==
  /\ pc = [r \in Requests |-> "idle"]
  /\ onward = [r \in Requests |-> "send"]
  /\ on = [r \in Requests |-> 0]
  /\ seqOf = [r \in Requests |-> 0]
  /\ got = [r \in Requests |-> NoRequest]
  /\ current = 1 /\ reqId = 0 /\ opened = 1 /\ torn = "no"
  /\ link = [s \in Streams |-> IF s = 1 THEN "open" ELSE "unused"]
  /\ inbox = [s \in Streams |-> <<>>]
  /\ outbox = [s \in Streams |-> <<>>]
  /\ executed = [r \in Requests |-> 0]

\* What the request does by itself
Proceed(r) ==
  \/ Enter(r) \/ Closed(r) \/ OpenEnds(r) \/ Send(r) \/ Drained(r) \/ DrainFails(r)
  \/ Read(r) \/ ReadFails(r) \/ Timeout(r) \/ CancelClosed(r)

Next ==
  \/ \E r \in Requests : Call(r) \/ Proceed(r) \/ Cancel(r)
  \/ \E s \in Streams : Execute(s) \/ Break(s) \/ Notice(s)
  \/ TearDown \/ TornDown

Spec == Init /\ [][Next]_vars

\* The loop runs what is ready, the timeout of a request expires, and closing
\* or opening a stream ends.  The controller and the network promise nothing.
Fairness == \A r \in Requests : WF_vars(Proceed(r))
FairSpec == Spec /\ Fairness

-----------------------------------------------------------------------------
(* Properties *)

Frame == [of : Requests, seq : 0..SeqModulus - 1]
Answer == [of : Requests, seq : 0..SeqModulus - 1, kind : {"answer", "apiError", "garbled"}]

\* Every variable keeps the shape the code gives it; the stream in use is the
\* one that was opened last, and a request that waits for its answer has one.
TypeOK ==
  /\ pc \in [Requests -> {"idle", "waiting"} \cup Holding \cup Outcomes]
  /\ onward \in [Requests -> {"send", "raise"}]
  /\ on \in [Requests -> 0..MaxStreams]
  /\ \A r \in Requests : pc[r] \in Exchanging => on[r] \in Streams
  /\ seqOf \in [Requests -> 0..SeqModulus - 1]
  /\ got \in [Requests -> Requests \cup {NoRequest}]
  /\ opened \in Streams /\ current \in {0, opened}
  /\ reqId \in 0..SeqModulus - 1
  /\ torn \in {"no", "closing", "done"}
  /\ link \in [Streams -> {"unused", "open", "broken", "noticed", "closed"}]
  /\ inbox \in [Streams -> Seq(Frame)] /\ outbox \in [Streams -> Seq(Answer)]
  /\ executed \in [Requests -> Nat]

\* The boundary between requests is clean: the stream that a request is about
\* to use carries nothing of an earlier one, neither a command that has not been
\* executed nor an answer that nobody waits for.
CleanBoundary ==
  \A r \in Requests :
    pc[r] = "sending" /\ current # 0 => inbox[current] = <<>> /\ outbox[current] = <<>>

\* No caller is given the answer to another request, although sequence numbers
\* wrap and requests are cancelled with their answer on the way.
OwnAnswer == \A r \in Requests : got[r] \in {r, NoRequest}

\* Every request ends, whatever the controller and the network do.
CallsReturn == \A r \in Requests : pc[r] = "waiting" ~> pc[r] \in Outcomes

\* What the caller sees of a request whose pc is at a label
CallOf(label) ==
  CASE label = "idle" -> "idle"
    [] label \in {"answer", "apiError"} -> "answered"
    [] label \in {"failed", "cancelled"} -> "failed"
    [] label = "refused" -> "refused"
    [] OTHER -> "pending"

Promise ==
  INSTANCE RemoteCall WITH call <- [r \in Requests |-> CallOf(pc[r])], performed <- executed

\* A request is performed at most once, never when it was refused, and is only
\* answered when it was performed.
KeepsPromise == Promise!Spec

=============================================================================
