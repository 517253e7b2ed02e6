------------------------------ MODULE LinkProofs ------------------------------
(***************************************************************************)
(* Proofs about the two links over which a reply may be lost or late:      *)
(* SeerConnection, the TCP connections to the SEER controller, and PioLink, *)
(* the handshake with a facility.                                          *)
(*                                                                         *)
(* SeerConnection: for every set of requests, number of streams and width  *)
(* of the sequence number.  The inductive invariant says what may lie on a *)
(* stream: at most one frame, of the request that the stream was last given *)
(* to, and nothing at all on the stream in use unless that request still   *)
(* waits for its answer.  The sequence number plays no part in it: that a  *)
(* stream is thrown away whenever the exchange did not come to its end is  *)
(* enough.                                                                 *)
(*                                                                         *)
(* PioLink: for every set of tasks, scripts, configuration and limit.  Every *)
(* step changes one frame, and one lemma per await says how (Good): what the *)
(* frame may be, what it knows of the facility, and which lines it still   *)
(* has to lower.                                                           *)
(***************************************************************************)
EXTENDS SeerConnection, PioLink, SequenceTheorems, TLAPS

-----------------------------------------------------------------------------
(* The inductive invariant of SeerConnection *)

\* The request may have been written to a stream
Sent(r) ==
  \/ pc[r] \in Exchanging \cup {"cancelClosing", "answer", "apiError", "failed", "cancelled"}
  \/ pc[r] \in Recovering /\ onward[r] = "raise"

\* One request at a time holds the lock
OneHolder == \A q, r \in Requests : pc[q] \in Holding /\ pc[r] \in Holding => q = r

\* A stream that was not opened carries nothing
Unopened == \A s \in Streams : s > opened => Len(inbox[s]) = 0 /\ Len(outbox[s]) = 0

\* A stream carries one frame at most
OneFrame ==
  \A s \in Streams :
    /\ Len(inbox[s]) \in {0, 1} /\ Len(outbox[s]) \in {0, 1}
    /\ Len(inbox[s]) = 0 \/ Len(outbox[s]) = 0

\* A command that has not been executed
Commands ==
  \A s \in Streams, r \in Requests :
    Len(inbox[s]) # 0 /\ inbox[s][1].of = r =>
      on[r] = s /\ Sent(r) /\ pc[r] \notin {"answer", "apiError"} /\ executed[r] = 0

\* An answer that has not been read
Answers ==
  \A s \in Streams, r \in Requests :
    Len(outbox[s]) # 0 /\ outbox[s][1].of = r => on[r] = s /\ executed[r] = 1

\* A request that waits for its answer is alone on its stream, and that is the
\* stream in use unless the port was taken down
InUse ==
  \A r \in Requests : pc[r] \in Exchanging =>
    /\ on[r] \in Streams /\ current \in {0, on[r]}
    /\ Len(inbox[on[r]]) # 0 => inbox[on[r]][1].of = r
    /\ Len(outbox[on[r]]) # 0 => outbox[on[r]][1].of = r

\* Nobody waits for an answer: the stream in use carries nothing
Clean ==
  current # 0 /\ (\A r \in Requests : pc[r] \notin Exchanging) =>
    Len(inbox[current]) = 0 /\ Len(outbox[current]) = 0

\* What has been executed was sent, and what was answered has been executed
Counted ==
  \A r \in Requests :
    /\ executed[r] \in {0, 1}
    /\ executed[r] = 1 => Sent(r)
    /\ pc[r] \in {"answer", "apiError"} => executed[r] = 1

WireInv ==
  /\ OneHolder /\ Unopened /\ OneFrame /\ Commands /\ Answers /\ InUse /\ Clean /\ Counted
  /\ OwnAnswer

-----------------------------------------------------------------------------
(* Sequences *)

\* The empty sequence is the one without elements.
LEMMA EmptyBox ==
  ASSUME NEW S, NEW q \in Seq(S)
  PROVE  /\ (q = <<>>) <=> (Len(q) = 0)
         /\ Len(q) \in Nat
         /\ <<>> \in Seq(S) /\ Len(<<>>) = 0
  OBVIOUS

\* The head of a sequence is its first element.
LEMMA HeadOfBox ==
  ASSUME NEW S, NEW q \in Seq(S), q # <<>>
  PROVE  /\ Head(q) = q[1] /\ q[1] \in S
         /\ Tail(q) \in Seq(S) /\ Len(Tail(q)) = Len(q) - 1
  OBVIOUS

\* What is appended to an empty sequence is its first element.
LEMMA AppendToBox ==
  ASSUME NEW S, NEW q \in Seq(S), NEW x \in S
  PROVE  /\ Append(q, x) \in Seq(S) /\ Len(Append(q, x)) = Len(q) + 1
         /\ Len(q) = 0 => Append(q, x)[1] = x
  OBVIOUS

-----------------------------------------------------------------------------
(* Types *)

\* Initially every variable has its type.
LEMMA TypeInit == Init => TypeOK
  BY SeerConnectionAssumption, EmptyBox
  DEF Init, TypeOK, Streams, Holding, Recovering, Exchanging

\* A stream that loses what is under way keeps its type.
LEMMA LosesType ==
  ASSUME TypeOK, NEW s \in Streams, Loses(s)
  PROVE  inbox' \in [Streams -> Seq(Frame)] /\ outbox' \in [Streams -> Seq(Answer)]
<1>1. <<>> \in Seq(Frame) /\ <<>> \in Seq(Answer)
  OBVIOUS
<1>2. inbox' \in [Streams -> Seq(Frame)]
  BY <1>1 DEF TypeOK, Loses
<1>3. outbox' \in [Streams -> Seq(Answer)]
  BY <1>1 DEF TypeOK, Loses
<1>. QED  BY <1>2, <1>3

\* Closing the stream keeps the types of what it changes.
LEMMA DisconnectType ==
  ASSUME TypeOK, Disconnect
  PROVE  /\ current' = 0
         /\ link' \in [Streams -> {"unused", "open", "broken", "noticed", "closed"}]
         /\ inbox' \in [Streams -> Seq(Frame)] /\ outbox' \in [Streams -> Seq(Answer)]
<1>2. CASE current = 0
  BY <1>2 DEF TypeOK, Disconnect, wireVars
<1>3. CASE current # 0
  <2>1. current \in Streams
    BY <1>3 DEF TypeOK
  <2>2. Loses(current) /\ link' = [link EXCEPT ![current] = "closed"] /\ current' = 0
    BY <1>3 DEF Disconnect
  <2>. QED  BY <2>1, <2>2, LosesType DEF TypeOK
<1>. QED  BY <1>2, <1>3

\* Every step keeps the types.
LEMMA TypeStep ==
  ASSUME TypeOK, [Next]_vars
  PROVE  TypeOK'
<1>0. USE SeerConnectionAssumption
<1>a. ASSUME NEW r \in Requests, NEW next \in {"send", "raise"}, Recover(r, next)
      PROVE  TypeOK'
  BY <1>a, DisconnectType
  DEF TypeOK, Recover, Go, Holding, Recovering, Exchanging
<1>1. ASSUME NEW r \in Requests,
             \/ Call(r) \/ Closed(r) \/ Drained(r) \/ CancelClosed(r)
             \/ /\ pc[r] \in Recovering \cup {"waiting", "cancelClosing"}
                /\ Go(r, "cancelled")
                /\ UNCHANGED <<requestVars, portVars, wireVars, executed>>
      PROVE  TypeOK'
  BY <1>1 DEF TypeOK, Call, Closed, Drained, CancelClosed, Go, Holding, Recovering, Exchanging,
              Outcomes, requestVars, portVars, wireVars
<1>2. ASSUME NEW r \in Requests, OpenEnds(r)
      PROVE  TypeOK'
  <2>1. CASE /\ opened < MaxStreams
             /\ opened' = opened + 1 /\ current' = opened + 1
             /\ link' = [link EXCEPT ![opened + 1] = "open"]
             /\ Opened(r)
             /\ UNCHANGED <<requestVars, reqId, torn, inbox, outbox, executed>>
    <3>1. opened' \in Streams
      BY <2>1 DEF TypeOK, Streams
    <3>2. pc' \in [Requests -> {"idle", "waiting"} \cup Holding \cup Outcomes]
      BY <2>1 DEF TypeOK, Opened, Go, Holding, Outcomes
    <3>3. \A q \in Requests : pc'[q] \in Exchanging => on'[q] \in Streams
      BY <2>1 DEF TypeOK, Opened, Go, Exchanging, requestVars
    <3>. QED
      BY <2>1, <3>1, <3>2, <3>3 DEF TypeOK, requestVars
  <2>2. CASE UNCHANGED <<requestVars, portVars, wireVars, executed>>
    BY <1>2, <2>2 DEF TypeOK, OpenEnds, Opened, Go, Holding, Recovering, Exchanging,
                      Outcomes, requestVars, portVars, wireVars, Streams
  <2>. QED  BY <1>2, <2>1, <2>2 DEF OpenEnds
<1>3. ASSUME NEW r \in Requests, Enter(r)
      PROVE  TypeOK'
  BY <1>a, <1>3 DEF TypeOK, Enter, Go, Holding, Exchanging, requestVars, portVars, wireVars
<1>4. ASSUME NEW r \in Requests, Send(r)
      PROVE  TypeOK'
  <2>1. CASE current = 0
    BY <1>a, <1>4, <2>1 DEF Send
  <2>2. CASE current # 0
    <3>1. NextReqId \in 0..SeqModulus - 1 /\ current \in Streams
      BY <2>2 DEF TypeOK, NextReqId, Streams
    <3>2. [of |-> r, seq |-> NextReqId] \in Frame
      BY <3>1 DEF Frame
    <3>3. inbox[current] \in Seq(Frame)
      BY <3>1 DEF TypeOK
    <3>4. Append(inbox[current], [of |-> r, seq |-> NextReqId]) \in Seq(Frame)
      BY <3>2, <3>3, AppendToBox
    <3>5. inbox' \in [Streams -> Seq(Frame)]
      BY <1>4, <2>2, <3>4 DEF Send, TypeOK
    <3>6. on' \in [Requests -> 0..MaxStreams]
      <4>1. current \in 0..MaxStreams /\ on' = [on EXCEPT ![r] = current]
        BY <1>4, <2>2, <3>1 DEF Send, Streams
      <4>. QED  BY <4>1 DEF TypeOK
    <3>7. \A q \in Requests : pc'[q] \in Exchanging => on'[q] \in Streams
      BY <1>4, <2>2, <3>1 DEF Send, TypeOK, Go
    <3>8. pc' \in [Requests -> {"idle", "waiting"} \cup Holding \cup Outcomes]
      BY <1>4, <2>2 DEF Send, TypeOK, Go, Holding, Exchanging
    <3>9. /\ seqOf' \in [Requests -> 0..SeqModulus - 1] /\ reqId' \in 0..SeqModulus - 1
          /\ UNCHANGED <<onward, got, current, opened, torn, link, outbox, executed>>
      BY <1>4, <2>2, <3>1 DEF Send, TypeOK
    <3>. QED
      BY <3>5, <3>6, <3>7, <3>8, <3>9 DEF TypeOK
  <2>. QED  BY <2>1, <2>2
<1>5. ASSUME NEW r \in Requests, DrainFails(r) \/ ReadFails(r) \/ Timeout(r)
      PROVE  TypeOK'
  BY <1>a, <1>5 DEF DrainFails, ReadFails, Timeout
<1>6. ASSUME NEW r \in Requests, Read(r)
      PROVE  TypeOK'
  <2>1. on[r] \in Streams /\ outbox[on[r]] \in Seq(Answer) /\ outbox[on[r]] # <<>>
    BY <1>6 DEF Read, TypeOK, Exchanging
  <2>2. Head(outbox[on[r]]) \in Answer /\ Tail(outbox[on[r]]) \in Seq(Answer)
    BY <2>1, HeadOfBox
  <2>3. Head(outbox[on[r]]).kind \in {"answer", "apiError"} /\ Head(outbox[on[r]]).of \in Requests
    BY <1>6, <2>2 DEF Read, Accepts, Answer
  <2>. QED
    BY <1>6, <2>1, <2>2, <2>3 DEF Read, TypeOK, Go, Outcomes, Exchanging, portVars
<1>7. ASSUME NEW r \in Requests, CancelExchange(r)
      PROVE  TypeOK'
  BY <1>7, DisconnectType
  DEF TypeOK, CancelExchange, Go, Holding, Outcomes, Exchanging, requestVars
<1>8. CASE TearDown
  BY <1>8, DisconnectType DEF TypeOK, TearDown, requestVars
<1>9. CASE TornDown
  BY <1>9 DEF TypeOK, TornDown, requestVars, wireVars
<1>10. ASSUME NEW s \in Streams, Execute(s)
       PROVE  TypeOK'
  <2>1. Head(inbox[s]) \in Frame /\ Tail(inbox[s]) \in Seq(Frame)
    BY <1>10, HeadOfBox DEF Execute, TypeOK
  <2>2. PICK kind \in {"answer", "apiError", "garbled"} :
          outbox' = IF link[s] # "open" THEN outbox
                    ELSE [outbox EXCEPT ![s] =
                            Append(@, [of |-> Head(inbox[s]).of, seq |-> Head(inbox[s]).seq,
                                       kind |-> kind])]
    BY <1>10 DEF Execute
  <2>3. [of |-> Head(inbox[s]).of, seq |-> Head(inbox[s]).seq, kind |-> kind] \in Answer
    BY <2>1 DEF Frame, Answer
  <2>4. outbox' \in [Streams -> Seq(Answer)]
    BY <2>2, <2>3, AppendToBox DEF TypeOK
  <2>5. Head(inbox[s]).of \in Requests
    BY <2>1 DEF Frame
  <2>6. executed' \in [Requests -> Nat] /\ inbox' \in [Streams -> Seq(Frame)]
    <3>1. /\ executed' = [executed EXCEPT ![Head(inbox[s]).of] = @ + 1]
          /\ inbox' = [inbox EXCEPT ![s] = Tail(@)]
      BY <1>10 DEF Execute
    <3>2. executed' \in [Requests -> Nat]
      BY <2>5, <3>1 DEF TypeOK
    <3>3. inbox' \in [Streams -> Seq(Frame)]
      BY <2>1, <3>1 DEF TypeOK
    <3>. QED  BY <3>2, <3>3
  <2>7. UNCHANGED <<pc, onward, on, seqOf, got, current, reqId, opened, torn, link>>
    BY <1>10 DEF Execute, requestVars, portVars
  <2>. QED
    BY <2>4, <2>6, <2>7 DEF TypeOK
<1>11. ASSUME NEW s \in Streams, Break(s) \/ Notice(s)
       PROVE  TypeOK'
  <2>2. CASE Notice(s)
    BY <2>2 DEF Notice, TypeOK, requestVars, portVars
  <2>3. CASE Break(s)
    <3>1. inbox' \in [Streams -> Seq(Frame)] /\ outbox' \in [Streams -> Seq(Answer)]
      BY <2>3, LosesType DEF Break
    <3>. QED  BY <2>3, <3>1 DEF Break, TypeOK, requestVars, portVars
  <2>. QED  BY <1>11, <2>2, <2>3
<1>12. CASE UNCHANGED vars
  BY <1>12 DEF vars, requestVars, portVars, wireVars, TypeOK
<1>. QED
  BY <1>1, <1>2, <1>3, <1>4, <1>5, <1>6, <1>7, <1>8, <1>9, <1>10, <1>11, <1>12
  DEF Next, Proceed, Cancel

\* Every variable keeps its type.
THEOREM TypeCorrect == Spec => []TypeOK
<1>. QED  BY TypeInit, TypeStep, PTL DEF Spec

-----------------------------------------------------------------------------
(* Steps that add nothing to a stream *)

\* Every stream keeps what it carries, or loses it.
Fewer ==
  \A s \in Streams : /\ inbox'[s] = inbox[s] \/ Len(inbox'[s]) = 0
                     /\ outbox'[s] = outbox[s] \/ Len(outbox'[s]) = 0

\* A step that writes nothing and reads nothing, and leaves the stream in use
\* alone, closes it or opens the next one
Quiet ==
  /\ UNCHANGED <<on, got, executed>>
  /\ Fewer
  /\ \A r \in Requests :
       /\ Sent(r) => Sent(r)'
       /\ pc'[r] \in Exchanging => pc[r] \in Exchanging
       /\ pc'[r] \in {"answer", "apiError"} <=> pc[r] \in {"answer", "apiError"}
  /\ \/ opened' = opened /\ current' = 0
     \/ /\ opened' = opened /\ current' = current
        /\ \A r \in Requests : pc[r] \in Exchanging => pc'[r] \in Exchanging
     \/ /\ opened' = opened + 1 /\ current' = opened + 1
        /\ \A r \in Requests : pc'[r] \notin Exchanging

\* What a stream loses is at most what it carried.
LEMMA LosesFewer ==
  ASSUME TypeOK, NEW s \in Streams, Loses(s)
  PROVE  Fewer
<1>1. Len(<<>>) = 0
  OBVIOUS
<1>2. \A t \in Streams : inbox'[t] = inbox[t] \/ Len(inbox'[t]) = 0
  BY <1>1 DEF TypeOK, Loses
<1>3. \A t \in Streams : outbox'[t] = outbox[t] \/ Len(outbox'[t]) = 0
  BY <1>1 DEF TypeOK, Loses
<1>. QED  BY <1>2, <1>3 DEF Fewer

\* Closing the connection leaves nobody with more than they had.
LEMMA DisconnectFewer ==
  ASSUME TypeOK, Disconnect
  PROVE  Fewer /\ current' = 0
<1>1. CASE current = 0
  BY <1>1 DEF Disconnect, Fewer, wireVars
<1>2. CASE current # 0
  <2>1. current \in Streams
    BY <1>2 DEF TypeOK
  <2>. QED  BY <1>2, <2>1, LosesFewer DEF Disconnect
<1>. QED  BY <1>1, <1>2

\* A quiet step keeps the invariant.
LEMMA QuietKeeps ==
  ASSUME TypeOK, TypeOK', WireInv, OneHolder', Quiet
  PROVE  WireInv'
<1>0. /\ opened \in Nat /\ opened' >= opened
      /\ \A s \in Streams : Len(inbox[s]) \in Nat /\ Len(outbox[s]) \in Nat
  BY SeerConnectionAssumption, EmptyBox DEF TypeOK, Quiet, Streams
<1>1. Unopened'
  BY <1>0 DEF Quiet, Fewer, WireInv, Unopened, Streams
<1>2. OneFrame'
  BY DEF Quiet, Fewer, WireInv, OneFrame
<1>3. Commands'
  <2>1. ASSUME NEW s \in Streams, NEW r \in Requests, Len(inbox'[s]) # 0, inbox'[s][1].of = r
        PROVE  on'[r] = s /\ Sent(r)' /\ pc'[r] \notin {"answer", "apiError"} /\ executed'[r] = 0
    <3>1. inbox'[s] = inbox[s]
      BY <2>1 DEF Quiet, Fewer
    <3>2. on[r] = s /\ Sent(r) /\ pc[r] \notin {"answer", "apiError"} /\ executed[r] = 0
      BY <2>1, <3>1 DEF WireInv, Commands
    <3>. QED  BY <3>2 DEF Quiet
  <2>. QED  BY <2>1 DEF Commands
<1>4. Answers'
  BY DEF Quiet, Fewer, WireInv, Answers
<1>5. InUse'
  <2>1. ASSUME NEW r \in Requests, pc'[r] \in Exchanging
        PROVE  /\ on'[r] \in Streams /\ current' \in {0, on'[r]}
               /\ Len(inbox'[on'[r]]) # 0 => inbox'[on'[r]][1].of = r
               /\ Len(outbox'[on'[r]]) # 0 => outbox'[on'[r]][1].of = r
    <3>1. pc[r] \in Exchanging /\ on'[r] = on[r]
      BY <2>1 DEF Quiet
    <3>2. on[r] \in Streams /\ current \in {0, on[r]}
      BY <3>1 DEF WireInv, InUse
    <3>. QED  BY <2>1, <3>1, <3>2 DEF Quiet, Fewer, WireInv, InUse
  <2>. QED  BY <2>1 DEF InUse
<1>6. Clean'
  <2>1. CASE current' = 0
    BY <2>1 DEF Clean
  <2>2. CASE /\ current' = current /\ current # 0
             /\ \A r \in Requests : pc[r] \in Exchanging => pc'[r] \in Exchanging
    <3>1. current \in Streams
      BY <2>2 DEF TypeOK
    <3>. QED  BY <2>2, <3>1 DEF Quiet, Fewer, WireInv, Clean
  <2>3. CASE opened' = opened + 1 /\ current' = opened + 1
    <3>1. current' \in Streams /\ current' > opened
      BY <1>0, <2>3 DEF TypeOK
    <3>. QED  BY <3>1 DEF Quiet, Fewer, WireInv, Unopened, Clean
  <2>. QED  BY <2>1, <2>2, <2>3 DEF Quiet
<1>7. Counted'
  BY DEF Quiet, WireInv, Counted
<1>8. OwnAnswer'
  BY DEF Quiet, WireInv, OwnAnswer
<1>. QED  BY <1>1, <1>2, <1>3, <1>4, <1>5, <1>6, <1>7, <1>8 DEF WireInv

\* The lock is entered only when nobody holds it.
LEMMA HolderStep ==
  ASSUME TypeOK, OneHolder, [Next]_vars
  PROVE  OneHolder'
<1>1. CASE \E r \in Requests : Enter(r)
  <2>1. PICK r \in Requests : Enter(r)
    BY <1>1
  <2>2. \A q \in Requests \ {r} : pc'[q] = pc[q] /\ pc[q] \notin Holding
    BY <2>1 DEF TypeOK, Enter, LockFree, Recover, Go
  <2>. QED  BY <2>2 DEF OneHolder
<1>2. CASE ~\E r \in Requests : Enter(r)
  <2>1. \A q \in Requests : pc'[q] \in Holding => pc[q] \in Holding
    <3>1. ASSUME NEW r \in Requests,
                 \/ Call(r) \/ Closed(r) \/ OpenEnds(r) \/ Send(r) \/ Drained(r) \/ DrainFails(r)
                 \/ Read(r) \/ ReadFails(r) \/ Timeout(r) \/ CancelClosed(r) \/ Cancel(r)
          PROVE  \A q \in Requests : pc'[q] \in Holding => pc[q] \in Holding
      BY <3>1
      DEF TypeOK, Call, Closed, OpenEnds, Opened, Send, Drained, DrainFails, Read, Accepts,
          ReadFails, Timeout, CancelClosed, Cancel, CancelExchange, Recover, Go, Holding,
          Recovering, Exchanging
    <3>2. ASSUME NEW s \in Streams, Execute(s) \/ Break(s) \/ Notice(s)
          PROVE  UNCHANGED pc
      BY <3>2 DEF Execute, Break, Notice
    <3>3. CASE TearDown \/ TornDown \/ UNCHANGED vars
      BY <3>3 DEF TearDown, TornDown, vars
    <3>. QED  BY <1>2, <3>1, <3>2, <3>3 DEF Next, Proceed
  <2>. QED  BY <2>1 DEF OneHolder
<1>. QED  BY <1>1, <1>2

\* Recovering the connection is quiet.
LEMMA RecoverQuiet ==
  ASSUME TypeOK, NEW r \in Requests, NEW next \in {"send", "raise"}, Recover(r, next),
         next = "raise" \/ pc[r] = "waiting", pc[r] \in Exchanging \cup {"sending", "waiting"}
  PROVE  Quiet
<1>1. Fewer /\ current' = 0
  BY DisconnectFewer DEF Recover
<1>2. /\ UNCHANGED <<on, got, executed, opened>>
      /\ pc' = [pc EXCEPT ![r] = IF current = 0 THEN "opening" ELSE "closing"]
      /\ onward' = [onward EXCEPT ![r] = next]
  BY DEF Recover, Go
<1>3. \A q \in Requests :
        /\ Sent(q) => Sent(q)'
        /\ pc'[q] \in Exchanging => pc[q] \in Exchanging
        /\ pc'[q] \in {"answer", "apiError"} <=> pc[q] \in {"answer", "apiError"}
  BY <1>2 DEF TypeOK, Sent, Recovering, Exchanging
<1>. QED  BY <1>1, <1>2, <1>3 DEF Quiet

\* So is every step that neither writes nor reads.
LEMMA QuietSteps ==
  ASSUME TypeOK, OneHolder, NEW r \in Requests,
         \/ Call(r) \/ Enter(r) \/ Closed(r) \/ OpenEnds(r) \/ Drained(r) \/ DrainFails(r)
         \/ ReadFails(r) \/ Timeout(r) \/ CancelClosed(r) \/ Cancel(r)
         \/ Send(r) /\ current = 0
  PROVE  Quiet
<1>1. CASE \/ Call(r) \/ Closed(r) \/ Drained(r) \/ CancelClosed(r)
           \/ /\ pc[r] \in Recovering \cup {"waiting", "cancelClosing"}
              /\ Go(r, "cancelled")
              /\ UNCHANGED <<requestVars, portVars, wireVars, executed>>
           \/ /\ pc[r] = "waiting" /\ Go(r, "sending")
              /\ UNCHANGED <<requestVars, portVars, wireVars, executed>>
           \/ /\ pc[r] = "opening"
              /\ Go(r, IF onward[r] = "send" THEN "refused" ELSE "failed")
              /\ UNCHANGED <<requestVars, portVars, wireVars, executed>>
  <2>1. UNCHANGED <<onward, on, got, executed, opened, current, inbox, outbox>>
    BY <1>1 DEF Call, Closed, Drained, CancelClosed, requestVars, portVars, wireVars
  <2>2. \A q \in Requests :
          /\ Sent(q) => Sent(q)'
          /\ pc'[q] \in Exchanging <=> pc[q] \in Exchanging
          /\ pc'[q] \in {"answer", "apiError"} <=> pc[q] \in {"answer", "apiError"}
    BY <1>1, <2>1
    DEF TypeOK, Sent, Recovering, Exchanging, Call, Closed, Drained, CancelClosed, Go
  <2>. QED  BY <2>1, <2>2 DEF Quiet, Fewer
<1>2. CASE /\ pc[r] = "opening"
           /\ opened' = opened + 1 /\ current' = opened + 1
           /\ Opened(r)
           /\ UNCHANGED <<requestVars, inbox, outbox, executed>>
  <2>1. UNCHANGED <<onward, on, got, executed, inbox, outbox>>
    BY <1>2 DEF requestVars
  <2>2. \A q \in Requests : pc'[q] \notin Exchanging
    BY <1>2 DEF TypeOK, OneHolder, Opened, Go, Holding, Recovering, Exchanging
  <2>3. \A q \in Requests :
          /\ Sent(q) => Sent(q)'
          /\ pc'[q] \in {"answer", "apiError"} <=> pc[q] \in {"answer", "apiError"}
    BY <1>2, <2>1 DEF TypeOK, Sent, Recovering, Exchanging, Opened, Go
  <2>. QED  BY <1>2, <2>1, <2>2, <2>3 DEF Quiet, Fewer
<1>3. CASE pc[r] \in Exchanging \cup {"sending"} /\ CancelExchange(r)
  <2>1. Fewer /\ current' = 0
    BY <1>3, DisconnectFewer DEF CancelExchange
  <2>2. /\ UNCHANGED <<onward, on, got, executed, opened>>
        /\ pc' = [pc EXCEPT ![r] = IF current = 0 THEN "cancelled" ELSE "cancelClosing"]
    BY <1>3 DEF CancelExchange, Go, requestVars
  <2>3. \A q \in Requests :
          /\ Sent(q) => Sent(q)'
          /\ pc'[q] \in Exchanging => pc[q] \in Exchanging
          /\ pc'[q] \in {"answer", "apiError"} <=> pc[q] \in {"answer", "apiError"}
    BY <1>3, <2>2 DEF TypeOK, Sent, Recovering, Exchanging
  <2>. QED  BY <2>1, <2>2, <2>3 DEF Quiet
<1>4. CASE \/ pc[r] = "waiting" /\ Recover(r, "send")
           \/ pc[r] \in Exchanging \cup {"sending"} /\ Recover(r, "raise")
  BY <1>4, RecoverQuiet
<1>. QED
  BY <1>1, <1>2, <1>3, <1>4
  DEF Enter, OpenEnds, DrainFails, ReadFails, Timeout, Cancel, Send, Exchanging

\* And every step of the network and of the client that takes the port down.
LEMMA QuietOthers ==
  ASSUME TypeOK, \/ TearDown \/ TornDown \/ UNCHANGED vars
                 \/ \E s \in Streams : Break(s) \/ Notice(s)
  PROVE  Quiet
<1>1. UNCHANGED <<pc, onward, on, got, executed, opened>>
  BY DEF TearDown, TornDown, Break, Notice, vars, requestVars, portVars
<1>2. Fewer /\ current' \in {0, current}
  <2>1. CASE TearDown
    BY <2>1, DisconnectFewer DEF TearDown
  <2>2. ASSUME NEW s \in Streams, Break(s)
        PROVE  Fewer /\ current' = current
    BY <2>2, LosesFewer DEF Break, portVars
  <2>3. CASE TornDown \/ UNCHANGED vars \/ \E s \in Streams : Notice(s)
    BY <2>3 DEF TornDown, Notice, vars, portVars, wireVars, Fewer
  <2>. QED  BY <2>1, <2>2, <2>3
<1>3. \A r \in Requests : Sent(r) => Sent(r)'
  BY <1>1 DEF Sent
<1>. QED  BY <1>1, <1>2, <1>3 DEF Quiet

-----------------------------------------------------------------------------
(* Writing, reading and executing *)

\* A request is written to a stream that carries nothing.
LEMMA SendKeeps ==
  ASSUME TypeOK, TypeOK', WireInv, OneHolder', NEW r \in Requests, Send(r), current # 0
  PROVE  WireInv'
<1>1. /\ pc[r] = "sending" /\ pc' = [pc EXCEPT ![r] = "draining"]
      /\ on' = [on EXCEPT ![r] = current]
      /\ UNCHANGED <<onward, got, current, opened, torn, link, outbox, executed>>
  BY DEF Send, Go
<1>2. current \in Streams /\ opened \in Nat /\ current = opened
  BY SeerConnectionAssumption DEF TypeOK, Streams
<1>3. \A q \in Requests : pc[q] \notin Exchanging
  BY <1>1 DEF WireInv, OneHolder, Holding, Exchanging
<1>4. Len(inbox[current]) = 0 /\ Len(outbox[current]) = 0
  BY <1>3 DEF WireInv, Clean
<1>5. ~Sent(r) /\ executed[r] = 0
  BY <1>1 DEF Sent, Recovering, Exchanging, WireInv, Counted
<1>6. /\ \A s \in Streams \ {current} : inbox'[s] = inbox[s]
      /\ \/ inbox'[current] = inbox[current]
         \/ Len(inbox'[current]) = 1 /\ inbox'[current][1].of = r
  <2>a. NextReqId \in 0..SeqModulus - 1
    <3>1. reqId \in 0..SeqModulus - 1 /\ SeqModulus \in Nat \ {0}
      BY SeerConnectionAssumption DEF TypeOK
    <3>. QED  BY <3>1 DEF NextReqId
  <2>b. [of |-> r, seq |-> NextReqId] \in Frame
    BY <2>a DEF Frame
  <2>1. inbox[current] \in Seq(Frame) /\ [of |-> r, seq |-> NextReqId] \in Frame
    BY <1>2, <2>b DEF TypeOK
  <2>2. CASE link[current] # "open"
    BY <2>2 DEF Send
  <2>3. CASE link[current] = "open"
    <3>1. inbox' = [inbox EXCEPT ![current] = Append(@, [of |-> r, seq |-> NextReqId])]
      BY <2>3 DEF Send
    <3>2. inbox'[current] = Append(inbox[current], [of |-> r, seq |-> NextReqId])
      BY <1>2, <3>1 DEF TypeOK
    <3>. QED  BY <1>2, <1>4, <2>1, <3>1, <3>2, AppendToBox DEF TypeOK
  <2>. QED  BY <2>2, <2>3
<1>7. \A q \in Requests \ {r} : pc'[q] = pc[q] /\ on'[q] = on[q] /\ (Sent(q) => Sent(q)')
  BY <1>1 DEF TypeOK, Sent
<1>8. pc'[r] = "draining" /\ on'[r] = current /\ Sent(r)'
  BY <1>1 DEF TypeOK, Sent, Exchanging
<1>9. Unopened'
  BY <1>1, <1>2, <1>6 DEF WireInv, Unopened, Streams
<1>10. OneFrame'
  BY <1>1, <1>4, <1>6 DEF WireInv, OneFrame
<1>11. Commands'
  <2>1. ASSUME NEW s \in Streams, NEW q \in Requests, Len(inbox'[s]) # 0, inbox'[s][1].of = q
        PROVE  on'[q] = s /\ Sent(q)' /\ pc'[q] \notin {"answer", "apiError"} /\ executed'[q] = 0
    <3>1. CASE s = current
      BY <1>1, <1>4, <1>5, <1>6, <1>8, <2>1, <3>1
    <3>2. CASE s # current
      <4>1. on[q] = s /\ Sent(q) /\ pc[q] \notin {"answer", "apiError"} /\ executed[q] = 0
        BY <1>6, <2>1, <3>2 DEF WireInv, Commands
      <4>. QED  BY <1>1, <1>5, <1>7, <4>1
    <3>. QED  BY <3>1, <3>2
  <2>. QED  BY <2>1 DEF Commands
<1>12. Answers'
  BY <1>1, <1>5, <1>7 DEF WireInv, Answers
<1>13. InUse'
  BY <1>1, <1>2, <1>3, <1>4, <1>6, <1>7, <1>8 DEF InUse
<1>14. Clean'
  BY <1>8 DEF Clean, Exchanging
<1>15. Counted'
  BY <1>1, <1>5, <1>7, <1>8 DEF WireInv, Counted
<1>16. OwnAnswer'
  BY <1>1 DEF WireInv, OwnAnswer
<1>. QED
  BY <1>9, <1>10, <1>11, <1>12, <1>13, <1>14, <1>15, <1>16 DEF WireInv

\* The answer that is read is the request's own, and leaves the stream empty.
LEMMA ReadKeeps ==
  ASSUME TypeOK, TypeOK', WireInv, OneHolder', NEW r \in Requests, Read(r)
  PROVE  WireInv' /\ executed[r] = 1
<1>1. pc[r] = "reading" /\ on[r] \in Streams /\ current \in {0, on[r]}
  BY DEF Read, TypeOK, WireInv, InUse, Exchanging
<1>2. outbox[on[r]] \in Seq(Answer) /\ outbox[on[r]] # <<>>
  BY <1>1 DEF Read, TypeOK
<1>3. Head(outbox[on[r]]) = outbox[on[r]][1] /\ Len(outbox[on[r]]) # 0
  BY <1>2, HeadOfBox, EmptyBox
<1>4. outbox[on[r]][1].of = r /\ executed[r] = 1
  <2>1. outbox[on[r]][1].of = r
    BY <1>1, <1>3 DEF WireInv, InUse, Exchanging
  <2>. QED  BY <1>1, <1>3, <2>1 DEF WireInv, Answers
<1>5. Len(outbox[on[r]]) = 1 /\ Len(inbox[on[r]]) = 0
  BY <1>1, <1>3 DEF WireInv, OneFrame
<1>6. outbox'[on[r]] = Tail(outbox[on[r]]) /\ \A s \in Streams \ {on[r]} : outbox'[s] = outbox[s]
  BY <1>1 DEF Read, TypeOK
<1>7. Len(outbox'[on[r]]) = 0
  BY <1>2, <1>5, <1>6, HeadOfBox
<1>8. Head(outbox[on[r]]).kind \in {"answer", "apiError"}
  <2>1. Head(outbox[on[r]]) \in Answer
    BY <1>2, HeadOfBox
  <2>. QED  BY <2>1 DEF Read, Accepts, Answer
<1>9. /\ UNCHANGED <<onward, on, current, opened, inbox, executed>>
      /\ got' = [got EXCEPT ![r] = Head(outbox[on[r]]).of]
      /\ pc' = [pc EXCEPT ![r] = Head(outbox[on[r]]).kind]
  BY DEF Read, Go, portVars
<1>10. \A q \in Requests \ {r} : pc'[q] = pc[q] /\ (Sent(q) => Sent(q)')
  BY <1>9 DEF TypeOK, Sent
<1>11. pc'[r] \in {"answer", "apiError"} /\ Sent(r)'
  BY <1>8, <1>9 DEF TypeOK, Sent
<1>12. Unopened'
  <2>1. ASSUME NEW s \in Streams, s > opened'
        PROVE  Len(inbox'[s]) = 0 /\ Len(outbox'[s]) = 0
    <3>1. Len(inbox[s]) = 0 /\ Len(outbox[s]) = 0
      BY <1>9, <2>1 DEF WireInv, Unopened
    <3>. QED  BY <1>6, <1>7, <1>9, <3>1
  <2>. QED  BY <2>1 DEF Unopened
<1>13. OneFrame'
  BY <1>6, <1>7, <1>9 DEF WireInv, OneFrame
<1>14. Commands'
  <2>1. ASSUME NEW s \in Streams, NEW q \in Requests, Len(inbox'[s]) # 0, inbox'[s][1].of = q
        PROVE  on'[q] = s /\ Sent(q)' /\ pc'[q] \notin {"answer", "apiError"} /\ executed'[q] = 0
    <3>1. on[q] = s /\ Sent(q) /\ pc[q] \notin {"answer", "apiError"} /\ executed[q] = 0
      BY <1>9, <2>1 DEF WireInv, Commands
    <3>2. q # r
      BY <1>4, <3>1
    <3>. QED  BY <1>9, <1>10, <3>1, <3>2
  <2>. QED  BY <2>1 DEF Commands
<1>15. Answers'
  BY <1>6, <1>7, <1>9 DEF WireInv, Answers
<1>16. InUse'
  <2>1. \A q \in Requests : pc'[q] \notin Exchanging
    BY <1>1, <1>10, <1>11 DEF WireInv, OneHolder, Holding, Exchanging
  <2>. QED  BY <2>1 DEF InUse
<1>17. Clean'
  BY <1>1, <1>5, <1>7, <1>9 DEF Clean
<1>18. Counted'
  BY <1>4, <1>9, <1>10, <1>11 DEF WireInv, Counted
<1>19. OwnAnswer'
  BY <1>3, <1>4, <1>9 DEF WireInv, OwnAnswer, TypeOK
<1>. QED
  BY <1>4, <1>12, <1>13, <1>14, <1>15, <1>16, <1>17, <1>18, <1>19 DEF WireInv

\* What the controller executes was sent once, and has not been executed.
LEMMA ExecuteKeeps ==
  ASSUME TypeOK, TypeOK', WireInv, OneHolder', NEW s \in Streams, Execute(s)
  PROVE  WireInv' /\ \E r \in Requests : /\ Sent(r) /\ pc[r] \notin {"answer", "apiError"}
                                        /\ executed[r] = 0
                                        /\ executed' = [executed EXCEPT ![r] = 1]
<1>1. inbox[s] \in Seq(Frame) /\ inbox[s] # <<>>
  BY DEF Execute, TypeOK
<1>2. /\ Head(inbox[s]) = inbox[s][1] /\ inbox[s][1] \in Frame
      /\ Len(inbox[s]) # 0 /\ Len(Tail(inbox[s])) = Len(inbox[s]) - 1
  BY <1>1, HeadOfBox, EmptyBox
<1>3. PICK r \in Requests : r = inbox[s][1].of
  BY <1>2 DEF Frame
<1>4. on[r] = s /\ Sent(r) /\ pc[r] \notin {"answer", "apiError"} /\ executed[r] = 0
  BY <1>2, <1>3 DEF WireInv, Commands
<1>5. Len(inbox[s]) = 1 /\ Len(outbox[s]) = 0
  BY <1>2 DEF WireInv, OneFrame
<1>6. /\ UNCHANGED <<pc, onward, on, got, current, opened>>
      /\ inbox' = [inbox EXCEPT ![s] = Tail(@)]
      /\ executed' = [executed EXCEPT ![r] = @ + 1]
  BY <1>2, <1>3 DEF Execute, requestVars, portVars
<1>7. executed' = [executed EXCEPT ![r] = 1]
  BY <1>4, <1>6
<1>8. Len(inbox'[s]) = 0 /\ \A t \in Streams \ {s} : inbox'[t] = inbox[t]
  BY <1>2, <1>5, <1>6 DEF TypeOK
<1>9. /\ \A t \in Streams \ {s} : outbox'[t] = outbox[t]
      /\ \/ outbox'[s] = outbox[s]
         \/ Len(outbox'[s]) = 1 /\ outbox'[s][1].of = r
  <2>1. PICK kind \in {"answer", "apiError", "garbled"} :
          outbox' = IF link[s] # "open" THEN outbox
                    ELSE [outbox EXCEPT ![s] =
                            Append(@, [of |-> Head(inbox[s]).of, seq |-> Head(inbox[s]).seq,
                                       kind |-> kind])]
    BY DEF Execute
  <2>2. CASE link[s] # "open"
    BY <2>1, <2>2
  <2>3. CASE link[s] = "open"
    <3> DEFINE answer == [of |-> Head(inbox[s]).of, seq |-> Head(inbox[s]).seq, kind |-> kind]
    <3>1. answer \in Answer /\ answer.of = r
      BY <1>2, <1>3 DEF Frame, Answer
    <3>2. outbox' = [outbox EXCEPT ![s] = Append(@, answer)] /\ outbox[s] \in Seq(Answer)
      BY <2>1, <2>3 DEF TypeOK
    <3> HIDE DEF answer
    <3>3. outbox'[s] = Append(outbox[s], answer)
      BY <3>2 DEF TypeOK
    <3>4. Len(Append(outbox[s], answer)) = 1 /\ Append(outbox[s], answer)[1] = answer
      BY <1>5, <3>1, <3>2, AppendToBox
    <3>. QED  BY <3>1, <3>2, <3>3, <3>4 DEF TypeOK
  <2>. QED  BY <2>2, <2>3
<1>10. Unopened'
  BY <1>2, <1>5, <1>6, <1>8, <1>9 DEF WireInv, Unopened
<1>11. OneFrame'
  BY <1>5, <1>8, <1>9 DEF WireInv, OneFrame
<1>12. \A q \in Requests : executed'[q] = IF q = r THEN 1 ELSE executed[q]
  BY <1>7 DEF TypeOK
<1>13. \A q \in Requests : Sent(q) <=> Sent(q)'
  BY <1>6 DEF Sent
<1>14. Commands'
  BY <1>4, <1>6, <1>8, <1>12, <1>13 DEF WireInv, Commands
<1>15. Answers'
  BY <1>4, <1>5, <1>6, <1>9, <1>12 DEF WireInv, Answers
<1>16. InUse'
  <2>1. ASSUME NEW q \in Requests, pc'[q] \in Exchanging
        PROVE  /\ on'[q] \in Streams /\ current' \in {0, on'[q]}
               /\ Len(inbox'[on'[q]]) # 0 => inbox'[on'[q]][1].of = q
               /\ Len(outbox'[on'[q]]) # 0 => outbox'[on'[q]][1].of = q
    <3>1. /\ pc[q] \in Exchanging /\ on'[q] = on[q] /\ on[q] \in Streams
          /\ current' = current /\ current \in {0, on[q]}
          /\ Len(inbox[on[q]]) # 0 => inbox[on[q]][1].of = q
          /\ Len(outbox[on[q]]) # 0 => outbox[on[q]][1].of = q
      BY <1>6, <2>1 DEF WireInv, InUse
    <3>2. CASE on[q] = s
      BY <1>2, <1>3, <1>5, <1>8, <1>9, <3>1, <3>2
    <3>3. CASE on[q] # s
      BY <1>8, <1>9, <3>1, <3>3
    <3>. QED  BY <3>2, <3>3
  <2>. QED  BY <2>1 DEF InUse
<1>17. Clean'
  <2>1. CASE current' # 0 /\ \A q \in Requests : pc'[q] \notin Exchanging
    <3>1. current \in Streams /\ Len(inbox[current]) = 0 /\ Len(outbox[current]) = 0
      BY <1>6, <2>1 DEF TypeOK, WireInv, Clean
    <3>2. current # s
      <4>1. CASE current = s
        BY <1>5, <3>1, <4>1
      <4>. QED  BY <4>1
    <3>. QED  BY <1>6, <1>8, <1>9, <3>1, <3>2 DEF Clean
  <2>. QED  BY <2>1 DEF Clean
<1>18. Counted'
  BY <1>4, <1>6, <1>12, <1>13 DEF WireInv, Counted
<1>19. OwnAnswer'
  BY <1>6 DEF WireInv, OwnAnswer
<1>. QED
  BY <1>4, <1>7, <1>10, <1>11, <1>14, <1>15, <1>16, <1>17, <1>18, <1>19 DEF WireInv

\* Every step keeps the invariant.
LEMMA WireStep ==
  ASSUME TypeOK, WireInv, [Next]_vars
  PROVE  WireInv'
<1>1. TypeOK' /\ OneHolder /\ OneHolder'
  BY TypeStep, HolderStep DEF WireInv
<1>2. CASE Quiet
  BY <1>1, <1>2, QuietKeeps
<1>3. ASSUME NEW r \in Requests, Send(r) /\ current # 0
      PROVE  WireInv'
  BY <1>1, <1>3, SendKeeps
<1>4. ASSUME NEW r \in Requests, Read(r)
      PROVE  WireInv'
  BY <1>1, <1>4, ReadKeeps
<1>5. ASSUME NEW s \in Streams, Execute(s)
      PROVE  WireInv'
  BY <1>1, <1>5, ExecuteKeeps
<1>. QED
  BY <1>1, <1>2, <1>3, <1>4, <1>5, QuietSteps, QuietOthers DEF Next, Proceed

\* The invariant holds initially.
LEMMA WireInit == Init => WireInv
<1>. SUFFICES ASSUME Init PROVE WireInv
  OBVIOUS
<1>1. Len(<<>>) = 0
  OBVIOUS
<1>2. /\ \A s \in Streams : Len(inbox[s]) = 0 /\ Len(outbox[s]) = 0
      /\ \A r \in Requests : pc[r] = "idle" /\ executed[r] = 0 /\ got[r] = NoRequest
      /\ current = 1 /\ 1 \in Streams
  BY <1>1, SeerConnectionAssumption DEF Init, Streams
<1>. QED
  BY <1>2
  DEF WireInv, OneHolder, Unopened, OneFrame, Commands, Answers, InUse, Clean, Counted, OwnAnswer,
      Holding, Recovering, Exchanging

\* The invariant holds always.
LEMMA WireAlways == Spec => [](TypeOK /\ WireInv)
<1>1. Init => TypeOK /\ WireInv
  BY TypeInit, WireInit
<1>2. TypeOK /\ WireInv /\ [Next]_vars => TypeOK' /\ WireInv'
  BY TypeStep, WireStep
<1>. QED  BY <1>1, <1>2, PTL DEF Spec

\* No caller is given the answer to another request, however few sequence
\* numbers there are.
THEOREM AnswersAreOwn == Spec => []OwnAnswer
<1>1. WireInv => OwnAnswer
  BY DEF WireInv
<1>. QED  BY <1>1, WireAlways, PTL

\* The stream that a request is about to use carries nothing of an earlier one.
THEOREM BoundaryIsClean == Spec => []CleanBoundary
<1>1. TypeOK /\ WireInv => CleanBoundary
  <2>1. ASSUME TypeOK, WireInv, NEW r \in Requests, pc[r] = "sending", current # 0
        PROVE  inbox[current] = <<>> /\ outbox[current] = <<>>
    <3>1. \A q \in Requests : pc[q] \notin Exchanging
      BY <2>1 DEF WireInv, OneHolder, Holding, Exchanging
    <3>2. /\ Len(inbox[current]) = 0 /\ inbox[current] \in Seq(Frame)
          /\ Len(outbox[current]) = 0 /\ outbox[current] \in Seq(Answer)
      BY <2>1, <3>1 DEF WireInv, Clean, TypeOK
    <3>. QED  BY <3>2, EmptyBox
  <2>. QED  BY <2>1 DEF CleanBoundary
<1>. QED  BY <1>1, WireAlways, PTL

-----------------------------------------------------------------------------
(* The connection implements what a request promises *)

\* A request that moves from one await to another moves for its caller as the
\* two awaits say, and for the caller of no other request.
LEMMA Moves ==
  ASSUME TypeOK, NEW r \in Requests, NEW label, Go(r, label), UNCHANGED executed,
         \/ CallOf(label) = CallOf(pc[r])
         \/ CallOf(pc[r]) = "idle" /\ CallOf(label) = "pending"
         \/ CallOf(pc[r]) = "pending" /\ CallOf(label) = "failed"
         \/ CallOf(pc[r]) = "pending" /\ CallOf(label) = "refused" /\ executed[r] = 0
         \/ CallOf(pc[r]) = "pending" /\ CallOf(label) = "answered" /\ executed[r] = 1
  PROVE  [Promise!Next]_(Promise!vars)
<1> DEFINE call == [q \in Requests |-> CallOf(pc[q])]
<1>1. call' = [call EXCEPT ![r] = CallOf(label)]
  BY DEF Go, TypeOK
<1>2. call[r] = CallOf(pc[r])
  OBVIOUS
<1>3. CASE CallOf(label) = CallOf(pc[r])
  <2>1. call' = call
    BY <1>1, <1>2, <1>3
  <2>. QED  BY <2>1 DEF Promise!vars
<1>4. CASE CallOf(pc[r]) = "idle" /\ CallOf(label) = "pending"
  BY <1>1, <1>2, <1>4 DEF Promise!Next, Promise!Request
<1>5. ASSUME NEW outcome \in Promise!Outcomes, CallOf(pc[r]) = "pending", CallOf(label) = outcome,
             outcome = "answered" => executed[r] = 1, outcome = "refused" => executed[r] = 0
      PROVE  Promise!Next
  <2>1. Promise!Return(r, outcome)
    BY <1>1, <1>2, <1>5 DEF Promise!Return
  <2>. QED  BY <2>1 DEF Promise!Next
<1>. QED  BY <1>3, <1>4, <1>5 DEF Promise!Outcomes

\* Every step is a step of the promise, or changes nothing the caller or the
\* controller sees.
LEMMA PromiseStep ==
  ASSUME TypeOK, WireInv, TypeOK', OneHolder', [Next]_vars
  PROVE  [Promise!Next]_(Promise!vars)
<1>a. ASSUME NEW r \in Requests, NEW next, Recover(r, next),
             pc[r] \in Exchanging \cup {"waiting", "sending"}
      PROVE  [Promise!Next]_(Promise!vars)
  <2>1. PICK label \in Recovering : Go(r, label)
    BY <1>a DEF Recover, Recovering
  <2>2. CallOf(label) = CallOf(pc[r]) /\ UNCHANGED executed
    BY <1>a, <2>1 DEF CallOf, Recover, Recovering, Exchanging
  <2>. QED  BY <2>1, <2>2, Moves
<1>1. ASSUME NEW r \in Requests, Call(r)
      PROVE  [Promise!Next]_(Promise!vars)
  <2>1. Go(r, "waiting") /\ UNCHANGED executed /\ CallOf(pc[r]) = "idle"
    BY <1>1 DEF Call, CallOf
  <2>2. CallOf("waiting") = "pending"
    BY DEF CallOf
  <2>. QED  BY <2>1, <2>2, Moves
<1>2. ASSUME NEW r \in Requests, NEW label \in Holding, Go(r, label), UNCHANGED executed,
             pc[r] \in Holding \cup {"waiting"}
      PROVE  [Promise!Next]_(Promise!vars)
  <2>1. CallOf(label) = CallOf(pc[r])
    BY <1>2 DEF CallOf, Holding, Recovering, Exchanging
  <2>. QED  BY <1>2, <2>1, Moves
<1>3. ASSUME NEW r \in Requests, NEW label \in {"failed", "cancelled"}, Go(r, label),
             UNCHANGED executed, pc[r] \in Holding \cup {"waiting"}
      PROVE  [Promise!Next]_(Promise!vars)
  <2>1. CallOf(pc[r]) = "pending" /\ CallOf(label) = "failed"
    BY <1>3 DEF CallOf, Holding, Recovering, Exchanging
  <2>. QED  BY <1>3, <2>1, Moves
<1>4. ASSUME NEW r \in Requests, OpenEnds(r)
      PROVE  [Promise!Next]_(Promise!vars)
  <2>1. /\ pc[r] = "opening" /\ onward[r] \in {"send", "raise"} /\ UNCHANGED executed
        /\ \E label \in {"sending", "failed", "refused"} : Go(r, label)
        /\ Go(r, "refused") => onward[r] = "send"
    BY <1>4 DEF OpenEnds, Opened, Go, TypeOK
  <2>2. CASE Go(r, "refused")
    <3>1. executed[r] = 0
      BY <2>1, <2>2 DEF WireInv, Counted, Sent, Recovering, Exchanging
    <3>2. CallOf(pc[r]) = "pending" /\ CallOf("refused") = "refused"
      BY <2>1 DEF CallOf
    <3>. QED  BY <2>1, <2>2, <3>1, <3>2, Moves
  <2>. QED  BY <1>2, <1>3, <2>1, <2>2 DEF Holding, Recovering
<1>5. ASSUME NEW r \in Requests, Read(r)
      PROVE  [Promise!Next]_(Promise!vars)
  <2>1. /\ executed[r] = 1 /\ UNCHANGED executed /\ CallOf(pc[r]) = "pending"
        /\ Go(r, Head(outbox[on[r]]).kind) /\ pc' \in [Requests -> {"idle", "waiting"} \cup Holding \cup Outcomes]
    BY <1>5, ReadKeeps DEF Read, CallOf, TypeOK
  <2>2. CallOf(Head(outbox[on[r]]).kind) = "answered"
    <3>1. on[r] \in Streams /\ outbox[on[r]] \in Seq(Answer) /\ outbox[on[r]] # <<>>
      BY <1>5 DEF Read, TypeOK, Exchanging
    <3>2. Head(outbox[on[r]]) \in Answer
      BY <3>1, HeadOfBox
    <3>. QED  BY <1>5, <3>2 DEF Read, Accepts, Answer, CallOf
  <2>. QED  BY <2>1, <2>2, Moves
<1>6. ASSUME NEW s \in Streams, Execute(s)
      PROVE  [Promise!Next]_(Promise!vars)
  <2>1. PICK r \in Requests : /\ Sent(r) /\ pc[r] \notin {"answer", "apiError"}
                              /\ executed[r] = 0 /\ executed' = [executed EXCEPT ![r] = 1]
    BY <1>6, ExecuteKeeps
  <2>2. CallOf(pc[r]) \in {"pending", "failed"}
    BY <2>1 DEF Sent, CallOf, Recovering, Exchanging
  <2>3. UNCHANGED pc
    BY <1>6 DEF Execute
  <2>4. Promise!Perform(r)
    BY <2>1, <2>2, <2>3 DEF Promise!Perform
  <2>. QED  BY <2>4 DEF Promise!Next
<1>7. CASE UNCHANGED <<pc, executed>>
  BY <1>7 DEF Promise!vars
<1>. QED
  <2>1. ASSUME NEW r \in Requests, Enter(r) \/ Send(r) \/ DrainFails(r) \/ ReadFails(r) \/ Timeout(r)
        PROVE  [Promise!Next]_(Promise!vars)
    BY <1>a, <1>2, <2>1
    DEF Enter, Send, DrainFails, ReadFails, Timeout, Holding, Exchanging
  <2>2. ASSUME NEW r \in Requests, Closed(r) \/ Drained(r)
        PROVE  [Promise!Next]_(Promise!vars)
    BY <1>2, <2>2 DEF Closed, Drained, Holding, Recovering, Exchanging
  <2>3. ASSUME NEW r \in Requests, CancelClosed(r) \/ Cancel(r)
        PROVE  [Promise!Next]_(Promise!vars)
    BY <1>2, <1>3, <2>3
    DEF CancelClosed, Cancel, CancelExchange, Holding, Recovering, Exchanging
  <2>4. ASSUME \/ TearDown \/ TornDown \/ UNCHANGED vars
               \/ \E s \in Streams : Break(s) \/ Notice(s)
        PROVE  [Promise!Next]_(Promise!vars)
    BY <1>7, <2>4 DEF TearDown, TornDown, Break, Notice, vars
  <2>. QED
    BY <1>1, <1>4, <1>5, <1>6, <2>1, <2>2, <2>3, <2>4 DEF Next, Proceed

\* The connection keeps its promise: a request is performed at most once, never
\* when it was refused, and is only answered when it was performed.
THEOREM Implements == Spec => KeepsPromise
<1>1. Init => Promise!Init
  BY DEF Init, Promise!Init, CallOf
<1>2. TypeOK /\ WireInv /\ [Next]_vars => [Promise!Next]_(Promise!vars)
  BY PromiseStep, TypeStep, HolderStep DEF WireInv
<1>. QED  BY <1>1, <1>2, WireAlways, PTL DEF Spec, KeepsPromise, Promise!Spec

-----------------------------------------------------------------------------
(* PioLink: the frame of an action, by what becomes of it *)

\* Writes of a ping, and of a blink
Sweeps == {"sweepOn", "sweepOff"}
Pulses == {"pulseOn", "pulseOff"}

\* Where an action of each kind may be
Placed(f, m) ==
  /\ f.pc \in PairPlaces => f.act.kind \in {"init", "scenario", "ping"} /\ ~f.begun
  /\ f.pc = "readGo" => m # "reply"
  /\ f.pc = "poll" => m = "held"
  /\ f.pc \in StepPlaces =>
       \/ f.act.kind = "scenario" /\ f.begun /\ f.todo # <<>>
       \/ f.pc \in {"write", "verify"} /\ f.phase \in Sweeps
  /\ f.pc = "branch" => Head(f.todo).type = "if"
  /\ f.pc \in {"write", "verify"} /\ f.phase \in Sweeps => f.act.kind = "ping"
  /\ f.pc = "dwell" => f.act.kind = "ping" /\ f.phase \in Sweeps
  /\ f.pc = "keep" => f.phase \in Pulses
  /\ f.pc \in {"goOff", "clear", "cleared"} => f.act.kind \in {"disconnect", "ping"}
  /\ f.pc \in UnpairPlaces =>
       \/ f.act.kind \in {"disconnect", "ping"}
       \/ f.act.kind = "scenario" /\ f.begun
  /\ f.begun => f.act.kind = "scenario" /\ f.pc # "idle"
  /\ f.act.disconnect => f.act.kind = "scenario"

\* What the frame knows of the facility
Answered(f) ==
  /\ f.got = "frame" => f.answered
  /\ f.pc = "idle" /\ f.act.kind = "init" /\ f.outcome = "finished" => f.answered
  /\ f.pc \in {"idle", "clear", "cleared"} /\ f.act.kind = "disconnect"
       /\ f.outcome = "finished" => f.sawOff

\* The action lowers SELECT before it ends
Selecting(f, m) ==
  \/ f.pc \in {"settle", "poll", "hold", "selectOff", "unsettle", "unselectOff"}
  \/ f.pc = "readGo" /\ m = "held"

\* The action lowers the output before it ends
Blinking(f) ==
  \/ f.pc \in {"write", "verify"} /\ f.phase \in Pulses
  \/ f.pc \in {"keep", "check"}
  \/ f.pc = "write" /\ f.phase = "low"

\* The lines while one action runs
Lined(f, m, sel, hrd, prd, l) ==
  /\ sel => Selecting(f, m)
  /\ l = "blink" => Blinking(f)
  /\ f.pc \in {"unsettle", "unselectOff"} => sel /\ ~hrd
  /\ f.pc = "unsettled" => ~prd

\* The step from f to g does not end a scenario that owes a release
Released(f, g, prd) ==
  f.begun /\ f.act.disconnect /\ g.pc = "idle" => ~prd \/ g.told

\* What is the same after a step that reads nothing of the facility
Carries(f, g) ==
  /\ g \in Frames
  /\ g.act.kind = f.act.kind /\ g.act.disconnect = f.act.disconnect
  /\ g.answered = f.answered /\ g.sawOff = f.sawOff /\ g.told = f.told
  /\ \/ g.pc = "idle" /\ ~g.begun /\ g.got = "none"
     \/ g.pc # "idle" /\ g.begun = f.begun /\ g.got = f.got

\* The first await of a step of a scenario
AtStep(g) ==
  /\ g.pc \in {"write", "read", "branch", "sleep", "glance"}
  /\ g.todo # <<>>
  /\ g.pc = "write" => g.phase \in {"on", "off"}
  /\ g.pc = "branch" => Head(g.todo).type = "if"

\* Where the body of a scenario ends
Leaving(f, g) == g.pc = IF f.act.disconnect THEN "unselectOn" ELSE "idle"

\* Where the next step of a scenario may lead
Onward(f, g) == Carries(f, g) /\ (AtStep(g) \/ Leaving(f, g))

\* The fields of a frame.
LEMMA FrameFields ==
  ASSUME NEW f \in Frames
  PROVE  /\ f.pc \in Places \cup {"idle"} /\ f.act \in Acts /\ f.todo \in Seq(Steps)
         /\ f.phase \in Phases /\ f.tries \in Nat /\ f.got \in {"none", "noise", "frame"}
         /\ f.ok \in BOOLEAN /\ f.wasOpen \in BOOLEAN /\ f.outcome \in Results
         /\ f.begun \in BOOLEAN /\ f.answered \in BOOLEAN /\ f.sawOff \in BOOLEAN
         /\ f.told \in BOOLEAN
         /\ f.act.kind \in Kinds \cup {"none"} /\ f.act.disconnect \in BOOLEAN
         /\ f.act.script \in Seq(Steps) /\ f.act.pair \in BOOLEAN /\ f.act.clear \in BOOLEAN
  BY DEF Frames, Acts

\* The frame of a task that runs nothing.
LEMMA IdleFrameOK == IdleFrame \in Frames
  BY DEF IdleFrame, Nothing, Frames, Acts, Places, Phases, Results, Kinds

\* What an action that ends leaves in its frame.
LEMMA EndedFacts ==
  ASSUME NEW f \in Frames, NEW o \in Results
  PROVE  /\ Carries(f, Ended(f, o))
         /\ Ended(f, o).pc = "idle" /\ Ended(f, o).outcome = o
<1> DEFINE a == [f.act EXCEPT !.script = <<>>]
<1>0. f.act \in Acts
  BY FrameFields
<1>1. a \in Acts /\ a.kind = f.act.kind /\ a.disconnect = f.act.disconnect
  <2>1. <<>> \in Seq(Steps)
    OBVIOUS
  <2> QED
    BY <1>0, <2>1 DEF Acts
<1> HIDE DEF a
<1> DEFINE g == [IdleFrame EXCEPT !.act = a, !.outcome = o, !.answered = f.answered,
                                  !.sawOff = f.sawOff, !.told = f.told]
<1>2. Ended(f, o) = g
  BY DEF Ended, a
<1>3. g \in Frames
  BY <1>1, IdleFrameOK, FrameFields DEF Frames
<1>4. /\ g.pc = IdleFrame.pc /\ g.outcome = o /\ g.act = a /\ g.answered = f.answered
      /\ g.sawOff = f.sawOff /\ g.told = f.told /\ g.begun = IdleFrame.begun
      /\ g.got = IdleFrame.got
  BY IdleFrameOK DEF Frames
<1> HIDE DEF g
<1>5. g.pc = "idle" /\ ~g.begun /\ g.got = "none"
  BY <1>4 DEF IdleFrame
<1> QED
  BY <1>1, <1>2, <1>3, <1>4, <1>5 DEF Carries

\* The body of a scenario ends on the way out, or ends the action.
LEMMA LeaveFacts ==
  ASSUME NEW f \in Frames, NEW o \in Results
  PROVE  /\ Carries(f, LeaveScript(f, o)) /\ Leaving(f, LeaveScript(f, o))
         /\ LeaveScript(f, o).outcome = o
<1>1. CASE f.act.disconnect
  <2> DEFINE g == [f EXCEPT !.pc = "unselectOn", !.outcome = o]
  <2>1. g \in Frames
    BY FrameFields DEF Frames, Places, UnpairPlaces
  <2>2. /\ g.pc = "unselectOn" /\ g.outcome = o /\ g.act = f.act /\ g.answered = f.answered
        /\ g.sawOff = f.sawOff /\ g.told = f.told /\ g.begun = f.begun /\ g.got = f.got
    BY DEF Frames
  <2>3. LeaveScript(f, o) = g
    BY <1>1 DEF LeaveScript
  <2> HIDE DEF g
  <2> QED
    BY <1>1, <2>1, <2>2, <2>3 DEF Carries, Leaving
<1>2. CASE ~f.act.disconnect
  BY <1>2, EndedFacts DEF LeaveScript, Leaving
<1> QED
  BY <1>1, <1>2

\* A step of a scenario is followed by the next one, or by the way out.
LEMMA NextStepFacts ==
  ASSUME NEW f \in Frames
  PROVE  Onward(f, NextStep(f))
<1>1. CASE f.todo = <<>>
  BY <1>1, LeaveFacts DEF NextStep, Onward, Results
<1>2. CASE f.todo # <<>>
  <2> DEFINE type == Head(f.todo).type
             enters(place) == [f EXCEPT !.pc = place, !.tries = 0]
             raises == [enters("write") EXCEPT !.phase = type]
  <2>1. ASSUME NEW place \in Places, place # "idle"
        PROVE  /\ Carries(f, enters(place)) /\ enters(place).pc = place
               /\ enters(place).todo = f.todo
    <3>1. enters(place) \in Frames
      BY <2>1, FrameFields DEF Frames
    <3> QED
      BY <2>1, <3>1 DEF Carries, Frames
  <2>2. CASE type \in {"on", "off"}
    <3>1. raises \in Frames
      BY <2>2, FrameFields DEF Frames, Places, StepPlaces, Phases
    <3>2. Carries(f, raises) /\ raises.pc = "write" /\ raises.todo = f.todo /\ raises.phase = type
      BY <3>1 DEF Carries, Frames
    <3>3. NextStep(f) = raises
      BY <1>2, <2>2 DEF NextStep
    <3> HIDE DEF raises
    <3> QED
      BY <1>2, <2>2, <3>2, <3>3 DEF Onward, AtStep
  <2>3. CASE type \in {"in", "if", "delay", "blink"}
    <3>1. \E place \in {"read", "branch", "sleep", "glance"} :
            NextStep(f) = enters(place) /\ (place = "branch" => type = "if")
      BY <1>2, <2>3 DEF NextStep
    <3> HIDE DEF enters
    <3> QED
      BY <1>2, <2>1, <3>1 DEF Onward, AtStep, Places, StepPlaces
  <2>4. CASE type \notin {"on", "off", "in", "if", "delay", "blink"}
    <3>1. NextStep(f) = LeaveScript(f, "failed")
      BY <1>2, <2>4 DEF NextStep
    <3> QED
      BY <3>1, LeaveFacts DEF Onward, Results
  <2> QED
    BY <2>2, <2>3, <2>4
<1> QED
  BY <1>1, <1>2

\* The step that is done is taken off the script.
LEMMA StepDoneFacts ==
  ASSUME NEW f \in Frames, f.todo # <<>>
  PROVE  Onward(f, StepDone(f))
<1> DEFINE g == [f EXCEPT !.todo = Tail(@)]
<1>1. Tail(f.todo) \in Seq(Steps)
  BY FrameFields, HeadTailProperties
<1>2. g \in Frames
  BY <1>1, FrameFields DEF Frames
<1>3. /\ g.pc = f.pc /\ g.act = f.act /\ g.answered = f.answered /\ g.sawOff = f.sawOff
      /\ g.told = f.told /\ g.begun = f.begun /\ g.got = f.got
  BY DEF Frames
<1>4. StepDone(f) = NextStep(g)
  BY DEF StepDone
<1> HIDE DEF g
<1>5. Onward(g, NextStep(g))
  BY <1>2, <1>3, NextStepFacts
<1> QED
  BY <1>3, <1>4, <1>5 DEF Onward, Carries, Leaving

\* The steps of a scenario begin where its pairing has ended.
LEMMA StartScriptFacts ==
  ASSUME NEW f \in Frames
  PROVE  LET g == [f EXCEPT !.begun = TRUE] IN g \in Frames /\ Onward(g, StartScript(f))
<1> DEFINE h == [f EXCEPT !.begun = TRUE]
           g == [f EXCEPT !.begun = TRUE, !.todo = f.act.script]
<1>1. g \in Frames /\ h \in Frames
  BY FrameFields DEF Frames
<1>2. /\ g.pc = h.pc /\ g.act = h.act /\ g.answered = h.answered /\ g.sawOff = h.sawOff
      /\ g.told = h.told /\ g.begun = h.begun /\ g.got = h.got
  BY DEF Frames
<1>3. StartScript(f) = NextStep(g)
  BY DEF StartScript
<1> HIDE DEF g, h
<1>4. Onward(g, NextStep(g))
  BY <1>1, <1>2, NextStepFacts
<1>5. Onward(h, StartScript(f))
  BY <1>2, <1>3, <1>4 DEF Onward, Carries, Leaving
<1> QED
  BY <1>1, <1>5 DEF h

\* A branch that is spliced in is a script.
LEMMA BranchFacts ==
  ASSUME NEW f \in Frames, f.todo # <<>>, NEW branch \in Seq(Steps)
  PROVE  Onward(f, NextStep([f EXCEPT !.todo = branch \o Tail(@)]))
<1> DEFINE g == [f EXCEPT !.todo = branch \o Tail(@)]
<1>1. branch \o Tail(f.todo) \in Seq(Steps)
  BY FrameFields, HeadTailProperties, ConcatProperties
<1>2. g \in Frames
  BY <1>1, FrameFields DEF Frames
<1>3. /\ g.pc = f.pc /\ g.act = f.act /\ g.answered = f.answered /\ g.sawOff = f.sawOff
      /\ g.told = f.told /\ g.begun = f.begun /\ g.got = f.got
  BY DEF Frames
<1> HIDE DEF g
<1>5. Onward(g, NextStep(g))
  BY <1>2, <1>3, NextStepFacts
<1>6. Onward(f, NextStep(g))
  BY <1>3, <1>5 DEF Onward, Carries, Leaving
<1> QED
  BY <1>6 DEF g

\* A step that keeps what the frame may be and know
Lawful(f, g, m) == g \in Frames /\ Placed(g, m) /\ (Answered(f) => Answered(g))

\* A place that says nothing of SELECT and the pairing
Free(g) == g.pc \notin {"unsettle", "unselectOff", "unsettled"}

\* g is f but for its place, its loop and its outcome
Same(f, g) ==
  /\ g.act = f.act /\ g.todo = f.todo /\ g.got = f.got /\ g.begun = f.begun
  /\ g.answered = f.answered /\ g.sawOff = f.sawOff /\ g.told = f.told

\* The updates that the actions make of a frame
Moved(f, p) == [f EXCEPT !.pc = p]
Tried(f, n) == [f EXCEPT !.tries = n]
MovedTried(f, p, n) == [f EXCEPT !.pc = p, !.tries = n]
Writing(f, ph) == [f EXCEPT !.pc = "write", !.phase = ph]
Exiting(f, p, o) == [f EXCEPT !.pc = p, !.outcome = o]

\* A frame that goes to another place.
LEMMA MovedFacts ==
  ASSUME NEW f \in Frames, NEW p \in Places
  PROVE  LET g == Moved(f, p)
         IN /\ g \in Frames /\ g.pc = p /\ Same(f, g) /\ g.phase = f.phase
            /\ g.outcome = f.outcome /\ g.ok = f.ok
<1> DEFINE g == Moved(f, p)
<1>1. g \in Frames
  BY FrameFields DEF Frames, Moved
<1>2. g.pc = p /\ Same(f, g) /\ g.phase = f.phase /\ g.outcome = f.outcome /\ g.ok = f.ok
  BY DEF Frames, Same, Moved
<1> QED
  BY <1>1, <1>2

\* A frame that counts another try.
LEMMA TriedFacts ==
  ASSUME NEW f \in Frames, NEW n \in Nat
  PROVE  LET g == Tried(f, n)
         IN /\ g \in Frames /\ g.pc = f.pc /\ Same(f, g) /\ g.phase = f.phase
            /\ g.outcome = f.outcome
<1> DEFINE g == Tried(f, n)
<1>1. g \in Frames
  BY FrameFields DEF Frames, Tried
<1>2. g.pc = f.pc /\ Same(f, g) /\ g.phase = f.phase /\ g.outcome = f.outcome
  BY DEF Frames, Same, Tried
<1> QED
  BY <1>1, <1>2

\* A frame that goes to another place and counts.
LEMMA MovedTriedFacts ==
  ASSUME NEW f \in Frames, NEW p \in Places, NEW n \in Nat
  PROVE  LET g == MovedTried(f, p, n)
         IN g \in Frames /\ g.pc = p /\ Same(f, g) /\ g.phase = f.phase
<1> DEFINE g == MovedTried(f, p, n)
<1>1. g \in Frames
  BY FrameFields DEF Frames, MovedTried
<1>2. g.pc = p /\ Same(f, g) /\ g.phase = f.phase
  BY DEF Frames, Same, MovedTried
<1> QED
  BY <1>1, <1>2

\* A frame that goes on to write the output.
LEMMA WritingFacts ==
  ASSUME NEW f \in Frames, NEW ph \in Phases
  PROVE  LET g == Writing(f, ph)
         IN g \in Frames /\ g.pc = "write" /\ Same(f, g) /\ g.phase = ph
<1> DEFINE g == Writing(f, ph)
<1>1. g \in Frames
  BY FrameFields DEF Frames, Places, StepPlaces, Writing
<1>2. g.pc = "write" /\ Same(f, g) /\ g.phase = ph
  BY DEF Frames, Same, Writing
<1> QED
  BY <1>1, <1>2

\* A frame that goes to another place with an outcome.
LEMMA ExitingFacts ==
  ASSUME NEW f \in Frames, NEW p \in Places, NEW o \in Results
  PROVE  LET g == Exiting(f, p, o)
         IN g \in Frames /\ g.pc = p /\ Same(f, g) /\ g.phase = f.phase /\ g.outcome = o
<1> DEFINE g == Exiting(f, p, o)
<1>1. g \in Frames
  BY FrameFields DEF Frames, Exiting
<1>2. g.pc = p /\ Same(f, g) /\ g.phase = f.phase /\ g.outcome = o
  BY DEF Frames, Same, Exiting
<1> QED
  BY <1>1, <1>2

\* An action that ends otherwise than finished
LEMMA EndedLawful ==
  ASSUME NEW f \in Frames, NEW m, Placed(f, m), NEW o \in Results,
         Answered(f) /\ o = "finished" => /\ f.act.kind = "init" => f.answered
                                          /\ f.act.kind = "disconnect" => f.sawOff
  PROVE  Lawful(f, Ended(f, o), m) /\ Ended(f, o).pc = "idle"
<1> DEFINE g == Ended(f, o)
<1>1. Carries(f, g) /\ g.pc = "idle" /\ g.outcome = o
  BY EndedFacts
<1> HIDE DEF g
<1>2. ~g.begun /\ g.got = "none"
  BY <1>1 DEF Carries
<1>3. Placed(g, m)
  BY <1>1, <1>2 DEF Placed, Carries, PairPlaces, StepPlaces, UnpairPlaces
<1>4. Answered(f) => Answered(g)
  BY <1>1, <1>2 DEF Answered, Carries
<1> QED
  BY <1>1, <1>3, <1>4 DEF Lawful, Carries, g

\* On the way through the steps of a scenario
LEMMA OnwardLawful ==
  ASSUME NEW f \in Frames, NEW m, Placed(f, m), f.begun, NEW g, Onward(f, g)
  PROVE  Lawful(f, g, m) /\ Free(g) /\ (f.act.disconnect => g.pc # "idle")
<1>1. f.act.kind = "scenario" /\ g.act.kind = "scenario" /\ g \in Frames
  BY DEF Placed, Onward, Carries
<1>2. CASE AtStep(g)
  <2>1. g.pc # "idle" /\ g.begun /\ g.got = f.got /\ g.todo # <<>>
    BY <1>2 DEF Onward, Carries, AtStep
  <2>2. Placed(g, m)
    BY <1>1, <1>2, <2>1 DEF Placed, AtStep, PairPlaces, StepPlaces, UnpairPlaces, Sweeps
  <2>3. Answered(f) => Answered(g)
    BY <1>1, <1>2, <2>1 DEF Answered, Onward, Carries
  <2> QED
    BY <1>1, <1>2, <2>1, <2>2, <2>3 DEF Lawful, Free, AtStep
<1>3. CASE Leaving(f, g) /\ f.act.disconnect
  <2>1. g.pc = "unselectOn" /\ g.begun /\ g.got = f.got
    BY <1>3 DEF Onward, Carries, Leaving
  <2>2. Placed(g, m)
    BY <1>1, <2>1 DEF Placed, PairPlaces, StepPlaces, UnpairPlaces
  <2>3. Answered(f) => Answered(g)
    BY <1>1, <2>1 DEF Answered, Onward, Carries
  <2> QED
    BY <1>1, <2>1, <2>2, <2>3 DEF Lawful, Free
<1>4. CASE Leaving(f, g) /\ ~f.act.disconnect
  <2>1. g.pc = "idle" /\ ~g.begun /\ g.got = "none"
    BY <1>4 DEF Onward, Carries, Leaving
  <2>2. Placed(g, m)
    BY <1>1, <2>1 DEF Placed, PairPlaces, StepPlaces, UnpairPlaces
  <2>3. Answered(f) => Answered(g)
    BY <1>1, <2>1 DEF Answered
  <2> QED
    BY <1>1, <1>4, <2>1, <2>2, <2>3 DEF Lawful, Free
<1> QED
  BY <1>2, <1>3, <1>4 DEF Onward

\* The body of a scenario may end at any of its steps.
LEMMA LeaveLawful ==
  ASSUME NEW f \in Frames, NEW m, Placed(f, m), f.begun, NEW o \in Results
  PROVE  LET g == LeaveScript(f, o)
         IN Lawful(f, g, m) /\ Free(g) /\ (f.act.disconnect => g.pc # "idle")
<1>1. f.pc # "idle"
  BY DEF Placed
<1>2. Onward(f, LeaveScript(f, o))
  BY <1>1, LeaveFacts DEF Onward
<1> QED
  BY <1>2, OnwardLawful

\* The next step of a scenario, or its end.
LEMMA StepDoneLawful ==
  ASSUME NEW f \in Frames, NEW m, Placed(f, m), f.begun, f.todo # <<>>
  PROVE  LET g == StepDone(f)
         IN Lawful(f, g, m) /\ Free(g) /\ (f.act.disconnect => g.pc # "idle")
<1>1. f.pc # "idle"
  BY DEF Placed
<1>2. Onward(f, StepDone(f))
  BY <1>1, StepDoneFacts
<1> QED
  BY <1>2, OnwardLawful

\* The finally of a blink
LEMMA LowerOutputLawful ==
  ASSUME NEW f \in Frames, NEW m, Placed(f, m), f.begun, f.todo # <<>>, NEW o \in Results
  PROVE  LET g == LowerOutput(f, o)
         IN Lawful(f, g, m) /\ g.pc = "write" /\ g.phase = "low"
<1> DEFINE g == LowerOutput(f, o)
           h == Writing(f, "low")
<1>0. h \in Frames /\ h.pc = "write" /\ Same(f, h) /\ h.phase = "low"
  BY WritingFacts DEF Phases
<1>1. g = [h EXCEPT !.outcome = o]
  BY DEF LowerOutput, Writing
<1> HIDE DEF g, h
<1>2. g \in Frames
  BY <1>0, <1>1 DEF Frames
<1>5. g.pc = "write" /\ Same(f, g) /\ g.phase = "low"
  BY <1>0, <1>1 DEF Frames, Same
<1>3. Placed(g, m)
  BY <1>5 DEF Placed, Same, PairPlaces, StepPlaces, UnpairPlaces, Sweeps
<1>4. Answered(f) => Answered(g)
  BY <1>5 DEF Answered, Same
<1> QED
  BY <1>2, <1>5, <1>3, <1>4 DEF Lawful, g

\* The finally of a pairing
LEMMA LowerSelectLawful ==
  ASSUME NEW f \in Frames, NEW m, Placed(f, m), f.pc \in PairPlaces, NEW o \in Results
  PROVE  LET g == LowerSelect(f, o)
         IN Lawful(f, g, m) /\ g.pc = "hold"
<1> DEFINE g == LowerSelect(f, o)
<1>0. "hold" \in Places
  BY DEF Places, PairPlaces
<1>5. g = Exiting(f, "hold", o)
  BY DEF LowerSelect, Exiting
<1> HIDE DEF g
<1>1. g \in Frames /\ g.pc = "hold" /\ Same(f, g)
  BY <1>0, <1>5, ExitingFacts
<1>3. Placed(g, m)
  BY <1>1 DEF Placed, Same, PairPlaces, StepPlaces, UnpairPlaces, Sweeps
<1>4. Answered(f) => Answered(g)
  BY <1>1 DEF Answered, Same
<1> QED
  BY <1>1, <1>3, <1>4 DEF Lawful, g

\* The first step of a scenario finds no line that the action raised.
LEMMA StartScriptLawful ==
  ASSUME NEW f \in Frames, NEW m, f.act.kind = "scenario"
  PROVE  LET g == StartScript(f)
         IN /\ g \in Frames /\ Placed(g, m)
            /\ (f.got = "frame" => f.answered) => Answered(g)
            /\ Free(g) /\ ~Selecting(g, m) /\ ~Blinking(g)
<1> DEFINE h == [f EXCEPT !.begun = TRUE]
           g == StartScript(f)
<1>2. h \in Frames /\ Onward(h, g)
  BY StartScriptFacts
<1>3. h.begun /\ h.act = f.act /\ h.got = f.got /\ h.answered = f.answered
  BY DEF Frames
<1> HIDE DEF g, h
<1>4. g \in Frames /\ g.act.kind = "scenario"
  BY <1>2, <1>3 DEF Onward, Carries
<1>5. AtStep(g) \/ g.pc \in {"unselectOn", "idle"}
  BY <1>2 DEF Onward, Leaving
<1>6. /\ g.begun => g.pc # "idle"
      /\ g.pc # "idle" => g.begun
      /\ (f.got = "frame" => f.answered) => (g.got = "frame" => g.answered)
  BY <1>2, <1>3 DEF Onward, Carries
<1>7. ~Selecting(g, m) /\ ~Blinking(g) /\ Free(g)
  BY <1>5 DEF AtStep, Selecting, Blinking, Free, Pulses
<1>8. Placed(g, m)
  BY <1>4, <1>5, <1>6 DEF AtStep, Placed, PairPlaces, StepPlaces, UnpairPlaces, Sweeps
<1>9. (f.got = "frame" => f.answered) => Answered(g)
  BY <1>4, <1>6 DEF Answered
<1> QED
  BY <1>4, <1>7, <1>8, <1>9 DEF g

\* A pairing that has ended
LEMMA PairingEndsLawful ==
  ASSUME NEW f \in Frames, NEW m, Placed(f, m), f.pc \in PairPlaces,
         NEW confirmed \in BOOLEAN
  PROVE  LET g == PairingEnds(f, confirmed)
         IN Lawful(f, g, m) /\ Free(g) /\ ~Selecting(g, m) /\ ~Blinking(g)
<1> DEFINE g == PairingEnds(f, confirmed)
<1> SUFFICES Lawful(f, g, m) /\ Free(g) /\ ~Selecting(g, m) /\ ~Blinking(g)
  OBVIOUS
<1>0. /\ f.act.kind \in {"init", "scenario", "ping"} /\ ~f.begun /\ f.pc # "idle"
      /\ f.act.disconnect => f.act.kind = "scenario"
  BY DEF Placed, PairPlaces
<1>1. CASE f.act.kind = "ping" /\ confirmed
  <2>1. g = Writing(f, "sweepOn")
    BY <1>1 DEF PairingEnds, Writing
  <2> HIDE DEF g
  <2>2. g \in Frames /\ g.pc = "write" /\ Same(f, g) /\ g.phase = "sweepOn"
    BY <2>1, WritingFacts DEF Phases
  <2> QED
    <3>1. Placed(g, m)
      BY <1>0, <1>1, <2>2 DEF Placed, Same, PairPlaces, StepPlaces, UnpairPlaces, Sweeps
    <3>2. Answered(f) => Answered(g)
      BY <2>2 DEF Answered, Same
    <3> QED
      BY <2>2, <3>1, <3>2 DEF Lawful, Free, Selecting, Blinking, Pulses
<1>2. CASE f.act.kind = "ping" /\ ~confirmed
  <2>1. g = Exiting(f, "unselectOn", "failed")
    BY <1>2 DEF PairingEnds, Exiting
  <2> HIDE DEF g
  <2>2. g \in Frames /\ g.pc = "unselectOn" /\ Same(f, g)
    BY <2>1, ExitingFacts DEF Results, Places, UnpairPlaces
  <2> QED
    <3>1. Placed(g, m)
      BY <1>0, <1>2, <2>2 DEF Placed, Same, PairPlaces, StepPlaces, UnpairPlaces
    <3>2. Answered(f) => Answered(g)
      BY <2>2 DEF Answered, Same
    <3> QED
      BY <2>2, <3>1, <3>2 DEF Lawful, Free, Selecting, Blinking
<1>3. CASE f.act.kind # "ping" /\ ~(f.got = "frame" /\ confirmed)
  <2>1. g = Ended(f, "failed")
    BY <1>3 DEF PairingEnds
  <2>2. Lawful(f, g, m) /\ g.pc = "idle"
    BY <2>1, EndedLawful DEF Results
  <2> QED
    BY <2>2 DEF Free, Selecting, Blinking
<1>4. CASE f.act.kind = "init" /\ f.got = "frame" /\ confirmed
  <2>1. g = Ended(f, "finished")
    BY <1>4 DEF PairingEnds
  <2>2. Answered(f) => f.answered
    BY <1>4 DEF Answered
  <2>3. Lawful(f, g, m) /\ g.pc = "idle"
    BY <1>4, <2>1, <2>2, EndedLawful DEF Results
  <2> QED
    BY <2>3 DEF Free, Selecting, Blinking
<1>5. CASE f.act.kind = "scenario" /\ f.got = "frame" /\ confirmed
  <2>1. g = StartScript(f)
    BY <1>5 DEF PairingEnds
  <2>2. Answered(f) => (f.got = "frame" => f.answered)
    BY DEF Answered
  <2> QED
    BY <1>5, <2>1, <2>2, StartScriptLawful DEF Lawful
<1> QED
  BY <1>0, <1>1, <1>2, <1>3, <1>4, <1>5

-----------------------------------------------------------------------------
(* One step of an action *)

\* Replies come in time and in order
Prompt == {"silentBoard", "lateReply", "lateEcho"} \cap May = {}

\* One action at a time, cancelled where a finally covers it, on a board that
\* executes what it confirms and lowers a line when it is told to
Careful == {"overlap", "cancelUnguarded", "offFails", "silentBoard"} \cap May = {}

\* The step from f to g learns nothing wrong of the facility
Truthful(f, g) ==
  Prompt /\ ~late /\ ~echo /\ Answered(f) => ~late' /\ ~echo' /\ Answered(g)

\* The step from f to g leaves no line high that g does not lower, and owes no release
Orderly(f, g) ==
  Careful /\ Lined(f, mode, select, heard, paired, lit) =>
    Lined(g, mode, select', heard', paired', lit') /\ Released(f, g, paired')

\* What every step of the action of t does
Good(t) ==
  \E g \in Frames : /\ Becomes(t, g) /\ Placed(g, mode)
                    /\ Truthful(task[t], g) /\ Orderly(task[t], g)

\* The lines and the port keep their types
Wired ==
  /\ select \in BOOLEAN /\ heard \in BOOLEAN /\ paired \in BOOLEAN
  /\ go \in BOOLEAN /\ input \in BOOLEAN
  /\ port \in BOOLEAN /\ late \in BOOLEAN /\ echo \in BOOLEAN
  /\ lit \in {"none", "step", "blink", "sweep"}

\* A line stays as it should when the frame is to lower it, the step leaves a low line
\* alone, or the step lowers it.
LEMMA Tidy ==
  ASSUME PioTypeOK, Wired', NEW f, NEW g, Free(g),
         Careful => \/ Selecting(g, mode)
                    \/ ~Selecting(f, mode) /\ select' = select
                    \/ ~select',
         Careful => \/ Blinking(g)
                    \/ ~Blinking(f) /\ lit' = lit
                    \/ lit' # "blink",
         f.begun /\ f.act.disconnect => g.pc # "idle"
  PROVE  Orderly(f, g)
  BY DEF Orderly, Lined, Free, Released, PioTypeOK, Wired

\* A lawful step that does no harm to the replies on their way.
LEMMA LawfulGood ==
  ASSUME NEW t, NEW g, Lawful(task[t], g, mode), Becomes(t, g), Orderly(task[t], g),
         Prompt /\ ~late => ~late',
         Prompt /\ ~echo => ~echo'
  PROVE  Good(t)
  BY DEF Good, Lawful, Truthful

\* Every task has a frame.
LEMMA FrameOf ==
  ASSUME PioTypeOK, NEW t \in Tasks
  PROVE  task[t] \in Frames
  BY DEF PioTypeOK

\* A step that reads a reply brings no late one about.
LEMMA Heeding ==
  ASSUME PioTypeOK, Heeds
  PROVE  echo' \in BOOLEAN /\ (~echo => ~echo')
  BY DEF PioTypeOK, Heeds

\* The frame of an action that begins.
LEMMA FirstFrameFacts ==
  ASSUME PioTypeOK, NEW a \in Actions
  PROVE  LET f == FirstFrame(a)
         IN /\ f \in Frames /\ f.act = a /\ f.pc = "idle" /\ ~f.begun /\ f.got = "none"
            /\ f.outcome = "finished"
            /\ a.disconnect => a.kind = "scenario"
            /\ a.kind \in Kinds
<1> DEFINE f == FirstFrame(a)
<1>1. a \in Acts /\ (a.disconnect => a.kind = "scenario") /\ a.kind \in Kinds
  BY PioLinkAssumption DEF Acts
<1>2. f = [IdleFrame EXCEPT !.act = a, !.wasOpen = port]
  BY DEF FirstFrame
<1> HIDE DEF f
<1>3. f \in Frames
  BY <1>1, <1>2, IdleFrameOK DEF Frames, PioTypeOK
<1>4. /\ f.act = a /\ f.pc = IdleFrame.pc /\ f.begun = IdleFrame.begun
      /\ f.got = IdleFrame.got /\ f.outcome = IdleFrame.outcome
  BY <1>2, IdleFrameOK DEF Frames
<1>5. f.pc = "idle" /\ ~f.begun /\ f.got = "none" /\ f.outcome = "finished"
  BY <1>4 DEF IdleFrame
<1> QED
  BY <1>1, <1>3, <1>4, <1>5 DEF f

\* A command for SELECT leaves levels.
LEMMA SelectWired ==
  ASSUME PioTypeOK, NEW up \in BOOLEAN, SetSelect(up) \/ UNCHANGED lines
  PROVE  select' \in BOOLEAN /\ heard' \in BOOLEAN /\ paired' \in BOOLEAN
  BY DEF PioTypeOK, SetSelect, lines

\* Who raised the output.
LEMMA RaiserType ==
  ASSUME NEW ph PROVE Raiser(ph) \in {"none", "step", "blink", "sweep"}
  BY DEF Raiser

\* An action begins, or ends at once because the port does not open.
LEMMA BeginGood ==
  ASSUME PioTypeOK, Wired', NEW t \in Tasks, Placed(task[t], mode), Begin(t)
  PROVE  Good(t)
<1> DEFINE f == task[t]
<1>1. f.pc = "idle" /\ ~f.begun
  BY DEF Begin, Idle, Placed
<1>2. ~Selecting(f, mode) /\ ~Blinking(f)
  BY <1>1 DEF Selecting, Blinking
<1>3. UNCHANGED <<lines, lit, echo, mode>>
  BY DEF Begin
<1>4. PICK a \in Actions : BeginPairing(t, a) \/ BeginWithout(t, a)
  BY DEF Begin
<1> DEFINE b == FirstFrame(a)
<1>5. /\ b \in Frames /\ b.act = a /\ b.pc = "idle" /\ ~b.begun /\ b.got = "none"
      /\ b.outcome = "finished" /\ (a.disconnect => a.kind = "scenario") /\ a.kind \in Kinds
  BY FirstFrameFacts
<1> HIDE DEF b, f
<1>6. ASSUME NEW g \in Frames, Becomes(t, g), Placed(g, mode), Answered(g), Free(g),
             ~late => ~late'
      PROVE  Good(t)
  <2>1. Orderly(f, g)
    BY <1>1, <1>2, <1>3, <1>6, Tidy DEF lines
  <2> QED
    BY <1>3, <1>6, <2>1, LawfulGood DEF Lawful, f
<1>7. CASE /\ a.kind \in {"init", "ping"} \/ (a.kind = "scenario" /\ a.pair)
           /\ late' = (late /\ port)
           /\ Becomes(t, [b EXCEPT !.pc = "selectOn"])
  <2> DEFINE g == Moved(b, "selectOn")
  <2>1. g \in Frames /\ g.pc = "selectOn" /\ Same(b, g)
    BY <1>5, MovedFacts DEF Places, PairPlaces
  <2>2. Becomes(t, g)
    BY <1>7 DEF Moved
  <2> HIDE DEF g
  <2>3. Placed(g, mode)
    BY <1>5, <1>7, <2>1 DEF Same, Placed, PairPlaces, StepPlaces, UnpairPlaces
  <2>4. Answered(g) /\ Free(g)
    BY <1>5, <2>1 DEF Same, Answered, Free
  <2> QED
    BY <1>6, <1>7, <2>1, <2>2, <2>3, <2>4
<1>8. CASE Becomes(t, [Ended(b, "failed") EXCEPT !.told = TRUE]) /\ UNCHANGED serial
  <2> DEFINE e == Ended(b, "failed")
             g == [e EXCEPT !.told = TRUE]
  <2>1. Carries(b, e) /\ e.pc = "idle" /\ e.outcome = "failed"
    BY <1>5, EndedFacts DEF Results
  <2>2. Becomes(t, g)
    BY <1>8
  <2> HIDE DEF e
  <2>3. g \in Frames
    BY <2>1, FrameFields DEF Frames, Carries
  <2>4. g.pc = "idle" /\ g.act = e.act /\ g.got = "none" /\ ~g.begun /\ g.outcome = "failed"
    BY <2>1 DEF Frames, Carries
  <2> HIDE DEF g
  <2>5. Placed(g, mode)
    BY <1>5, <2>1, <2>4 DEF Carries, Placed, PairPlaces, StepPlaces, UnpairPlaces
  <2>6. Answered(g) /\ Free(g)
    BY <2>4 DEF Answered, Free
  <2> QED
    BY <1>6, <1>8, <2>2, <2>3, <2>5, <2>6 DEF serial
<1>9. CASE a.kind = "scenario" /\ Becomes(t, StartScript(b)) /\ UNCHANGED serial
  BY <1>5, <1>6, <1>9, StartScriptLawful DEF serial
<1>10. CASE /\ a.kind = "disconnect" /\ Becomes(t, [b EXCEPT !.pc = "unselectOn"])
            /\ UNCHANGED serial
  <2> DEFINE g == Moved(b, "unselectOn")
  <2>1. g \in Frames /\ g.pc = "unselectOn" /\ Same(b, g)
    BY <1>5, MovedFacts DEF Places, UnpairPlaces
  <2>2. Becomes(t, g)
    BY <1>10 DEF Moved
  <2> HIDE DEF g
  <2>3. Placed(g, mode)
    BY <1>5, <1>10, <2>1 DEF Same, Placed, PairPlaces, StepPlaces, UnpairPlaces
  <2>4. Answered(g) /\ Free(g)
    BY <1>5, <2>1 DEF Same, Answered, Free
  <2> QED
    BY <1>6, <1>10, <2>1, <2>2, <2>3, <2>4 DEF serial
<1> QED
  BY <1>4, <1>7, <1>8, <1>9, <1>10 DEF BeginPairing, BeginWithout, b

\* SELECT rises before the BC.
LEMMA SelectOnGood ==
  ASSUME PioTypeOK, Wired', NEW t \in Tasks, Placed(task[t], mode), SelectOn(t)
  PROVE  Good(t)
<1> DEFINE f == task[t]
<1>1. f \in Frames /\ f.pc = "selectOn" /\ f.pc \in PairPlaces /\ ~f.begun
  BY FrameOf DEF SelectOn, At, Placed, PairPlaces
<1>2. ~Selecting(f, mode) /\ ~Blinking(f)
  BY <1>1 DEF Selecting, Blinking
<1>3. UNCHANGED <<mode, lit, late>> /\ (~echo => ~echo')
  BY Heeding DEF SelectOn, serial
<1>4. PICK answer \in BoardAnswers(FALSE) :
        /\ Does(answer, SetSelect(TRUE), UNCHANGED lines)
        /\ Becomes(t, IF answer # "error" THEN [f EXCEPT !.pc = "settle"]
                      ELSE IF mode = "held" THEN Ended(f, "failed")
                      ELSE LowerSelect(f, "failed"))
  BY DEF SelectOn
<1> HIDE DEF f
<1>5. ASSUME NEW g, Becomes(t, g), Lawful(f, g, mode), Free(g),
             Selecting(g, mode) \/ select' = select
      PROVE  Good(t)
  <2>1. Orderly(f, g)
    BY <1>1, <1>2, <1>3, <1>5, Tidy
  <2> QED
    BY <1>3, <1>5, <2>1, LawfulGood DEF f
<1>6. CASE answer # "error"
  <2> DEFINE g == Moved(f, "settle")
  <2>1. g \in Frames /\ g.pc = "settle" /\ Same(f, g)
    BY <1>1, MovedFacts DEF Places, PairPlaces
  <2>2. Becomes(t, g)
    BY <1>4, <1>6 DEF Moved
  <2> HIDE DEF g
  <2>3. Placed(g, mode)
    BY <1>1, <2>1 DEF f, Same, Placed, PairPlaces, StepPlaces, UnpairPlaces
  <2>4. Answered(f) => Answered(g)
    BY <2>1 DEF Same, Answered
  <2> QED
    BY <1>5, <2>1, <2>2, <2>3, <2>4 DEF Lawful, Free, Selecting
<1>7. CASE answer = "error"
  <2>1. select' = select
    BY <1>4, <1>7 DEF Does, lines
  <2>2. CASE mode = "held"
    <3>1. Becomes(t, Ended(f, "failed"))
      BY <1>4, <1>7, <2>2
    <3>2. Lawful(f, Ended(f, "failed"), mode) /\ Ended(f, "failed").pc = "idle"
      BY <1>1, EndedLawful DEF f, Results
    <3> QED
      BY <1>5, <2>1, <3>1, <3>2 DEF Free
  <2>3. CASE mode # "held"
    <3>1. Becomes(t, LowerSelect(f, "failed"))
      BY <1>4, <1>7, <2>3
    <3>2. Lawful(f, LowerSelect(f, "failed"), mode) /\ LowerSelect(f, "failed").pc = "hold"
      BY <1>1, LowerSelectLawful DEF f, Results
    <3> QED
      BY <1>5, <2>1, <3>1, <3>2 DEF Free
  <2> QED
    BY <2>2, <2>3
<1> QED
  BY <1>6, <1>7

\* A reply to the BC is a frame only if the facility received it.
LEMMA SendBCGood ==
  ASSUME PioTypeOK, Wired', NEW t \in Tasks, Placed(task[t], mode), SendBC(t)
  PROVE  Good(t)
<1> DEFINE f == task[t]
<1>1. f \in Frames /\ f.pc \in {"settle", "poll"} /\ f.pc \in PairPlaces /\ ~f.begun
  BY FrameOf DEF SendBC, Placed, PairPlaces
<1>2. ~Blinking(f)
  BY <1>1 DEF Blinking
<1>3. UNCHANGED <<mode, lit, echo>>
  BY DEF SendBC
<1>4. ASSUME NEW g, Becomes(t, g), Placed(g, mode), g \in Frames, Free(g), Selecting(g, mode),
             Truthful(f, g)
      PROVE  Good(t)
  <2>1. Orderly(f, g)
    BY <1>1, <1>2, <1>3, <1>4, Tidy
  <2> QED
    BY <1>4, <2>1 DEF Good
<1>5. CASE Becomes(t, LowerSelect(f, "failed")) /\ UNCHANGED <<lines, serial>>
  <2> DEFINE g == LowerSelect(f, "failed")
  <2>1. Lawful(f, g, mode) /\ g.pc = "hold"
    BY <1>1, LowerSelectLawful DEF Results
  <2> HIDE DEF g
  <2>2. Truthful(f, g)
    BY <1>3, <1>5, <2>1 DEF Truthful, Lawful, serial
  <2> QED
    BY <1>4, <1>5, <2>1, <2>2 DEF Lawful, Free, Selecting, g
<1>6. ASSUME NEW reply \in {"none", "noise", "frame"}, Exchange(reply),
             Becomes(t, [f EXCEPT !.pc = IF mode = "held" THEN "readGo" ELSE "hold",
                                  !.got = reply, !.answered = heard' /\ ~late'])
      PROVE  Good(t)
  <2> DEFINE p == IF mode = "held" THEN "readGo" ELSE "hold"
             n == heard' /\ ~late'
             g == [f EXCEPT !.pc = p, !.got = reply, !.answered = n]
  <2>1. p \in Places /\ n \in BOOLEAN
    BY DEF Places, PairPlaces, Wired
  <2>2. Becomes(t, g)
    BY <1>6
  <2>3. p \in {"readGo", "hold"} /\ (p = "readGo" <=> mode = "held")
    OBVIOUS
  <2>4. Prompt /\ ~late => ~late' /\ (reply = "frame" => n)
    BY <1>6 DEF Exchange, Prompt, Wired
  <2> HIDE DEF p, n
  <2>5. g \in Frames
    BY <1>1, <2>1 DEF Frames
  <2>6. /\ g.pc = p /\ g.got = reply /\ g.answered = n /\ g.act = f.act /\ g.begun = f.begun
        /\ g.todo = f.todo
    BY <1>1 DEF Frames
  <2> HIDE DEF g, f
  <2>7. Placed(g, mode)
    BY <1>1, <2>3, <2>6 DEF f, Placed, PairPlaces, StepPlaces, UnpairPlaces
  <2>8. Truthful(f, g)
    BY <1>3, <2>3, <2>4, <2>6 DEF Truthful, Answered
  <2> QED
    BY <1>4, <2>2, <2>3, <2>5, <2>6, <2>7, <2>8 DEF Free, Selecting
<1> QED
  BY <1>5, <1>6 DEF SendBC

\* Places that follow each other
LEMMA GoesGood ==
  ASSUME PioTypeOK, Wired', NEW t \in Tasks, Placed(task[t], mode), NEW p \in Places,
         Goes(t, p), UNCHANGED <<lines, lit, serial, echo>>,
         \/ task[t].pc = "hold" /\ p = "selectOff"
         \/ task[t].pc = "retry" /\ p = "selectOn"
  PROVE  Good(t)
<1> DEFINE f == task[t]
           g == Moved(f, p)
<1>1. f \in Frames
  BY FrameOf
<1>2. g \in Frames /\ g.pc = p /\ Same(f, g)
  BY <1>1, MovedFacts
<1>3. Becomes(t, g)
  BY DEF Goes, Moved
<1> HIDE DEF f, g
<1>4. \/ f.pc = "hold" /\ p = "selectOff"
      \/ f.pc = "retry" /\ p = "selectOn"
  BY DEF f
<1>5. Placed(g, mode) /\ ~f.begun
  BY <1>2, <1>4 DEF f, Same, Placed, PairPlaces, StepPlaces, UnpairPlaces
<1>6. Answered(f) => Answered(g)
  BY <1>2, <1>4 DEF Same, Answered
<1>7. /\ Free(g) /\ ~Blinking(f)
      /\ Selecting(g, mode) \/ ~Selecting(f, mode)
  BY <1>2, <1>4 DEF Free, Blinking, Selecting
<1>8. Orderly(f, g)
  BY <1>5, <1>7, Tidy DEF lines
<1> QED
  BY <1>2, <1>3, <1>5, <1>6, <1>8, LawfulGood DEF Lawful, serial, f

\* SELECT is low once its command is done.
LEMMA SelectOffGood ==
  ASSUME PioTypeOK, Wired', NEW t \in Tasks, Placed(task[t], mode), SelectOff(t)
  PROVE  Good(t)
<1> DEFINE f == task[t]
<1>1. f \in Frames /\ f.pc = "selectOff" /\ ~f.begun
  BY FrameOf DEF SelectOff, At, Placed, PairPlaces
<1>2. ~Blinking(f)
  BY <1>1 DEF Blinking
<1>3. UNCHANGED <<mode, lit, late>> /\ (~echo => ~echo')
  BY Heeding DEF SelectOff, serial
<1>4. PICK answer \in BoardAnswers(TRUE) :
        /\ Does(answer, SetSelect(FALSE), UNCHANGED lines)
        /\ Becomes(t, [f EXCEPT !.pc = "settled",
             !.outcome = IF answer = "error" /\ mode = "held" THEN "failed" ELSE @])
  BY DEF SelectOff
<1>5. Careful => ~select'
  BY <1>4 DEF Careful, BoardAnswers, Does, SetSelect
<1> DEFINE o == IF answer = "error" /\ mode = "held" THEN "failed" ELSE f.outcome
           g == Exiting(f, "settled", o)
<1>6. o \in Results
  BY <1>1, FrameFields DEF Results
<1>7. Becomes(t, g)
  BY <1>4 DEF Exiting
<1> HIDE DEF o, f
<1>8. g \in Frames /\ g.pc = "settled" /\ Same(f, g)
  BY <1>1, <1>6, ExitingFacts DEF Places, PairPlaces
<1> HIDE DEF g
<1>9. Placed(g, mode)
  BY <1>1, <1>8 DEF f, Same, Placed, PairPlaces, StepPlaces, UnpairPlaces
<1>10. Answered(f) => Answered(g)
  BY <1>8 DEF Same, Answered
<1>11. Orderly(f, g)
  BY <1>1, <1>2, <1>3, <1>5, <1>8, Tidy DEF Free
<1> QED
  BY <1>3, <1>7, <1>8, <1>9, <1>10, <1>11, LawfulGood DEF Lawful, f

\* A pairing ends, or goes on to wait for GO.
LEMMA SettledGood ==
  ASSUME PioTypeOK, Wired', NEW t \in Tasks, Placed(task[t], mode), Settled(t)
  PROVE  Good(t)
<1> DEFINE f == task[t]
<1>1. f \in Frames /\ f.pc = "settled" /\ f.pc \in PairPlaces /\ ~f.begun
  BY FrameOf DEF Settled, At, Placed, PairPlaces
<1>2. ~Blinking(f) /\ ~Selecting(f, mode)
  BY <1>1 DEF Blinking, Selecting
<1>3. UNCHANGED <<mode, lines, lit, serial, echo>>
  BY DEF Settled
<1>4. mode \in {"reply", "held", "go"}
  BY PioLinkAssumption DEF PioTypeOK
<1>5. Becomes(t, IF f.outcome # "finished" THEN Ended(f, f.outcome)
                 ELSE CASE mode = "reply" -> PairingEnds(f, f.got = "frame")
                        [] mode = "held" -> PairingEnds(f, f.ok)
                        [] mode = "go" -> [f EXCEPT !.pc = "readGo"])
  BY DEF Settled
<1> HIDE DEF f
<1>6. ASSUME NEW g, Becomes(t, g), Lawful(f, g, mode), Free(g)
      PROVE  Good(t)
  <2>1. Orderly(f, g)
    BY <1>1, <1>2, <1>3, <1>6, Tidy DEF lines
  <2> QED
    BY <1>3, <1>6, <2>1, LawfulGood DEF f, serial
<1>7. CASE f.outcome # "finished"
  <2>1. Lawful(f, Ended(f, f.outcome), mode) /\ Ended(f, f.outcome).pc = "idle"
    BY <1>1, <1>7, FrameFields, EndedLawful DEF f
  <2> QED
    BY <1>5, <1>6, <1>7, <2>1 DEF Free
<1>8. CASE f.outcome = "finished" /\ mode = "reply"
  <2>1. Becomes(t, PairingEnds(f, f.got = "frame"))
    BY <1>5, <1>8
  <2>2. (f.got = "frame") \in BOOLEAN
    OBVIOUS
  <2> QED
    BY <1>1, <1>6, <2>1, <2>2, PairingEndsLawful DEF f
<1>9. CASE f.outcome = "finished" /\ mode = "held"
  <2>1. Becomes(t, PairingEnds(f, f.ok))
    BY <1>5, <1>9
  <2> QED
    BY <1>1, <1>6, <2>1, FrameFields, PairingEndsLawful DEF f
<1>10. CASE f.outcome = "finished" /\ mode = "go"
  <2> DEFINE g == Moved(f, "readGo")
  <2>1. Becomes(t, g)
    BY <1>5, <1>10 DEF Moved
  <2>2. g \in Frames /\ g.pc = "readGo" /\ Same(f, g)
    BY <1>1, MovedFacts DEF Places, PairPlaces
  <2> HIDE DEF g
  <2>3. Placed(g, mode)
    BY <1>1, <1>10, <2>2 DEF f, Same, Placed, PairPlaces, StepPlaces, UnpairPlaces
  <2>4. Answered(f) => Answered(g)
    BY <2>2 DEF Same, Answered
  <2> QED
    BY <1>6, <2>1, <2>2, <2>3, <2>4 DEF Lawful, Free
<1> QED
  BY <1>4, <1>7, <1>8, <1>9, <1>10

\* GO confirms a pairing, or another BC is sent while there is time.
LEMMA ReadGoGood ==
  ASSUME PioTypeOK, Wired', NEW t \in Tasks, Placed(task[t], mode), ReadGo(t)
  PROVE  Good(t)
<1> DEFINE f == task[t]
           leaves(up) == IF mode = "held" THEN [LowerSelect(f, "finished") EXCEPT !.ok = up]
                                          ELSE PairingEnds(f, up)
           again == [f EXCEPT !.pc = IF mode = "held" THEN "poll" ELSE "retry",
                              !.tries = @ + 1]
<1>1. f \in Frames /\ f.pc = "readGo" /\ f.pc \in PairPlaces /\ ~f.begun
  BY FrameOf DEF ReadGo, At, Placed, PairPlaces
<1>2. ~Blinking(f) /\ (mode # "held" => ~Selecting(f, mode))
  BY <1>1 DEF Blinking, Selecting
<1>3. UNCHANGED <<mode, lines, lit, serial>> /\ (~echo => ~echo')
  BY Heeding DEF ReadGo
<1>4. \/ Becomes(t, leaves(TRUE)) \/ Becomes(t, leaves(FALSE)) \/ Becomes(t, again)
      \/ Becomes(t, IF mode = "held" THEN LowerSelect(f, "failed") ELSE Ended(f, "failed"))
  BY DEF ReadGo
<1>5. ASSUME NEW g, Becomes(t, g), Lawful(f, g, mode), Free(g),
             mode = "held" => Selecting(g, mode)
      PROVE  Good(t)
  <2>1. Orderly(f, g)
    BY <1>1, <1>2, <1>3, <1>5, Tidy DEF lines
  <2> QED
    BY <1>3, <1>5, <2>1, LawfulGood DEF serial
<1>6. ASSUME NEW up \in BOOLEAN, Becomes(t, leaves(up))
      PROVE  Good(t)
  <2>1. CASE mode # "held"
    <3>1. Becomes(t, PairingEnds(f, up))
      BY <1>6, <2>1
    <3>2. Lawful(f, PairingEnds(f, up), mode) /\ Free(PairingEnds(f, up))
      BY <1>1, PairingEndsLawful
    <3> QED
      BY <1>5, <2>1, <3>1, <3>2
  <2>2. CASE mode = "held"
    <3> DEFINE h == LowerSelect(f, "finished")
               g == [h EXCEPT !.ok = up]
    <3>1. Lawful(f, h, mode) /\ h.pc = "hold"
      BY <1>1, LowerSelectLawful DEF Results
    <3>2. Becomes(t, g)
      BY <1>6, <2>2
    <3> HIDE DEF h
    <3>3. g \in Frames
      BY <3>1 DEF Lawful, Frames
    <3>4. g.pc = h.pc /\ Same(h, g) /\ g.phase = h.phase
      BY <3>1 DEF Lawful, Frames, Same
    <3> HIDE DEF g
    <3>5. Placed(g, mode)
      BY <3>1, <3>4 DEF Lawful, Same, Placed, PairPlaces, StepPlaces, UnpairPlaces
    <3>6. Answered(f) => Answered(g)
      BY <3>1, <3>4 DEF Lawful, Same, Answered
    <3> QED
      BY <1>5, <3>1, <3>2, <3>3, <3>4, <3>5, <3>6 DEF Lawful, Free, Selecting
  <2> QED
    BY <2>1, <2>2
<1>7. CASE Becomes(t, again)
  <2> DEFINE p == IF mode = "held" THEN "poll" ELSE "retry"
             n == f.tries + 1
             g == MovedTried(f, p, n)
  <2>1. Becomes(t, g)
    BY <1>7 DEF MovedTried
  <2>2. p \in Places /\ n \in Nat /\ p = IF mode = "held" THEN "poll" ELSE "retry"
    BY <1>1, FrameFields DEF Places, PairPlaces
  <2> HIDE DEF p, n, f
  <2>3. g \in Frames /\ g.pc = p /\ Same(f, g)
    BY <1>1, <2>2, MovedTriedFacts
  <2> HIDE DEF g
  <2>4. Placed(g, mode)
    BY <1>1, <2>2, <2>3 DEF f, Same, Placed, PairPlaces, StepPlaces, UnpairPlaces
  <2>5. Answered(f) => Answered(g)
    BY <2>2, <2>3 DEF Same, Answered
  <2>6. Free(g) /\ (mode = "held" => Selecting(g, mode))
    BY <2>2, <2>3 DEF Free, Selecting
  <2> QED
    BY <1>5, <2>1, <2>3, <2>4, <2>5, <2>6 DEF Lawful, f
<1>8. CASE Becomes(t, IF mode = "held" THEN LowerSelect(f, "failed") ELSE Ended(f, "failed"))
  <2>1. CASE mode = "held"
    <3>1. Lawful(f, LowerSelect(f, "failed"), mode) /\ LowerSelect(f, "failed").pc = "hold"
      BY <1>1, LowerSelectLawful DEF Results
    <3> QED
      BY <1>5, <1>8, <2>1, <3>1 DEF Free, Selecting
  <2>2. CASE mode # "held"
    <3>1. Lawful(f, Ended(f, "failed"), mode) /\ Ended(f, "failed").pc = "idle"
      BY <1>1, EndedLawful DEF Results
    <3> QED
      BY <1>5, <1>8, <2>2, <3>1 DEF Free
  <2> QED
    BY <2>1, <2>2
<1> QED
  BY <1>4, <1>6, <1>7, <1>8

\* What a write of the output is for.
LEMMA PhaseCases ==
  ASSUME NEW f \in Frames
  PROVE  f.phase \in {"on", "off", "low"} \/ f.phase \in Pulses \/ f.phase \in Sweeps
  BY FrameFields DEF Phases, Pulses, Sweeps

\* An action that works on the output
LEMMA Working ==
  ASSUME NEW f \in Frames, NEW m, Placed(f, m), f.pc \in {"write", "verify"}
  PROVE  /\ f.phase \notin Sweeps => f.act.kind = "scenario" /\ f.begun /\ f.todo # <<>>
         /\ f.phase \in Sweeps => f.act.kind = "ping" /\ ~f.begun
  BY DEF Placed, StepPlaces

\* After a write that was read back; a blink goes on and still owes its low.
LEMMA WrittenLawful ==
  ASSUME NEW f \in Frames, NEW m, Placed(f, m), f.pc = "verify"
  PROVE  LET g == Written(f)
         IN /\ Lawful(f, g, m) /\ Free(g) /\ (Blinking(f) => Blinking(g))
            /\ f.begun /\ f.act.disconnect => g.pc # "idle"
<1> DEFINE g == Written(f)
<1> SUFFICES /\ Lawful(f, g, m) /\ Free(g) /\ (Blinking(f) => Blinking(g))
             /\ f.begun /\ f.act.disconnect => g.pc # "idle"
  OBVIOUS
<1>1. CASE f.phase \in {"on", "off"} \/ (f.phase = "low" /\ f.outcome = "finished")
  <2>1. f.phase \notin Sweeps /\ ~Blinking(f)
    BY <1>1 DEF Sweeps, Blinking, Pulses
  <2>2. g = StepDone(f)
    BY <1>1 DEF Written
  <2> QED
    BY <2>1, <2>2, Working, StepDoneLawful
<1>2. CASE f.phase = "low" /\ f.outcome # "finished"
  <2>1. f.phase \notin Sweeps /\ ~Blinking(f)
    BY <1>2 DEF Sweeps, Blinking, Pulses
  <2>2. g = LeaveScript(f, f.outcome) /\ f.outcome \in Results
    BY <1>2, FrameFields DEF Written
  <2> QED
    BY <2>1, <2>2, Working, LeaveLawful
<1>3. CASE f.phase \in Pulses
  <2>1. g = Moved(f, "keep")
    BY <1>3 DEF Written, Moved, Pulses
  <2>2. f.phase \notin Sweeps
    BY <1>3 DEF Pulses, Sweeps
  <2> HIDE DEF g
  <2>3. g \in Frames /\ g.pc = "keep" /\ Same(f, g) /\ g.phase = f.phase
    BY <2>1, MovedFacts DEF Places, StepPlaces
  <2>4. f.act.kind = "scenario" /\ f.begun /\ f.todo # <<>>
    BY <2>2, Working
  <2>5. Placed(g, m)
    BY <1>3, <2>3, <2>4 DEF Same, Placed, PairPlaces, StepPlaces, UnpairPlaces
  <2>6. Answered(f) => Answered(g)
    BY <2>3 DEF Same, Answered
  <2> QED
    BY <2>3, <2>5, <2>6 DEF Lawful, Free, Blinking
<1>4. CASE f.phase \in Sweeps
  <2>1. g = Moved(f, "dwell")
    BY <1>4 DEF Written, Moved, Sweeps
  <2> HIDE DEF g
  <2>3. g \in Frames /\ g.pc = "dwell" /\ Same(f, g) /\ g.phase = f.phase
    BY <2>1, MovedFacts DEF Places
  <2>4. f.act.kind = "ping" /\ ~f.begun
    BY <1>4, Working
  <2>5. Placed(g, m)
    BY <1>4, <2>3, <2>4 DEF Same, Placed, PairPlaces, StepPlaces, UnpairPlaces
  <2>6. Answered(f) => Answered(g)
    BY <2>3 DEF Same, Answered
  <2>7. ~Blinking(f)
    BY <1>4 DEF Blinking, Sweeps, Pulses
  <2> QED
    BY <2>3, <2>5, <2>6, <2>7 DEF Lawful, Free
<1> QED
  BY <1>1, <1>2, <1>3, <1>4, PhaseCases

\* After a write that failed; a blink still owes its low.
LEMMA WriteFailedLawful ==
  ASSUME NEW f \in Frames, NEW m, Placed(f, m), f.pc \in {"write", "verify"}
  PROVE  LET g == WriteFailed(f)
         IN /\ Lawful(f, g, m) /\ Free(g) /\ (f.phase \in Pulses => Blinking(g))
            /\ f.begun /\ f.act.disconnect => g.pc # "idle"
<1> DEFINE g == WriteFailed(f)
<1> SUFFICES /\ Lawful(f, g, m) /\ Free(g) /\ (f.phase \in Pulses => Blinking(g))
             /\ f.begun /\ f.act.disconnect => g.pc # "idle"
  OBVIOUS
<1>1. CASE f.phase \in {"on", "off", "low"}
  <2>1. f.phase \notin Sweeps /\ f.phase \notin Pulses
    BY <1>1 DEF Sweeps, Pulses
  <2>2. g = LeaveScript(f, "failed") /\ "failed" \in Results
    BY <1>1 DEF WriteFailed, Results
  <2> QED
    BY <2>1, <2>2, Working, LeaveLawful
<1>2. CASE f.phase \in Pulses
  <2>1. f.phase \notin Sweeps
    BY <1>2 DEF Sweeps, Pulses
  <2>2. g = LowerOutput(f, "failed") /\ "failed" \in Results
    BY <1>2 DEF WriteFailed, Results, Pulses
  <2>3. Lawful(f, g, m) /\ g.pc = "write" /\ g.phase = "low"
    BY <2>1, <2>2, Working, LowerOutputLawful
  <2> QED
    BY <2>3 DEF Free, Blinking
<1>3. CASE f.phase \in Sweeps
  <2>1. g = Moved(f, "unselectOn")
    BY <1>3 DEF WriteFailed, Moved, Sweeps
  <2> HIDE DEF g
  <2>3. g \in Frames /\ g.pc = "unselectOn" /\ Same(f, g)
    BY <2>1, MovedFacts DEF Places, UnpairPlaces
  <2>4. f.act.kind = "ping" /\ ~f.begun
    BY <1>3, Working
  <2>5. Placed(g, m)
    BY <2>3, <2>4 DEF Same, Placed, PairPlaces, StepPlaces, UnpairPlaces
  <2>6. Answered(f) => Answered(g)
    BY <2>3 DEF Same, Answered
  <2>7. f.phase \notin Pulses
    BY <1>3 DEF Sweeps, Pulses
  <2> QED
    BY <2>3, <2>4, <2>5, <2>6, <2>7 DEF Lawful, Free
<1> QED
  BY <1>1, <1>2, <1>3, PhaseCases

\* The cycles of a blink
LEMMA PulseLawful ==
  ASSUME NEW f \in Frames, NEW m, Placed(f, m), f.begun, f.todo # <<>>, NEW ph \in Pulses
  PROVE  LET g == Writing(f, ph)
         IN Lawful(f, g, m) /\ Free(g) /\ Blinking(g) /\ g.pc # "idle"
<1> DEFINE g == Writing(f, ph)
<1>1. g \in Frames /\ g.pc = "write" /\ Same(f, g) /\ g.phase = ph
  BY WritingFacts DEF Pulses, Phases
<1> HIDE DEF g
<1>2. ph \notin Sweeps
  BY DEF Pulses, Sweeps
<1>3. Placed(g, m)
  BY <1>1, <1>2 DEF Same, Placed, PairPlaces, StepPlaces, UnpairPlaces
<1>4. Answered(f) => Answered(g)
  BY <1>1 DEF Same, Answered
<1> QED
  BY <1>1, <1>3, <1>4 DEF Lawful, Free, Blinking, g

\* A blink goes on, or is out of time, and owes its low in both cases.
LEMMA PulseOrLawful ==
  ASSUME NEW f \in Frames, NEW m, Placed(f, m), f.begun, f.todo # <<>>, NEW over \in BOOLEAN
  PROVE  LET g == PulseOr(f, over)
         IN Lawful(f, g, m) /\ Free(g) /\ Blinking(g) /\ g.pc # "idle"
<1>1. CASE over
  <2>1. PulseOr(f, over) = LowerOutput(f, "failed") /\ "failed" \in Results
    BY <1>1 DEF PulseOr, Results
  <2> QED
    BY <2>1, LowerOutputLawful DEF Free, Blinking
<1>2. CASE ~over
  <2>1. PulseOr(f, over) = Writing(f, "pulseOn") /\ "pulseOn" \in Pulses
    BY <1>2 DEF PulseOr, Writing, Pulses
  <2> QED
    BY <2>1, PulseLawful
<1> QED
  BY <1>1, <1>2

\* So does every cycle of a blink.
LEMMA CyclesLawful ==
  ASSUME NEW f \in Frames, NEW m, Placed(f, m), f.begun, f.todo # <<>>, NEW g \in Cycles(f)
  PROVE  Lawful(f, g, m) /\ Free(g) /\ Blinking(g) /\ g.pc # "idle"
<1>1. CASE f.tries >= MinCycles
  <2>1. g = Moved(f, "check")
    BY <1>1 DEF Cycles, Moved
  <2>2. g \in Frames /\ g.pc = "check" /\ Same(f, g)
    BY <2>1, MovedFacts DEF Places, StepPlaces
  <2>3. Placed(g, m)
    BY <2>2 DEF Same, Placed, PairPlaces, StepPlaces, UnpairPlaces
  <2>4. Answered(f) => Answered(g)
    BY <2>2 DEF Same, Answered
  <2> QED
    BY <2>2, <2>3, <2>4 DEF Lawful, Free, Blinking
<1>2. CASE ~(f.tries >= MinCycles)
  <2>1. PICK over \in Expired(f) : g = PulseOr(f, over)
    BY <1>2 DEF Cycles
  <2>2. over \in BOOLEAN
    BY DEF Expired
  <2> QED
    BY <2>1, <2>2, PulseOrLawful
<1> QED
  BY <1>1, <1>2

\* A step that leaves the lines alone
LEMMA ScenarioGood ==
  ASSUME PioTypeOK, Wired', NEW t \in Tasks,
         task[t].pc \in StepPlaces \cup {"dwell"},
         UNCHANGED <<lines, lit, serial>>, ~echo => ~echo',
         NEW g, Becomes(t, g), Lawful(task[t], g, mode), Free(g),
         Blinking(task[t]) => Blinking(g),
         task[t].begun /\ task[t].act.disconnect => g.pc # "idle"
  PROVE  Good(t)
<1> DEFINE f == task[t]
<1>1. ~Selecting(f, mode)
  BY DEF Selecting, StepPlaces
<1>2. Orderly(f, g)
  BY <1>1, Tidy DEF lines
<1> QED
  BY <1>2, LawfulGood DEF serial

\* The output is raised on account of a frame that lowers it, unless it is to stay up.
LEMMA WriteGood ==
  ASSUME PioTypeOK, Wired', NEW t \in Tasks, Placed(task[t], mode), Write(t)
  PROVE  Good(t)
<1> DEFINE f == task[t]
<1>1. f \in Frames /\ f.pc = "write"
  BY FrameOf DEF Write, At
<1>2. ~Selecting(f, mode)
  BY <1>1 DEF Selecting
<1>3. UNCHANGED <<mode, lines, serial>> /\ (~echo => ~echo')
  BY Heeding DEF Write
<1>4. PICK answer \in BoardAnswers(f.phase = "low") :
       /\ Does(answer, lit' = Raiser(f.phase), UNCHANGED lit)
       /\ Becomes(t, IF answer = "error" THEN WriteFailed(f) ELSE [f EXCEPT !.pc = "verify"])
  BY DEF Write
<1> HIDE DEF f
<1>5. Careful /\ f.phase = "low" => answer = "ok" /\ lit' # "blink"
  BY <1>4 DEF Careful, BoardAnswers, Does, Raiser
<1>6. ASSUME NEW g, Becomes(t, g), Lawful(f, g, mode), Free(g),
             f.phase \in Pulses => Blinking(g),
             f.begun /\ f.act.disconnect => g.pc # "idle"
      PROVE  Good(t)
  <2>1. f.phase \notin Pulses /\ f.phase # "low" => ~Blinking(f)
    BY <1>1 DEF Blinking
  <2>2. f.phase \notin Pulses => lit' = lit \/ lit' # "blink"
    BY <1>4 DEF Does, Raiser, Pulses
  <2>3. Orderly(f, g)
    BY <1>2, <1>3, <1>5, <1>6, <2>1, <2>2, Tidy DEF lines, f
  <2> QED
    BY <1>3, <1>6, <2>3, LawfulGood DEF f, serial
<1>7. CASE answer = "error"
  BY <1>1, <1>4, <1>6, <1>7, WriteFailedLawful DEF f
<1>8. CASE answer # "error"
  <2> DEFINE g == Moved(f, "verify")
  <2>1. Becomes(t, g)
    BY <1>4, <1>8 DEF Moved
  <2>2. g \in Frames /\ g.pc = "verify" /\ Same(f, g) /\ g.phase = f.phase
    BY <1>1, MovedFacts DEF Places, StepPlaces
  <2> HIDE DEF g
  <2>3. Placed(g, mode)
    BY <1>1, <2>2 DEF f, Same, Placed, PairPlaces, StepPlaces, UnpairPlaces
  <2>4. Answered(f) => Answered(g)
    BY <2>2 DEF Same, Answered
  <2> QED
    BY <1>6, <2>1, <2>2, <2>3, <2>4 DEF Lawful, Free, Blinking
<1> QED
  BY <1>7, <1>8

\* The output is read back.
LEMMA VerifyGood ==
  ASSUME PioTypeOK, Wired', NEW t \in Tasks, Placed(task[t], mode), Verify(t)
  PROVE  Good(t)
<1> DEFINE f == task[t]
<1>1. f \in Frames /\ f.pc = "verify" /\ f.pc \in StepPlaces
  BY FrameOf DEF Verify, At, StepPlaces
<1>2. Becomes(t, Written(f)) \/ Becomes(t, WriteFailed(f))
  BY DEF Verify
<1>3. UNCHANGED <<mode, lines, lit, serial>> /\ (~echo => ~echo')
  BY Heeding DEF Verify
<1>4. CASE Becomes(t, Written(f))
  BY <1>1, <1>3, <1>4, WrittenLawful, ScenarioGood
<1>5. CASE Becomes(t, WriteFailed(f))
  <2>1. Blinking(f) => f.phase \in Pulses
    BY <1>1 DEF Blinking
  <2> QED
    BY <1>1, <1>3, <1>5, <2>1, WriteFailedLawful, ScenarioGood
<1> QED
  BY <1>2, <1>4, <1>5

\* A delay ends.
LEMMA SleepGood ==
  ASSUME PioTypeOK, Wired', NEW t \in Tasks, Placed(task[t], mode), Sleep(t)
  PROVE  Good(t)
<1> DEFINE f == task[t]
<1>1. f \in Frames /\ f.pc = "sleep" /\ f.pc \in StepPlaces /\ f.begun /\ f.todo # <<>>
  BY FrameOf DEF Sleep, At, StepPlaces, Placed
<1>2. UNCHANGED <<mode, lines, lit, serial, echo>> /\ Becomes(t, StepDone(f)) /\ ~Blinking(f)
  BY <1>1 DEF Sleep, Blinking
<1> QED
  BY <1>1, <1>2, StepDoneLawful, ScenarioGood

\* A wait for the input ends, or reads once more.
LEMMA ReadInputGood ==
  ASSUME PioTypeOK, Wired', NEW t \in Tasks, Placed(task[t], mode), ReadInput(t)
  PROVE  Good(t)
<1> DEFINE f == task[t]
           h == [f EXCEPT !.tries = @ + 1]
<1>1. f \in Frames /\ f.pc = "read" /\ f.pc \in StepPlaces /\ f.begun /\ f.todo # <<>>
  BY FrameOf DEF ReadInput, At, StepPlaces, Placed
<1>2. UNCHANGED <<mode, lines, lit, serial>> /\ (~echo => ~echo') /\ ~Blinking(f)
  BY <1>1, Heeding DEF ReadInput, Blinking
<1>3. Becomes(t, StepDone(f)) \/ Becomes(t, LeaveScript(f, "failed")) \/ Becomes(t, h)
  BY DEF ReadInput
<1>4. CASE Becomes(t, StepDone(f))
  BY <1>1, <1>2, <1>4, StepDoneLawful, ScenarioGood
<1>5. CASE Becomes(t, LeaveScript(f, "failed"))
  BY <1>1, <1>2, <1>5, LeaveLawful, ScenarioGood DEF Results
<1>6. CASE Becomes(t, h)
  <2> DEFINE n == f.tries + 1
             g == Tried(f, n)
  <2>1. Becomes(t, g)
    BY <1>6 DEF Tried
  <2>2. n \in Nat
    BY <1>1, FrameFields
  <2> HIDE DEF n
  <2>3. g \in Frames /\ g.pc = f.pc /\ Same(f, g)
    BY <1>1, <2>2, TriedFacts
  <2> HIDE DEF g
  <2>4. Placed(g, mode)
    BY <1>1, <2>3 DEF Same, Placed, PairPlaces, StepPlaces, UnpairPlaces
  <2>5. Answered(f) => Answered(g)
    BY <1>1, <2>3 DEF Same, Answered
  <2> QED
    BY <1>1, <1>2, <2>1, <2>3, <2>4, <2>5, ScenarioGood DEF Lawful, Free
<1> QED
  BY <1>3, <1>4, <1>5, <1>6

\* A branch is spliced into the script.
LEMMA BranchGood ==
  ASSUME PioTypeOK, Wired', NEW t \in Tasks, Placed(task[t], mode), Branch(t)
  PROVE  Good(t)
<1> DEFINE f == task[t]
           takes(branch) == NextStep([f EXCEPT !.todo = branch \o Tail(@)])
<1>1. /\ f \in Frames /\ f.pc = "branch" /\ f.pc \in StepPlaces /\ f.begun /\ f.todo # <<>>
      /\ Head(f.todo).type = "if"
  BY FrameOf DEF Branch, At, StepPlaces, Placed
<1>2. UNCHANGED <<mode, lines, lit, serial>> /\ (~echo => ~echo') /\ ~Blinking(f)
  BY <1>1, Heeding DEF Branch, Blinking
<1>3. \/ Becomes(t, takes(Head(f.todo).then)) \/ Becomes(t, takes(Head(f.todo).otherwise))
      \/ Becomes(t, LeaveScript(f, "failed"))
  BY DEF Branch
<1>4. ASSUME NEW branch \in Seq(Steps), Becomes(t, takes(branch))
      PROVE  Good(t)
  <2>1. Onward(f, takes(branch))
    BY <1>1, BranchFacts
  <2> HIDE DEF takes
  <2> QED
    BY <1>1, <1>2, <1>4, <2>1, OnwardLawful, ScenarioGood
<1>5. CASE Becomes(t, LeaveScript(f, "failed"))
  BY <1>1, <1>2, <1>5, LeaveLawful, ScenarioGood DEF Results
<1>6. Head(f.todo) \in Steps
  BY <1>1, FrameFields, HeadTailProperties
<1>7. Head(f.todo).then \in Seq(Steps) /\ Head(f.todo).otherwise \in Seq(Steps)
  BY <1>1, <1>6, PioLinkAssumption
<1> HIDE DEF takes
<1> QED
  BY <1>3, <1>4, <1>5, <1>7

\* A blink begins, or its first look fails before the try.
LEMMA GlanceGood ==
  ASSUME PioTypeOK, Wired', NEW t \in Tasks, Placed(task[t], mode), Glance(t)
  PROVE  Good(t)
<1> DEFINE f == task[t]
<1>1. f \in Frames /\ f.pc = "glance" /\ f.pc \in StepPlaces /\ f.begun /\ f.todo # <<>>
  BY FrameOf DEF Glance, At, StepPlaces, Placed
<1>2. UNCHANGED <<mode, lines, lit, serial>> /\ (~echo => ~echo') /\ ~Blinking(f)
  BY <1>1, Heeding DEF Glance, Blinking
<1>3. CASE \E g \in Cycles(f) : Becomes(t, g)
  BY <1>1, <1>2, <1>3, CyclesLawful, ScenarioGood
<1>4. CASE Becomes(t, LeaveScript(f, "failed"))
  BY <1>1, <1>2, <1>4, LeaveLawful, ScenarioGood DEF Results
<1> QED
  BY <1>3, <1>4 DEF Glance

\* A blink ends by its finally.
LEMMA LowerOutputGood ==
  ASSUME PioTypeOK, Wired', NEW t \in Tasks, Placed(task[t], mode),
         task[t].pc \in {"check", "keep"}, NEW o \in Results,
         UNCHANGED <<lines, lit, serial>>, ~echo => ~echo',
         Becomes(t, LowerOutput(task[t], o))
  PROVE  Good(t)
<1> DEFINE f == task[t]
           g == LowerOutput(f, o)
<1>1. f \in Frames /\ f.pc \in StepPlaces /\ f.begun /\ f.todo # <<>>
  BY FrameOf DEF StepPlaces, Placed
<1>2. Lawful(f, g, mode) /\ g.pc = "write" /\ g.phase = "low"
  BY <1>1, LowerOutputLawful
<1>3. Becomes(t, g)
  OBVIOUS
<1> HIDE DEF g
<1> QED
  BY <1>1, <1>2, <1>3, ScenarioGood DEF Free, Blinking

\* A blink looks at its condition.
LEMMA CheckGood ==
  ASSUME PioTypeOK, Wired', NEW t \in Tasks, Placed(task[t], mode), Check(t)
  PROVE  Good(t)
<1> DEFINE f == task[t]
<1>1. f \in Frames /\ f.pc = "check" /\ f.pc \in StepPlaces /\ f.begun /\ f.todo # <<>>
  BY FrameOf DEF Check, At, StepPlaces, Placed
<1>2. UNCHANGED <<mode, lines, lit, serial>> /\ (~echo => ~echo')
  BY Heeding DEF Check
<1>3. \/ Becomes(t, LowerOutput(f, "finished")) \/ Becomes(t, LowerOutput(f, "failed"))
      \/ \E over \in Expired(f) : Becomes(t, PulseOr(f, over))
  BY DEF Check
<1>4. CASE Becomes(t, LowerOutput(f, "finished")) \/ Becomes(t, LowerOutput(f, "failed"))
  BY <1>1, <1>2, <1>4, LowerOutputGood DEF Results
<1>5. ASSUME NEW over \in Expired(f), Becomes(t, PulseOr(f, over))
      PROVE  Good(t)
  <2>1. over \in BOOLEAN
    BY DEF Expired
  <2> QED
    BY <1>1, <1>2, <1>5, <2>1, PulseOrLawful, ScenarioGood
<1> QED
  BY <1>3, <1>4, <1>5

\* A blink holds its level and looks at the condition meanwhile.
LEMMA KeepGood ==
  ASSUME PioTypeOK, Wired', NEW t \in Tasks, Placed(task[t], mode), Keep(t)
  PROVE  Good(t)
<1> DEFINE f == task[t]
           n == f.tries + 1
           h == Tried(f, n)
<1>1. f \in Frames /\ f.pc = "keep" /\ f.pc \in StepPlaces /\ f.begun /\ f.todo # <<>>
  BY FrameOf DEF Keep, At, StepPlaces, Placed
<1>2. UNCHANGED <<mode, lines, lit, serial>> /\ (~echo => ~echo')
  BY Heeding DEF Keep
<1>3. \/ Becomes(t, LowerOutput(f, "finished")) \/ Becomes(t, LowerOutput(f, "failed"))
      \/ Becomes(t, Writing(f, "pulseOff"))
      \/ \E g \in Cycles(h) : Becomes(t, g)
  BY DEF Keep, Writing, Tried
<1>4. CASE Becomes(t, LowerOutput(f, "finished")) \/ Becomes(t, LowerOutput(f, "failed"))
  BY <1>1, <1>2, <1>4, LowerOutputGood DEF Results
<1>5. CASE Becomes(t, Writing(f, "pulseOff"))
  BY <1>1, <1>2, <1>5, PulseLawful, ScenarioGood DEF Pulses
<1>6. n \in Nat
  BY <1>1, FrameFields
<1> HIDE DEF n
<1>7. h \in Frames /\ h.pc = f.pc /\ Same(f, h) /\ h.phase = f.phase
  BY <1>1, <1>6, TriedFacts
<1> HIDE DEF h
<1>8. Placed(h, mode) /\ h.begun /\ h.todo # <<>>
  BY <1>1, <1>7 DEF Same, Placed, PairPlaces, StepPlaces, UnpairPlaces
<1>9. Answered(f) => Answered(h)
  BY <1>1, <1>7 DEF Same, Answered
<1>10. ASSUME NEW g \in Cycles(h), Becomes(t, g)
       PROVE  Good(t)
  <2>1. Lawful(h, g, mode) /\ Free(g) /\ Blinking(g) /\ g.pc # "idle"
    BY <1>7, <1>8, CyclesLawful
  <2>2. Lawful(f, g, mode)
    BY <1>9, <2>1 DEF Lawful
  <2> QED
    BY <1>1, <1>2, <1>10, <2>1, <2>2, ScenarioGood
<1> QED
  BY <1>3, <1>4, <1>5, <1>10

\* A sweep goes to its next level or to the way out.
LEMMA DwellGood ==
  ASSUME PioTypeOK, Wired', NEW t \in Tasks, Placed(task[t], mode), Dwell(t)
  PROVE  Good(t)
<1> DEFINE f == task[t]
<1>1. f \in Frames /\ f.pc = "dwell" /\ f.act.kind = "ping" /\ ~f.begun /\ ~Blinking(f)
  BY FrameOf DEF Dwell, At, Placed, Blinking
<1>2. UNCHANGED <<mode, lines, lit, serial, echo>>
  BY DEF Dwell
<1>3. Becomes(t, Writing(f, "sweepOff")) \/ Becomes(t, Moved(f, "unselectOn"))
  BY DEF Dwell, Writing, Moved
<1> HIDE DEF f
<1>4. ASSUME NEW g, g \in Frames, Same(f, g), Becomes(t, g),
             g.pc = "unselectOn" \/ (g.pc = "write" /\ g.phase \in Sweeps)
      PROVE  Good(t)
  <2>1. Placed(g, mode)
    BY <1>1, <1>4 DEF f, Same, Placed, PairPlaces, StepPlaces, UnpairPlaces
  <2>2. Answered(f) => Answered(g)
    BY <1>4 DEF Same, Answered
  <2> QED
    BY <1>1, <1>2, <1>4, <2>1, <2>2, ScenarioGood DEF Lawful, Free, f
<1>5. CASE Becomes(t, Writing(f, "sweepOff"))
  <2> DEFINE g == Writing(f, "sweepOff")
  <2>1. g \in Frames /\ g.pc = "write" /\ Same(f, g) /\ g.phase = "sweepOff"
    BY <1>1, WritingFacts DEF Phases
  <2> HIDE DEF g
  <2> QED
    BY <1>4, <1>5, <2>1 DEF Sweeps, g
<1>6. CASE Becomes(t, Moved(f, "unselectOn"))
  <2> DEFINE g == Moved(f, "unselectOn")
  <2>1. g \in Frames /\ g.pc = "unselectOn" /\ Same(f, g)
    BY <1>1, MovedFacts DEF Places, UnpairPlaces
  <2> HIDE DEF g
  <2> QED
    BY <1>4, <1>6, <2>1 DEF g
<1> QED
  BY <1>3, <1>5, <1>6

\* An action that ends with an error noted by the adapter.
LEMMA EndedTold ==
  ASSUME NEW f \in Frames, NEW m, Placed(f, m), NEW o \in Results,
         Answered(f) /\ o = "finished" => /\ f.act.kind = "init" => f.answered
                                          /\ f.act.kind = "disconnect" => f.sawOff
  PROVE  LET g == [Ended(f, o) EXCEPT !.told = TRUE]
         IN Lawful(f, g, m) /\ g.pc = "idle" /\ g.told
<1> DEFINE e == Ended(f, o)
           g == [e EXCEPT !.told = TRUE]
<1>1. Lawful(f, e, m) /\ e.pc = "idle"
  BY EndedLawful
<1> HIDE DEF e
<1>2. g \in Frames
  BY <1>1 DEF Lawful, Frames
<1>3. /\ g.pc = "idle" /\ g.told /\ g.act = e.act /\ g.got = e.got /\ g.begun = e.begun
      /\ g.outcome = e.outcome /\ g.answered = e.answered /\ g.sawOff = e.sawOff
  BY <1>1 DEF Lawful, Frames
<1> HIDE DEF g
<1>4. Placed(g, m)
  BY <1>1, <1>3 DEF Lawful, Placed, PairPlaces, StepPlaces, UnpairPlaces
<1>5. Answered(f) => Answered(g)
  BY <1>1, <1>3 DEF Lawful, Answered
<1> QED
  BY <1>2, <1>3, <1>4, <1>5 DEF Lawful, g, e

\* A failed command on the way out is noted; one that is done raises SELECT unheard, and
\* lowers it so that the facility parts.
LEMMA UnselectGood ==
  ASSUME PioTypeOK, Wired', NEW t \in Tasks, Placed(task[t], mode),
         NEW from, NEW up \in BOOLEAN, NEW to, Unselect(t, from, up, to),
         \/ up /\ from = "unselectOn" /\ to = "unsettle"
         \/ ~up /\ from = "unselectOff" /\ to = "unsettled"
  PROVE  Good(t)
<1> DEFINE f == task[t]
           o == IF f.act.kind = "scenario" THEN f.outcome ELSE "failed"
<1>1. /\ f \in Frames /\ f.pc = from /\ f.pc \in UnpairPlaces /\ ~Blinking(f)
      /\ up => ~Selecting(f, mode)
  BY FrameOf DEF Unselect, At, Blinking, UnpairPlaces, Selecting
<1>2. UNCHANGED <<mode, lit>> /\ (~echo => ~echo')
  BY Heeding DEF Unselect
<1>3. PICK answer \in BoardAnswers(~up) :
        /\ Does(answer, SetSelect(up), UNCHANGED lines)
        /\ IF answer = "error" THEN UnpairFails(t) ELSE Goes(t, to) /\ UNCHANGED serial
  BY DEF Unselect
<1>4. CASE answer = "error"
  <2> DEFINE g == [Ended(f, o) EXCEPT !.told = TRUE]
  <2>1. Becomes(t, g) /\ (~late => ~late')
    BY <1>3, <1>4 DEF UnpairFails
  <2>2. o \in Results /\ (o = "finished" => f.act.kind = "scenario")
    BY <1>1, FrameFields DEF Results
  <2> HIDE DEF o
  <2>3. Lawful(f, g, mode) /\ g.pc = "idle" /\ g.told
    BY <1>1, <2>2, EndedTold
  <2> HIDE DEF g
  <2>4. UNCHANGED lines /\ (Careful => up)
    BY <1>3, <1>4 DEF Does, Careful, BoardAnswers
  <2>5. Orderly(f, g)
    BY <1>1, <1>2, <2>3, <2>4 DEF Orderly, Lined, Released, lines
  <2> QED
    BY <1>2, <2>1, <2>3, <2>5, LawfulGood
<1>5. CASE answer # "error"
  <2> DEFINE g == Moved(f, to)
  <2>1. Becomes(t, g) /\ UNCHANGED serial
    BY <1>3, <1>5 DEF Goes, Moved
  <2>2. to \in UnpairPlaces /\ to \in Places
    BY DEF Places, UnpairPlaces
  <2>3. g \in Frames /\ g.pc = to /\ Same(f, g)
    BY <1>1, <2>2, MovedFacts
  <2> HIDE DEF g, f
  <2>4. Placed(g, mode)
    BY <1>1, <2>3 DEF f, Same, Placed, PairPlaces, StepPlaces, UnpairPlaces
  <2>5. Answered(f) => Answered(g)
    BY <2>3 DEF Same, Answered
  <2>6. Careful => SetSelect(up)
    BY <1>3, <1>5 DEF Does, Careful, BoardAnswers
  <2>7. Orderly(f, g)
    <3>1. CASE up
      <4>1. g.pc = "unsettle" /\ Selecting(g, mode)
        BY <2>3, <3>1 DEF Selecting
      <4>2. Careful /\ ~select => select' /\ ~heard'
        BY <2>6, <3>1 DEF SetSelect, PioTypeOK
      <4> QED
        BY <1>1, <1>2, <3>1, <4>1, <4>2 DEF Orderly, Lined, Released, PioTypeOK, Wired
    <3>2. CASE ~up
      <4>1. f.pc = "unselectOff" /\ g.pc = "unsettled"
        BY <1>1, <2>3, <3>2
      <4>2. Careful /\ select /\ ~heard => ~select' /\ ~paired'
        BY <2>6, <3>2 DEF SetSelect, PioTypeOK, Wired
      <4> QED
        BY <1>1, <1>2, <3>2, <4>1, <4>2 DEF Orderly, Lined, Released, PioTypeOK, Wired
    <3> QED
      BY <3>1, <3>2
  <2> QED
    BY <1>2, <2>1, <2>3, <2>4, <2>5, <2>7, LawfulGood DEF Lawful, f, serial
<1> QED
  BY <1>4, <1>5

\* The delay between the two commands of the unpair.
LEMMA UnsettleGood ==
  ASSUME PioTypeOK, Wired', NEW t \in Tasks, Placed(task[t], mode), Unsettle(t)
  PROVE  Good(t)
<1> DEFINE f == task[t]
           g == Moved(f, "unselectOff")
<1>1. f \in Frames /\ f.pc = "unsettle"
  BY FrameOf DEF Unsettle, At
<1>2. Becomes(t, g) /\ UNCHANGED <<mode, lines, lit, serial, echo>>
  BY DEF Unsettle, Goes, Moved
<1>3. g \in Frames /\ g.pc = "unselectOff" /\ Same(f, g)
  BY <1>1, MovedFacts DEF Places, UnpairPlaces
<1> HIDE DEF f, g
<1>4. Placed(g, mode)
  BY <1>1, <1>3 DEF f, Same, Placed, PairPlaces, StepPlaces, UnpairPlaces
<1>5. Answered(f) => Answered(g)
  BY <1>3 DEF Same, Answered
<1>6. Orderly(f, g)
  BY <1>1, <1>2, <1>3 DEF Orderly, Lined, Released, lines, Selecting, Blinking
<1> QED
  BY <1>2, <1>3, <1>4, <1>5, <1>6, LawfulGood DEF Lawful, f, serial

\* The unpair is done, and the facility parted.
LEMMA UnsettledGood ==
  ASSUME PioTypeOK, Wired', NEW t \in Tasks, Placed(task[t], mode), Unsettled(t)
  PROVE  Good(t)
<1> DEFINE f == task[t]
           h == [f EXCEPT !.told = f.outcome = "failed"]
<1>1. f \in Frames /\ f.pc = "unsettled" /\ f.act.kind \in {"scenario", "disconnect", "ping"}
  BY FrameOf DEF Unsettled, At, Placed, UnpairPlaces
<1>2. UNCHANGED <<mode, lines, lit, echo>>
  BY DEF Unsettled
<1>3. ASSUME NEW g, Becomes(t, g), Lawful(f, g, mode), g.pc \in {"idle", "goOff"},
             ~late => ~late'
      PROVE  Good(t)
  <2>1. Orderly(f, g)
    BY <1>1, <1>2, <1>3 DEF Orderly, Lined, Released, lines, Selecting, Blinking
  <2> QED
    BY <1>2, <1>3, <2>1, LawfulGood
<1>4. CASE f.act.kind = "scenario"
  <2>1. Becomes(t, Ended(f, f.outcome)) /\ (~late => ~late')
    BY <1>4 DEF Unsettled, EndClosing
  <2>2. Lawful(f, Ended(f, f.outcome), mode) /\ Ended(f, f.outcome).pc = "idle"
    BY <1>1, <1>4, FrameFields, EndedLawful
  <2> QED
    BY <1>3, <2>1, <2>2
<1>5. CASE f.act.kind = "ping" /\ f.outcome # "finished"
  <2>1. Becomes(t, Ended(h, f.outcome)) /\ (~late => ~late')
    BY <1>5 DEF Unsettled, EndClosing
  <2>2. h \in Frames
    BY <1>1 DEF Frames
  <2>3. /\ h.pc = f.pc /\ h.phase = f.phase /\ h.act = f.act /\ h.todo = f.todo
        /\ h.got = f.got /\ h.begun = f.begun /\ h.answered = f.answered
        /\ h.sawOff = f.sawOff /\ h.outcome = f.outcome
    BY <1>1 DEF Frames
  <2> HIDE DEF h
  <2>4. Placed(h, mode)
    BY <1>1, <2>3 DEF Placed, PairPlaces, StepPlaces, UnpairPlaces
  <2>5. Answered(f) => Answered(h)
    BY <2>3 DEF Answered
  <2>6. Lawful(h, Ended(h, f.outcome), mode) /\ Ended(h, f.outcome).pc = "idle"
    BY <1>1, <1>5, <2>2, <2>4, FrameFields, EndedLawful
  <2> QED
    BY <1>3, <2>1, <2>5, <2>6 DEF Lawful
<1>6. CASE /\ f.act.kind \in {"disconnect", "ping"}
           /\ ~(f.act.kind = "ping" /\ f.outcome # "finished")
  <2> DEFINE g == MovedTried(f, "goOff", 0)
  <2>1. Becomes(t, g) /\ UNCHANGED serial
    BY <1>6 DEF Unsettled, MovedTried
  <2>2. g \in Frames /\ g.pc = "goOff" /\ Same(f, g)
    BY <1>1, MovedTriedFacts DEF Places
  <2> HIDE DEF g
  <2>3. Placed(g, mode)
    BY <1>1, <1>6, <2>2 DEF Same, Placed, PairPlaces, StepPlaces, UnpairPlaces
  <2>4. Answered(f) => Answered(g)
    BY <2>2 DEF Same, Answered
  <2> QED
    BY <1>3, <2>1, <2>2, <2>3, <2>4 DEF Lawful, serial
<1> QED
  BY <1>1, <1>4, <1>5, <1>6

\* A wait for GO to fall ends well only where GO is low.
LEMMA GoOffGood ==
  ASSUME PioTypeOK, Wired', NEW t \in Tasks, Placed(task[t], mode), GoOff(t)
  PROVE  Good(t)
<1> DEFINE f == task[t]
           p == IF f.act.clear THEN "clear" ELSE "cleared"
           n == f.tries + 1
           ends(o) == [f EXCEPT !.sawOff = @ \/ ~go, !.outcome = o, !.told = o # "finished",
                                !.pc = p]
<1>1. /\ f \in Frames /\ f.pc = "goOff" /\ f.act.kind \in {"disconnect", "ping"} /\ ~f.begun
  BY FrameOf DEF GoOff, At, Placed
<1>2. UNCHANGED <<mode, lines, lit, serial>> /\ (~echo => ~echo')
  BY Heeding DEF GoOff
<1>3. ~Selecting(f, mode) /\ ~Blinking(f)
  BY <1>1 DEF Selecting, Blinking
<1>4. \/ Becomes(t, ends("finished")) /\ (Prompt /\ ~echo => ~go)
      \/ Becomes(t, ends("failed"))
      \/ Becomes(t, Tried(f, n))
      \/ Becomes(t, [Ended(f, "failed") EXCEPT !.told = TRUE])
  BY DEF GoOff, Tried, Reads, Prompt, PioTypeOK
<1>5. ASSUME NEW g \in Frames, Becomes(t, g), Placed(g, mode), Free(g), Truthful(f, g)
      PROVE  Good(t)
  <2>1. Orderly(f, g)
    BY <1>1, <1>2, <1>3, <1>5, Tidy DEF lines
  <2> QED
    BY <1>5, <2>1 DEF Good
<1>6. ASSUME NEW o \in {"finished", "failed"}, Becomes(t, ends(o)),
             o = "finished" /\ Prompt /\ ~echo => ~go
      PROVE  Good(t)
  <2> DEFINE g == ends(o)
  <2>1. p \in Places /\ p \in {"clear", "cleared"}
    BY DEF Places
  <2> HIDE DEF p
  <2>2. g \in Frames
    BY <1>1, <2>1 DEF Frames, Results
  <2>3. /\ g.pc = p /\ g.act = f.act /\ g.got = f.got /\ g.begun = f.begun
        /\ g.answered = f.answered /\ g.outcome = o /\ g.sawOff = (f.sawOff \/ ~go)
    BY <1>1 DEF Frames
  <2>4. Becomes(t, g)
    BY <1>6
  <2> HIDE DEF g, f
  <2>5. Placed(g, mode)
    BY <1>1, <2>1, <2>3 DEF f, Placed, PairPlaces, StepPlaces, UnpairPlaces
  <2>6. Truthful(f, g)
    BY <1>2, <1>6, <2>1, <2>3 DEF Truthful, Answered, serial
  <2> QED
    BY <1>5, <2>1, <2>2, <2>3, <2>4, <2>5, <2>6 DEF Free
<1>7. ASSUME NEW g, Becomes(t, g), Lawful(f, g, mode), Free(g)
      PROVE  Good(t)
  <2>1. Truthful(f, g)
    BY <1>2, <1>7 DEF Truthful, Lawful, serial
  <2> QED
    BY <1>5, <1>7, <2>1 DEF Lawful
<1>8. CASE Becomes(t, Tried(f, n))
  <2> DEFINE g == Tried(f, n)
  <2>1. n \in Nat
    BY <1>1, FrameFields
  <2> HIDE DEF n
  <2>2. g \in Frames /\ g.pc = f.pc /\ Same(f, g)
    BY <1>1, <2>1, TriedFacts
  <2>3. Becomes(t, g)
    BY <1>8
  <2> HIDE DEF g
  <2>4. Placed(g, mode)
    BY <1>1, <2>2 DEF Same, Placed, PairPlaces, StepPlaces, UnpairPlaces
  <2>5. Answered(f) => Answered(g)
    BY <1>1, <2>2 DEF Same, Answered
  <2> QED
    BY <1>1, <1>7, <2>2, <2>3, <2>4, <2>5 DEF Lawful, Free
<1>9. CASE Becomes(t, [Ended(f, "failed") EXCEPT !.told = TRUE])
  <2> DEFINE g == [Ended(f, "failed") EXCEPT !.told = TRUE]
  <2>1. Lawful(f, g, mode) /\ g.pc = "idle"
    BY <1>1, EndedTold DEF Results
  <2>2. Becomes(t, g)
    BY <1>9
  <2> HIDE DEF g
  <2> QED
    BY <1>7, <2>1, <2>2 DEF Free
<1> HIDE DEF ends
<1> QED
  BY <1>4, <1>6, <1>8, <1>9

\* The outputs are cleared, or the error is noted.
LEMMA ClearGood ==
  ASSUME PioTypeOK, Wired', NEW t \in Tasks, Placed(task[t], mode), Clear(t)
  PROVE  Good(t)
<1> DEFINE f == task[t]
<1>1. f \in Frames /\ f.pc = "clear" /\ f.act.kind \in {"disconnect", "ping"} /\ ~f.begun
  BY FrameOf DEF Clear, At, Placed
<1>2. UNCHANGED <<mode, serial>> /\ (~echo => ~echo')
  BY Heeding DEF Clear
<1>3. ~Selecting(f, mode) /\ ~Blinking(f)
  BY <1>1 DEF Selecting, Blinking
<1>4. PICK answer \in BoardAnswers(FALSE) :
       /\ Does(answer, lit' = "none" /\ SetSelect(FALSE), UNCHANGED <<lit, lines>>)
       /\ Becomes(t, IF answer = "error" THEN [Ended(f, "failed") EXCEPT !.told = TRUE]
                     ELSE [f EXCEPT !.pc = "cleared"])
  BY DEF Clear
<1>5. (select' = select \/ ~select') /\ (lit' = lit \/ lit' # "blink")
  BY <1>4 DEF Does, SetSelect, lines
<1>6. ASSUME NEW g, Becomes(t, g), Lawful(f, g, mode), Free(g)
      PROVE  Good(t)
  <2>1. Orderly(f, g)
    BY <1>1, <1>3, <1>5, <1>6, Tidy
  <2> QED
    BY <1>2, <1>6, <2>1, LawfulGood DEF serial
<1>7. CASE answer = "error"
  <2> DEFINE g == [Ended(f, "failed") EXCEPT !.told = TRUE]
  <2>1. Lawful(f, g, mode) /\ g.pc = "idle"
    BY <1>1, EndedTold DEF Results
  <2>2. Becomes(t, g)
    BY <1>4, <1>7
  <2> HIDE DEF g
  <2> QED
    BY <1>6, <2>1, <2>2 DEF Free
<1>8. CASE answer # "error"
  <2> DEFINE g == Moved(f, "cleared")
  <2>1. g \in Frames /\ g.pc = "cleared" /\ Same(f, g) /\ g.outcome = f.outcome
    BY <1>1, MovedFacts DEF Places
  <2>2. Becomes(t, g)
    BY <1>4, <1>8 DEF Moved
  <2> HIDE DEF g
  <2>4. Placed(g, mode)
    BY <1>1, <2>1 DEF Same, Placed, PairPlaces, StepPlaces, UnpairPlaces
  <2>5. Answered(f) => Answered(g)
    BY <1>1, <2>1 DEF Same, Answered
  <2> QED
    BY <1>6, <2>1, <2>2, <2>4, <2>5 DEF Lawful, Free
<1> QED
  BY <1>7, <1>8

\* The port is closed.
LEMMA CloseGood ==
  ASSUME PioTypeOK, Wired', NEW t \in Tasks, Placed(task[t], mode), Close(t)
  PROVE  Good(t)
<1> DEFINE f == task[t]
           g == Ended(f, f.outcome)
<1>1. f \in Frames /\ f.pc = "cleared" /\ f.act.kind \in {"disconnect", "ping"} /\ ~f.begun
  BY FrameOf DEF Close, At, Placed
<1>2. UNCHANGED <<mode, lines, lit, echo>> /\ Becomes(t, g) /\ (~late => ~late')
  BY DEF Close, EndClosing
<1>3. ~Selecting(f, mode) /\ ~Blinking(f)
  BY <1>1 DEF Selecting, Blinking
<1>4. Answered(f) /\ f.outcome = "finished" /\ f.act.kind = "disconnect" => f.sawOff
  BY <1>1 DEF Answered
<1>5. Lawful(f, g, mode) /\ g.pc = "idle"
  BY <1>1, <1>4, FrameFields, EndedLawful
<1> HIDE DEF g
<1>6. Orderly(f, g)
  BY <1>1, <1>2, <1>3, <1>5, Tidy DEF Free, lines
<1> QED
  BY <1>2, <1>5, <1>6, LawfulGood

\* The cases of Cancelled, in its order
LEMMA CancelGood ==
  ASSUME PioTypeOK, Wired', NEW t \in Tasks, Placed(task[t], mode), CancelAction(t)
  PROVE  Good(t)
<1> DEFINE f == task[t]
           g == Cancelled(f)
<1>1. f \in Frames /\ f.pc # "idle" /\ f.pc \in Places
  BY FrameOf, FrameFields DEF CancelAction, Idle
<1>2. UNCHANGED <<mode, serial>> /\ Becomes(t, g)
  BY DEF CancelAction
<1>3. Prompt => ~echo'
  BY DEF Prompt, CancelAction
<1>4. Careful => ~Unguarded(f)
  BY DEF Careful, CancelAction
<1>5. Commanded(f) \/ UNCHANGED <<lines, lit>>
  BY DEF CancelAction
<1>6. "cancelled" \in Results
  BY DEF Results
<1> HIDE DEF f, g
<1>7. ASSUME NEW h, Becomes(t, h), Lawful(f, h, mode), Orderly(f, h)
      PROVE  Good(t)
  BY <1>2, <1>3, <1>7, LawfulGood DEF f, serial
<1>8. ASSUME NEW h, Becomes(t, h), Lawful(f, h, mode), Free(h),
             Selecting(h, mode) \/ (~Selecting(f, mode) /\ (select' = select \/ ~select')),
             Careful => Blinking(h) \/ (~Blinking(f) /\ (lit' = lit \/ lit' # "blink")),
             f.begun /\ f.act.disconnect => h.pc # "idle"
      PROVE  Good(t)
  <2>1. Orderly(f, h)
    BY <1>1, <1>8, Tidy
  <2> QED
    BY <1>7, <1>8, <2>1
<1>9. f.pc \notin {"selectOn", "unselectOn", "selectOff", "unselectOff", "clear"} => UNCHANGED lines
  BY <1>5 DEF Commanded
<1>10. f.pc \notin {"write", "clear"} => lit' = lit
  BY <1>5 DEF Commanded
<1>11. CASE Unguarded(f) /\ f.pc # "write"
  <2>1. g = Ended(f, "cancelled")
    BY <1>11 DEF g, Cancelled
  <2>2. Lawful(f, g, mode)
    BY <1>1, <1>6, <2>1, EndedLawful DEF f
  <2>3. Orderly(f, g)
    BY <1>4, <1>11 DEF Orderly
  <2> QED
    BY <1>2, <1>7, <2>2, <2>3
<1>12. CASE f.pc \in {"settled", "unsettled", "goOff", "clear", "cleared", "retry"}
  <2>1. g = Ended(f, "cancelled")
    BY <1>12 DEF g, Cancelled
  <2>2. Lawful(f, g, mode) /\ g.pc = "idle"
    BY <1>1, <1>6, <2>1, EndedLawful DEF f
  <2>3. ~Selecting(f, mode) /\ ~Blinking(f)
    BY <1>12 DEF Selecting, Blinking
  <2>4. CASE f.pc = "unsettled"
    <3>1. Orderly(f, g)
      BY <1>9, <1>10, <2>2, <2>3, <2>4 DEF Orderly, Lined, Released, lines
    <3> QED
      BY <1>2, <1>7, <2>2, <3>1
  <2>5. CASE f.pc # "unsettled"
    <3>1. ~f.begun
      BY <1>12, <2>5 DEF f, Placed, PairPlaces
    <3>2. (select' = select \/ ~select') /\ (lit' = lit \/ lit' # "blink")
      BY <1>5, <1>12 DEF Commanded, SetSelect, lines
    <3> QED
      BY <1>2, <1>8, <2>2, <2>3, <3>1, <3>2 DEF Free
  <2> QED
    BY <2>4, <2>5
<1>13. CASE f.pc = "readGo" /\ mode = "go"
  <2>1. g = Ended(f, "cancelled")
    BY <1>13 DEF g, Cancelled, Unguarded
  <2>2. Lawful(f, g, mode) /\ g.pc = "idle"
    BY <1>1, <1>6, <2>1, EndedLawful DEF f
  <2>3. ~Selecting(f, mode) /\ ~Blinking(f) /\ ~f.begun
    BY <1>13 DEF f, Selecting, Blinking, Placed, PairPlaces
  <2>4. select' = select /\ lit' = lit
    BY <1>9, <1>10, <1>13 DEF lines
  <2> QED
    BY <1>2, <1>8, <2>2, <2>3, <2>4 DEF Free
<1>14. CASE /\ f.pc \in {"selectOn", "settle", "poll", "readGo"}
            /\ ~Unguarded(f) /\ ~(f.pc = "readGo" /\ mode = "go")
  <2>1. g = LowerSelect(f, "cancelled")
    BY <1>14 DEF g, Cancelled
  <2>2. f.pc \in PairPlaces /\ ~f.begun /\ ~Blinking(f)
    BY <1>14 DEF f, Placed, PairPlaces, Blinking
  <2>3. Lawful(f, g, mode) /\ g.pc = "hold"
    BY <1>1, <1>6, <2>1, <2>2, LowerSelectLawful DEF f
  <2>4. lit' = lit
    BY <1>10, <1>14
  <2> QED
    BY <1>2, <1>8, <2>2, <2>3, <2>4 DEF Free, Selecting
<1>15. CASE f.pc \in {"write", "verify", "dwell"} /\ f.phase \in Sweeps
  <2>1. g = Exiting(f, "unselectOn", "cancelled")
    BY <1>15 DEF g, Cancelled, Unguarded, Sweeps, Exiting
  <2>2. f.act.kind = "ping" /\ ~f.begun
    BY <1>15 DEF f, Placed
  <2>3. g \in Frames /\ g.pc = "unselectOn" /\ Same(f, g)
    <3>1. "unselectOn" \in Places
      BY DEF Places, UnpairPlaces
    <3> QED
      BY <1>1, <1>6, <2>1, <3>1, ExitingFacts
  <2>4. Placed(g, mode)
    BY <2>2, <2>3 DEF f, Same, Placed, PairPlaces, StepPlaces, UnpairPlaces
  <2>5. Answered(f) => Answered(g)
    BY <2>3 DEF Same, Answered
  <2>6. ~Selecting(f, mode) /\ ~Blinking(f)
    BY <1>15 DEF Selecting, Blinking, Sweeps, Pulses
  <2>7. select' = select /\ (lit' = lit \/ lit' # "blink")
    BY <1>5, <1>9, <1>15 DEF lines, Commanded, Raiser, Sweeps
  <2> QED
    BY <1>2, <1>8, <2>2, <2>3, <2>4, <2>5, <2>6, <2>7 DEF Lawful, Free
<1>16. CASE \/ f.pc \in {"write", "verify"} /\ f.phase \in Pulses
            \/ f.pc \in {"check", "keep"}
  <2>1. g = LowerOutput(f, "cancelled")
    BY <1>16 DEF g, Cancelled, Unguarded, Pulses
  <2>2. f.begun /\ f.todo # <<>>
    <3>1. f.phase \in Pulses => f.phase \notin Sweeps
      BY DEF Pulses, Sweeps
    <3> QED
      BY <1>16, <3>1 DEF f, Placed, StepPlaces
  <2>3. Lawful(f, g, mode) /\ g.pc = "write" /\ g.phase = "low"
    BY <1>1, <1>6, <2>1, <2>2, LowerOutputLawful DEF f
  <2>4. ~Selecting(f, mode) /\ select' = select
    BY <1>9, <1>16 DEF Selecting, lines
  <2> QED
    BY <1>2, <1>8, <2>3, <2>4 DEF Free, Blinking
<1>17. CASE \/ f.pc \in {"write", "verify"} /\ f.phase \in {"on", "off", "low"}
            \/ f.pc \in {"read", "branch", "sleep", "glance"}
  <2>1. g = LeaveScript(f, "cancelled")
    BY <1>17 DEF g, Cancelled, Unguarded
  <2>2. f.begun
    <3>1. f.phase \in {"on", "off", "low"} => f.phase \notin Sweeps
      BY DEF Sweeps
    <3> QED
      BY <1>17, <3>1 DEF f, Placed, StepPlaces
  <2>3. Lawful(f, g, mode) /\ Free(g) /\ (f.act.disconnect => g.pc # "idle")
    BY <1>1, <1>6, <2>1, <2>2, LeaveLawful DEF f
  <2>4. ~Selecting(f, mode) /\ select' = select
    BY <1>9, <1>17 DEF Selecting, lines
  <2>5. Careful => ~Blinking(f)
    BY <1>4, <1>17 DEF Blinking, Unguarded, Pulses
  <2>6. Careful => lit' = lit \/ lit' # "blink"
    BY <1>4, <1>5, <1>17 DEF Commanded, Raiser
  <2> QED
    BY <1>2, <1>8, <2>3, <2>4, <2>5, <2>6
<1>18. \/ Unguarded(f) /\ f.pc # "write"
       \/ f.pc \in {"settled", "unsettled", "goOff", "clear", "cleared", "retry", "selectOn",
                    "settle", "poll", "readGo", "write", "verify", "dwell", "read", "branch",
                    "sleep", "glance", "check", "keep"}
  BY <1>1 DEF Places, PairPlaces, StepPlaces, UnpairPlaces, Unguarded
<1>19. f.pc = "dwell" => f.phase \in Sweeps
  BY DEF f, Placed
<1> QED
  BY <1>1, <1>11, <1>12, <1>13, <1>14, <1>15, <1>16, <1>17, <1>18, <1>19, PhaseCases

-----------------------------------------------------------------------------
(* One step of anything *)

\* A step of an action, and no other
Moving(t) ==
  \/ Begin(t) \/ Pairing(t) \/ Scenario(t) \/ WayOut(t) \/ CancelAction(t)

\* Every step of an action is good.
LEMMA MovingGood ==
  ASSUME PioTypeOK, Wired', NEW t \in Tasks, Placed(task[t], mode), Moving(t)
  PROVE  Good(t)
<1>1. CASE Hold(t)
  BY <1>1, GoesGood DEF Hold, At, Places, PairPlaces
<1>2. CASE Retry(t)
  BY <1>2, GoesGood DEF Retry, At, Places, PairPlaces
<1>3. CASE UnselectOn(t)
  BY <1>3, UnselectGood DEF UnselectOn
<1>4. CASE UnselectOff(t)
  BY <1>4, UnselectGood DEF UnselectOff
<1>5. CASE Pairing(t)
  BY <1>1, <1>2, <1>5, SelectOnGood, SendBCGood, SelectOffGood, SettledGood, ReadGoGood
     DEF Pairing
<1>6. CASE Scenario(t)
  BY <1>6, WriteGood, VerifyGood, SleepGood, ReadInputGood, BranchGood, GlanceGood, CheckGood,
     KeepGood, DwellGood DEF Scenario
<1>7. CASE WayOut(t)
  BY <1>3, <1>4, <1>7, UnsettleGood, UnsettledGood, GoOffGood, ClearGood, CloseGood DEF WayOut
<1> QED
  BY <1>5, <1>6, <1>7, BeginGood, CancelGood DEF Moving

\* Every step keeps the types of all but the frames.
LEMMA MovingWired ==
  ASSUME PioTypeOK, NEW t \in Tasks, Moving(t)
  PROVE  Wired' /\ mode' = mode /\ actions' \in 0..MaxActions /\ cancels' \in 0..MaxCancels
<1>0. Wired /\ actions \in 0..MaxActions /\ cancels \in 0..MaxCancels
  BY DEF PioTypeOK, Wired
<1>. USE PioLinkAssumption
<1>1. CASE Begin(t)
  <2>1. port' \in BOOLEAN /\ late' \in BOOLEAN
    BY <1>0, <1>1 DEF Wired, Begin, BeginPairing, BeginWithout, serial
  <2>2. UNCHANGED <<mode, lines, lit, facility, echo, cancels>> /\ actions' \in 0..MaxActions
    BY <1>0, <1>1 DEF Begin
  <2> QED
    BY <1>0, <2>1, <2>2 DEF Wired, lines, facility
<1>2. CASE SelectOn(t) \/ SelectOff(t)
  <2>1. select' \in BOOLEAN /\ heard' \in BOOLEAN /\ paired' \in BOOLEAN
    BY <1>2, SelectWired DEF SelectOn, SelectOff, Does
  <2>2. UNCHANGED <<mode, lit, facility, serial, bounds>> /\ echo' \in BOOLEAN
    BY <1>2, Heeding DEF SelectOn, SelectOff
  <2> QED
    BY <1>0, <2>1, <2>2 DEF Wired, facility, serial, bounds
<1>3. CASE SendBC(t)
  <2>1. /\ select' \in BOOLEAN /\ heard' \in BOOLEAN /\ paired' \in BOOLEAN
        /\ port' \in BOOLEAN /\ late' \in BOOLEAN
    BY <1>0, <1>3 DEF Wired, SendBC, Exchange, lines, serial
  <2> QED
    BY <1>0, <1>3, <2>1 DEF Wired, SendBC, facility, bounds
<1>4. CASE Hold(t) \/ Settled(t) \/ Retry(t) \/ Sleep(t) \/ Dwell(t) \/ Unsettle(t)
  BY <1>0, <1>4 DEF Wired, Hold, Settled, Retry, Sleep, Dwell, Unsettle, lines, facility, serial,
     bounds
<1>5. CASE ReadGo(t) \/ Verify(t) \/ ReadInput(t) \/ Branch(t) \/ Glance(t) \/ Check(t) \/ GoOff(t)
  <2>1. UNCHANGED <<mode, lines, lit, facility, serial, bounds>> /\ echo' \in BOOLEAN
    BY <1>5, Heeding DEF ReadGo, Verify, ReadInput, Branch, Glance, Check, GoOff
  <2> QED
    BY <1>0, <2>1 DEF Wired, lines, facility, serial, bounds
<1>6. CASE Keep(t)
  <2>1. UNCHANGED <<mode, lines, lit, facility, serial, bounds>> /\ echo' \in BOOLEAN
    BY <1>0, <1>6, Heeding DEF Keep, Wired
  <2> QED
    BY <1>0, <2>1 DEF Wired, lines, facility, serial, bounds
<1>7. CASE Write(t)
  <2>1. UNCHANGED <<mode, lines, facility, serial, bounds>> /\ echo' \in BOOLEAN
    BY <1>7, Heeding DEF Write
  <2>2. lit' \in {"none", "step", "blink", "sweep"}
    BY <1>0, <1>7, RaiserType DEF Write, Does, Wired
  <2> QED
    BY <1>0, <2>1, <2>2 DEF Wired, lines, facility, serial, bounds
<1>8. CASE UnselectOn(t) \/ UnselectOff(t)
  <2>1. select' \in BOOLEAN /\ heard' \in BOOLEAN /\ paired' \in BOOLEAN
    BY <1>8, SelectWired DEF UnselectOn, UnselectOff, Unselect, Does
  <2>2. UNCHANGED <<mode, lit, facility, bounds>> /\ echo' \in BOOLEAN
    BY <1>8, Heeding DEF UnselectOn, UnselectOff, Unselect
  <2>3. port' \in BOOLEAN /\ late' \in BOOLEAN
    BY <1>0, <1>8 DEF Wired, UnselectOn, UnselectOff, Unselect, UnpairFails, serial
  <2> QED
    BY <1>0, <2>1, <2>2, <2>3 DEF Wired, facility, bounds
<1>9. CASE Unsettled(t) \/ Close(t)
  <2>1. UNCHANGED <<mode, lines, lit, facility, echo, bounds>>
    BY <1>9 DEF Unsettled, Close
  <2>2. port' \in BOOLEAN /\ late' \in BOOLEAN
    BY <1>0, <1>9 DEF Wired, Unsettled, Close, EndClosing, serial
  <2> QED
    BY <1>0, <2>1, <2>2 DEF Wired, lines, facility, bounds
<1>10. CASE Clear(t)
  <2>1. select' \in BOOLEAN /\ heard' \in BOOLEAN /\ paired' \in BOOLEAN
    BY <1>10, SelectWired DEF Clear, Does
  <2>2. UNCHANGED <<mode, facility, serial, bounds>> /\ echo' \in BOOLEAN
    BY <1>10, Heeding DEF Clear
  <2>3. lit' \in {"none", "step", "blink", "sweep"}
    BY <1>0, <1>10 DEF Clear, Does, Wired
  <2> QED
    BY <1>0, <2>1, <2>2, <2>3 DEF Wired, facility, serial, bounds
<1>11. CASE CancelAction(t)
  <2>1. /\ select' \in BOOLEAN /\ heard' \in BOOLEAN /\ paired' \in BOOLEAN
    BY <1>11, SelectWired DEF CancelAction, Commanded
  <2>2. lit' \in {"none", "step", "blink", "sweep"}
    BY <1>0, <1>11, RaiserType DEF CancelAction, Commanded, Wired
  <2>3. UNCHANGED <<mode, facility, serial, actions>> /\ echo' \in BOOLEAN
    BY <1>11 DEF CancelAction
  <2>4. cancels' \in 0..MaxCancels
    BY <1>0, <1>11 DEF CancelAction
  <2> QED
    BY <1>0, <2>1, <2>2, <2>3, <2>4 DEF Wired, facility, serial
<1> QED
  BY <1>1, <1>2, <1>3, <1>4, <1>5, <1>6, <1>7, <1>8, <1>9, <1>10, <1>11
     DEF Moving, Pairing, Scenario, WayOut

\* The facility raises no pairing of its own.
LEMMA FacilityWired ==
  ASSUME PioTypeOK, Facility
  PROVE  /\ Wired' /\ UNCHANGED <<mode, task, bounds, select, heard, lit, late, echo>>
         /\ ~paired => ~paired'
<1>0. Wired
  BY DEF PioTypeOK, Wired
<1>1. CASE GoFollows
  BY <1>0, <1>1 DEF Wired, GoFollows, lines, facility, serial
<1>2. CASE InputChanges
  BY <1>0, <1>2 DEF Wired, InputChanges, lines, facility, serial
<1>3. CASE Drop
  BY <1>0, <1>3 DEF Wired, Drop, lines, facility, serial
<1> QED
  BY <1>1, <1>2, <1>3 DEF Facility

\* A task that runs no action can only begin one.
LEMMA OnlyBeginsIdle ==
  ASSUME NEW t \in Tasks, Moving(t), Idle(t)
  PROVE  Begin(t)
<1>1. ~Pairing(t)
  BY DEF Idle, At, Pairing, SelectOn, SendBC, Hold, SelectOff, Settled, ReadGo, Retry
<1>2. ~Scenario(t)
  BY DEF Idle, At, Scenario, Write, Verify, Sleep, ReadInput, Branch, Glance, Check, Keep, Dwell
<1>3. ~WayOut(t)
  BY DEF Idle, At, WayOut, UnselectOn, Unsettle, UnselectOff, Unselect, Unsettled, GoOff, Clear,
     Close
<1> QED
  BY <1>1, <1>2, <1>3 DEF Moving, CancelAction

\* Who takes a step.
LEMMA NextCases ==
  ASSUME [PioNext]_pioVars
  PROVE  \/ \E t \in Tasks : Moving(t)
         \/ Facility
         \/ UNCHANGED pioVars
  BY DEF PioNext, Moving

-----------------------------------------------------------------------------
(* What holds at all times, whatever liberties are taken *)

\* Every frame has its form and is where it may be
FrameInv == PioTypeOK /\ \A t \in Tasks : Placed(task[t], mode)

\* Nothing runs at first.
LEMMA FrameInit == PioInit => FrameInv
<1> SUFFICES ASSUME PioInit PROVE FrameInv
  OBVIOUS
<1>1. PioTypeOK
  <2>1. task \in [Tasks -> Frames]
    BY IdleFrameOK DEF PioInit
  <2>2. actions \in 0..MaxActions /\ cancels \in 0..MaxCancels
    BY PioLinkAssumption DEF PioInit
  <2> QED
    BY <2>1, <2>2 DEF PioInit, PioTypeOK
<1>2. Placed(IdleFrame, mode)
  BY DEF IdleFrame, Nothing, Placed, PairPlaces, StepPlaces, UnpairPlaces
<1> QED
  BY <1>1, <1>2 DEF PioInit, FrameInv

\* A step of an action changes its frame, in the ways of Good, and no other.
LEMMA FrameStep ==
  ASSUME FrameInv, NEW t \in Tasks, Moving(t)
  PROVE  /\ FrameInv' /\ mode' = mode
         /\ \E g \in Frames : /\ task' = [task EXCEPT ![t] = g] /\ task'[t] = g
                              /\ Truthful(task[t], g) /\ Orderly(task[t], g)
<1>1. Wired' /\ mode' = mode /\ actions' \in 0..MaxActions /\ cancels' \in 0..MaxCancels
  BY MovingWired DEF FrameInv
<1>2. Good(t)
  BY <1>1, MovingGood DEF FrameInv
<1>3. PICK g \in Frames : /\ task' = [task EXCEPT ![t] = g] /\ Placed(g, mode)
                          /\ Truthful(task[t], g) /\ Orderly(task[t], g)
  BY <1>2 DEF Good, Becomes
<1>4. task \in [Tasks -> Frames] /\ mode \in Modes
  BY DEF FrameInv, PioTypeOK
<1>5. task' \in [Tasks -> Frames] /\ task'[t] = g
  BY <1>3, <1>4
<1>6. PioTypeOK'
  BY <1>1, <1>4, <1>5 DEF Wired, PioTypeOK
<1>7. ASSUME NEW u \in Tasks
      PROVE  Placed(task'[u], mode')
  <2>1. CASE u = t
    BY <1>1, <1>3, <1>5, <2>1
  <2>2. CASE u # t
    <3>1. task'[u] = task[u]
      BY <1>3, <1>4, <2>2
    <3> QED
      BY <1>1, <3>1 DEF FrameInv
  <2> QED
    BY <2>1, <2>2
<1>8. FrameInv'
  BY <1>6, <1>7 DEF FrameInv
<1> QED
  BY <1>1, <1>3, <1>5, <1>8

\* Every step keeps every frame in its place.
LEMMA FrameNext ==
  ASSUME FrameInv, [PioNext]_pioVars
  PROVE  FrameInv'
<1>1. CASE \E t \in Tasks : Moving(t)
  BY <1>1, FrameStep
<1>2. CASE Facility
  <2>1. Wired' /\ UNCHANGED <<mode, task, bounds>>
    BY <1>2, FacilityWired DEF FrameInv
  <2> QED
    BY <2>1 DEF FrameInv, PioTypeOK, Wired, bounds
<1>3. CASE UNCHANGED pioVars
  BY <1>3 DEF FrameInv, PioTypeOK, pioVars, lines, facility, serial, bounds
<1> QED
  BY <1>1, <1>2, <1>3, NextCases

\* The frames are always where an action of their kind may be.
LEMMA FrameAlways == PioSpec => []FrameInv
<1>1. FrameInv /\ [PioNext]_pioVars => FrameInv'
  BY FrameNext
<1> QED
  BY FrameInit, <1>1, PTL DEF PioSpec

\* Every variable keeps its type: no await of the handlers of the handshake resumes
\* in a place where its frame has another form.
THEOREM PioTypes == PioSpec => []PioTypeOK
<1>1. FrameInv => PioTypeOK
  BY DEF FrameInv
<1> QED
  BY FrameAlways, <1>1, PTL

-----------------------------------------------------------------------------
(* What the result says of the facility *)

\* No reply is late, and the frames know what is true
AnswerInv == ~late /\ ~echo /\ \A t \in Tasks : Answered(task[t])

\* Every step keeps what the frames know true.
LEMMA AnswerStep ==
  ASSUME FrameInv, AnswerInv, Prompt, [PioNext]_pioVars
  PROVE  AnswerInv'
<1>1. ASSUME NEW t \in Tasks, Moving(t)
      PROVE  AnswerInv'
  <2>1. PICK g \in Frames : /\ task' = [task EXCEPT ![t] = g] /\ task'[t] = g
                            /\ Truthful(task[t], g)
    BY <1>1, FrameStep
  <2>2. ~late' /\ ~echo' /\ Answered(g)
    BY <2>1 DEF AnswerInv, Truthful
  <2>3. ASSUME NEW u \in Tasks, u # t
        PROVE  task'[u] = task[u]
    BY <2>1, <2>3 DEF FrameInv, PioTypeOK
  <2> QED
    BY <2>1, <2>2, <2>3 DEF AnswerInv
<1>2. CASE Facility
  BY <1>2, FacilityWired DEF FrameInv, AnswerInv
<1>3. CASE UNCHANGED pioVars
  BY <1>3 DEF AnswerInv, pioVars, serial
<1> QED
  BY <1>1, <1>2, <1>3, NextCases

\* pioInit reports FINISHED only when the facility has received a BC of this action and
\* answered it, pioDisconnect only when GO was read low after the unpair, provided that
\* the board and the facility answer in time (pio_pair, wait_go_off).
THEOREM HandshakeIsTrue ==
  ASSUME Prompt
  PROVE  PioSpec => []FinishedIsTrue
<1>1. PioInit => AnswerInv
  <2>1. Answered(IdleFrame)
    BY DEF Answered, IdleFrame, Nothing
  <2> QED
    BY <2>1 DEF PioInit, AnswerInv
<1>2. FrameInv /\ AnswerInv /\ [PioNext]_pioVars => AnswerInv'
  BY AnswerStep
<1>3. AnswerInv => FinishedIsTrue
  BY DEF AnswerInv, Answered, FinishedIsTrue, Idle
<1> QED
  BY FrameAlways, <1>1, <1>2, <1>3, PTL DEF PioSpec

-----------------------------------------------------------------------------
(* What becomes of the lines *)

\* One action at a time, and no line is high that it does not lower
LineInv ==
  /\ \A t, u \in Tasks : ~Idle(t) /\ ~Idle(u) => t = u
  /\ LinesFall
  /\ \A t \in Tasks : ~Idle(t) => Lined(task[t], mode, select, heard, paired, lit)

\* Only one action moves, and the lines are those of its frame.
LEMMA LinedMover ==
  ASSUME FrameInv, LineInv, Careful, NEW t \in Tasks, Moving(t)
  PROVE  /\ \A u \in Tasks : u # t => Idle(u)
         /\ Lined(task[t], mode, select, heard, paired, lit)
<1>1. CASE ~Idle(t)
  BY <1>1 DEF LineInv
<1>2. CASE Idle(t)
  <2>1. \A u \in Tasks : Idle(u)
    BY <1>2, OnlyBeginsIdle DEF Begin, Careful
  <2>2. ~select /\ lit # "blink"
    BY <2>1 DEF LineInv, LinesFall
  <2> QED
    BY <1>2, <2>1, <2>2 DEF Lined, Idle
<1> QED
  BY <1>1, <1>2

\* A step of an action keeps the lines, and releases the facility it owes a release.
LEMMA LineStep ==
  ASSUME FrameInv, LineInv, Careful, NEW t \in Tasks, Moving(t)
  PROVE  /\ LineInv'
         /\ Released(task[t], task'[t], paired')
         /\ \A u \in Tasks : u # t => task'[u] = task[u]
<1>1. PICK g \in Frames : /\ task' = [task EXCEPT ![t] = g] /\ task'[t] = g
                          /\ Orderly(task[t], g)
  BY FrameStep
<1>2. mode' = mode /\ FrameInv'
  BY FrameStep
<1>3. \A u \in Tasks : u # t => task'[u] = task[u] /\ Idle(u)
  BY <1>1, LinedMover DEF FrameInv, PioTypeOK
<1>4. Lined(g, mode, select', heard', paired', lit') /\ Released(task[t], g, paired')
  BY <1>1, LinedMover DEF Orderly
<1>5. \A u \in Tasks : u # t => task'[u].pc = "idle"
  BY <1>3 DEF Idle
<1>6. g.pc = "idle" => ~select' /\ lit' # "blink"
  BY <1>2, <1>4 DEF Lined, Selecting, Blinking, FrameInv, PioTypeOK
<1>7. LinesFall'
  BY <1>1, <1>6 DEF LinesFall, Idle
<1>8. LineInv'
  BY <1>1, <1>2, <1>4, <1>5, <1>7 DEF LineInv, Idle
<1> QED
  BY <1>1, <1>3, <1>4, <1>8

\* Every step keeps the lines.
LEMMA LineNext ==
  ASSUME FrameInv, LineInv, Careful, [PioNext]_pioVars
  PROVE  LineInv'
<1>1. CASE \E t \in Tasks : Moving(t)
  BY <1>1, LineStep
<1>2. CASE Facility
  <2>1. UNCHANGED <<mode, task, select, heard, lit>> /\ (~paired => ~paired')
    BY <1>2, FacilityWired DEF FrameInv
  <2> QED
    BY <2>1 DEF LineInv, LinesFall, Lined, Idle
<1>3. CASE UNCHANGED pioVars
  BY <1>3 DEF LineInv, LinesFall, Lined, Idle, pioVars, lines
<1> QED
  BY <1>1, <1>2, <1>3, NextCases

\* All lines are low at first.
LEMMA LineInit == PioInit => LineInv
  BY DEF PioInit, LineInv, LinesFall, Idle, IdleFrame

\* When no action runs SELECT is low and no blink has left its output high, however the
\* actions ended: by success, exception, time-out or a cancellation that a finally
\* covers (pio_pair, pio_pair_until_go, pio_blink_output), provided that a command that
\* lowers a line is executed.
THEOREM LinesAreLowered ==
  ASSUME Careful
  PROVE  PioSpec => []LinesFall
<1>1. FrameInv /\ LineInv /\ [PioNext]_pioVars => LineInv'
  BY LineNext
<1>2. LineInv => LinesFall
  BY DEF LineInv
<1> QED
  BY FrameAlways, LineInit, <1>1, <1>2, PTL DEF PioSpec

\* A scenario that is to disconnect and got past its pioInit leaves the facility
\* unpaired, or an error with the adapter, however its steps ended (pio_release).
THEOREM FacilityIsReleased ==
  ASSUME Careful
  PROVE  PioSpec => ReleasedOrTold
<1>1. FrameInv /\ LineInv /\ [PioNext]_pioVars => LineInv'
  BY LineNext
<1>2. ASSUME FrameInv, LineInv, [PioNext]_pioVars, NEW u \in Tasks,
             task[u].begun, task[u].act.disconnect, task'[u].pc = "idle"
      PROVE  ~paired' \/ task'[u].told
  <2>1. task'[u] # task[u]
    BY <1>2 DEF FrameInv, Placed
  <2>2. PICK t \in Tasks : Moving(t)
    BY <1>2, <2>1, NextCases, FacilityWired DEF FrameInv, pioVars
  <2>3. t = u
    BY <1>2, <2>1, <2>2, LineStep
  <2>4. Released(task[u], task'[u], paired')
    BY <1>2, <2>2, <2>3, LineStep
  <2> QED
    BY <1>2, <2>4 DEF Released
<1>3. FrameInv /\ LineInv /\ [PioNext]_pioVars =>
        [\A t \in Tasks :
           /\ task[t].begun /\ task[t].act.disconnect /\ task'[t].pc = "idle"
           => ~paired' \/ task'[t].told]_pioVars
  BY <1>2
<1> QED
  BY FrameAlways, LineInit, <1>1, <1>3, PTL DEF PioSpec, ReleasedOrTold
=============================================================================
