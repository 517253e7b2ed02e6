--------------------------- MODULE JibotClientProofs ---------------------------
(* Proofs about JibotClient: the types, that a link that is reported up is read,  *)
(* and that only the receive task of its own socket takes it down.                *)
EXTENDS JibotClient, FiniteSetTheorems, TLAPS

ReaderStates == {"none", "reading", "cancelled", "done"}
Waiting == [busy : BOOLEAN, request : Request \cup {NoRequest}, skipped : Seq(Frame)]

LinkTypes ==
  /\ running \in BOOLEAN
  /\ writer \in {"none", "open", "closing"}
  /\ session \in 0..MaxSessions
  /\ reader \in [Sessions -> ReaderStates]
  /\ supervisor \in {"asleep", "cancelling", "closing", "opening"}
  /\ silent \in BOOLEAN

\* The newest socket is read exactly as long as the link is reported up; the tasks of
\* older sockets are done before the supervisor opens the next one.
LinkShape ==
  /\ running <=> session > 0 /\ reader[session] \in {"reading", "cancelled"}
  /\ session > 0 => reader[session] # "none"
  /\ running => writer = "open"
  /\ \A s \in Sessions : s < session => reader[s] = "done"
  /\ \A s \in Sessions : s > session => reader[s] = "none"
  /\ supervisor \in {"closing", "opening"} => ~running

Link == LinkTypes /\ LinkShape

-------------------------------------------------------------------------------
\* A receive task that ends, of whatever socket, is the one of the newest socket.
LEMMA ReaderEndsLink ==
  ASSUME Link, NEW s \in Sessions, reader[s] \in {"reading", "cancelled"}, ReaderEnds(s)
  PROVE  Link' /\ s = session /\ session > 0 /\ reader'[session] = "done" /\ ~running'
<1> USE BoundsAssumption DEF Link, Sessions
<1>1. s = session /\ session > 0
  BY DEF LinkTypes, LinkShape
<1>2. /\ reader' = [reader EXCEPT ![s] = "done"] /\ running' = FALSE
      /\ UNCHANGED <<writer, session, supervisor, silent>>
  BY DEF ReaderEnds
<1>3. LinkTypes' /\ reader'[session] = "done"
  BY <1>1, <1>2 DEF LinkTypes, ReaderStates
<1>4. LinkShape'
  BY <1>1, <1>2, <1>3 DEF LinkTypes, LinkShape
<1> QED BY <1>1, <1>2, <1>3, <1>4

\* The supervisor cancels, awaits, closes and opens in this order.
LEMMA SuperviseLink ==
  ASSUME Link, Supervise
  PROVE  Link' /\ (running => running')
<1> USE BoundsAssumption DEF Link
<1>1. CASE Check
  <2>1. /\ supervisor' = "cancelling" /\ reader' = StopReading(reader)
        /\ UNCHANGED <<running, writer, session, silent>>
    BY <1>1 DEF Check
  <2>2. /\ reader' \in [Sessions -> ReaderStates]
        /\ \A s \in Sessions : s # session => reader'[s] = reader[s]
        /\ session > 0 => (reader'[session] \in {"reading", "cancelled"} <=>
                             reader[session] \in {"reading", "cancelled"})
        /\ session > 0 => (reader'[session] = "none" <=> reader[session] = "none")
    BY <2>1 DEF StopReading, LinkTypes, ReaderStates, Sessions
  <2>3. LinkTypes'
    BY <2>1, <2>2 DEF LinkTypes
  <2>4. LinkShape'
    BY <2>1, <2>2 DEF LinkTypes, LinkShape, Sessions
  <2> QED BY <2>1, <2>3, <2>4
<1>2. CASE AwaitReader
  <2>1. /\ supervisor' = "closing" /\ writer' \in {"closing", "none"}
        /\ session > 0 => reader[session] = "done"
        /\ UNCHANGED <<running, session, reader, silent>>
    BY <1>2 DEF AwaitReader
  <2>2. ~running
    BY <2>1 DEF LinkShape
  <2> QED BY <2>1, <2>2 DEF LinkTypes, LinkShape
<1>3. CASE WriterClosed
  BY <1>3 DEF WriterClosed, LinkTypes, LinkShape
<1>4. CASE Opened
  <2>1. /\ supervisor = "opening" /\ session < MaxSessions /\ session' = session + 1
        /\ running' = TRUE /\ writer' = "open" /\ supervisor' = "asleep" /\ silent' = FALSE
        /\ reader' = [reader EXCEPT ![session + 1] = "reading"]
    BY <1>4 DEF Opened
  <2>2. session + 1 \in Sessions /\ session + 1 > 0
    BY <2>1 DEF LinkTypes, Sessions
  <2>3. reader' \in [Sessions -> ReaderStates] /\ reader'[session + 1] = "reading"
    BY <2>1, <2>2 DEF LinkTypes, ReaderStates
  <2>4. \A s \in Sessions : s < session + 1 => reader'[s] = "done"
    <3> SUFFICES ASSUME NEW s \in Sessions, s < session + 1 PROVE reader'[s] = "done"
      OBVIOUS
    <3>1. reader'[s] = reader[s]
      BY <2>1 DEF LinkTypes, Sessions
    <3>2. s < session \/ s = session
      BY DEF LinkTypes, Sessions
    <3>3. s = session => reader[s] = "done"
      BY <2>1 DEF LinkShape, LinkTypes, ReaderStates, Sessions
    <3> QED BY <3>1, <3>2, <3>3 DEF LinkShape
  <2>5. \A s \in Sessions : s > session + 1 => reader'[s] = "none"
    BY <2>1 DEF LinkTypes, LinkShape, Sessions
  <2>6. LinkTypes'
    <3>1. session' \in 0..MaxSessions
      BY <2>1, <2>2 DEF Sessions
    <3> QED BY <2>1, <2>3, <3>1 DEF LinkTypes
  <2>7. LinkShape'
    BY <2>1, <2>2, <2>3, <2>4, <2>5 DEF LinkShape
  <2> QED BY <2>1, <2>6, <2>7
<1>5. CASE OpenFails
  BY <1>5 DEF OpenFails, LinkTypes, LinkShape
<1> QED BY <1>1, <1>2, <1>3, <1>4, <1>5 DEF Supervise

-------------------------------------------------------------------------------
DataTypes ==
  /\ queue \in Seq(Frame)
  /\ waits \in [Tasks -> Waiting]
  /\ sent \in 0..MaxRequests
  /\ inbox \in SUBSET Request
  /\ wire \in Seq(Frame)
  /\ frames \in 0..MaxFrames
  /\ reachable \in BOOLEAN
  /\ faults \in 0..MaxFaults
  /\ received \in SUBSET (1..MaxFrames)
  /\ answers \in SUBSET [frame : Frame, request : Request]
  /\ \A t \in Tasks : IF waits[t].busy THEN waits[t].request \in Request
                                       ELSE waits[t].skipped = <<>>

\* The numbers of the frames in a sequence, and that none is there twice.
Numbers(seq) == {seq[i].number : i \in 1..Len(seq)}
Distinct(seq) == \A i, j \in 1..Len(seq) : seq[i].number = seq[j].number => i = j

Skipped(t) == Numbers(waits[t].skipped)
Answered == {a.frame.number : a \in answers}

\* Queue, private lists and callers share no frame, and hold what was read.
Apart ==
  /\ Distinct(queue)
  /\ \A t \in Tasks : Distinct(waits[t].skipped)
  /\ \A t \in Tasks : Skipped(t) \cap (Numbers(queue) \cup Answered) = {}
  /\ \A t, u \in Tasks : t # u => Skipped(t) \cap Skipped(u) = {}
  /\ Numbers(queue) \cap Answered = {}
  /\ \A a, b \in answers : a.frame.number = b.frame.number => a.request.number = b.request.number
  /\ \A n : n \in received <=>
            n \in Numbers(queue) \/ n \in Answered \/ \E t \in Tasks : n \in Skipped(t)

\* What is still on the wire was not read yet.
OnWire ==
  /\ Distinct(wire)
  /\ Numbers(wire) \cap received = {}
  /\ Numbers(wire) \cup received \subseteq 1..frames

Frames == DataTypes /\ Apart /\ OnWire

\* A frame that is appended.
LEMMA AppendNumbers ==
  ASSUME NEW s \in Seq(Frame), NEW f \in Frame
  PROVE  /\ Append(s, f) \in Seq(Frame)
         /\ Numbers(Append(s, f)) = Numbers(s) \cup {f.number}
         /\ Distinct(s) /\ f.number \notin Numbers(s) => Distinct(Append(s, f))
<1>1. /\ Append(s, f) \in Seq(Frame) /\ Len(Append(s, f)) = Len(s) + 1 /\ Len(s) \in Nat
      /\ \A i \in 1..Len(s) : Append(s, f)[i] = s[i]
      /\ Append(s, f)[Len(s) + 1] = f
  OBVIOUS
<1> DEFINE q == Append(s, f)
<1> HIDE DEF q
<1>2. 1..Len(q) = (1..Len(s)) \cup {Len(s) + 1}
  BY <1>1 DEF q
<1>3. Numbers(q) = Numbers(s) \cup {f.number}
  BY <1>1, <1>2 DEF q, Numbers
<1>4. Distinct(s) /\ f.number \notin Numbers(s) => Distinct(q)
  BY <1>1, <1>2 DEF q, Numbers, Distinct
<1> QED BY <1>1, <1>3, <1>4 DEF q

\* The frame at the head is taken.
LEMMA TailNumbers ==
  ASSUME NEW s \in Seq(Frame), s # <<>>, Distinct(s)
  PROVE  /\ Tail(s) \in Seq(Frame) /\ Head(s) \in Frame
         /\ Head(s).number \in Numbers(s)
         /\ Numbers(Tail(s)) = Numbers(s) \ {Head(s).number}
         /\ Distinct(Tail(s))
<1>1. /\ Tail(s) \in Seq(Frame) /\ Head(s) = s[1] /\ Len(s) \in Nat \ {0}
      /\ Len(Tail(s)) = Len(s) - 1 /\ Head(s) \in Frame
      /\ \A i \in 1..Len(Tail(s)) : Tail(s)[i] = s[i + 1]
  OBVIOUS
<1> DEFINE q == Tail(s)
<1> HIDE DEF q
<1>2. \A i \in 1..Len(q) : i + 1 \in 1..Len(s) /\ q[i] = s[i + 1]
  BY <1>1 DEF q
<1>3. \A j \in 1..Len(s) : j # 1 => j - 1 \in 1..Len(q) /\ q[j - 1] = s[j]
  BY <1>1 DEF q
<1>4. 1 \in 1..Len(s)
  BY <1>1
<1>5. Numbers(q) = Numbers(s) \ {s[1].number}
  <2>1. ASSUME NEW n \in Numbers(q) PROVE n \in Numbers(s) /\ n # s[1].number
    <3>1. PICK i \in 1..Len(q) : n = q[i].number
      BY <2>1 DEF Numbers
    <3>2. i + 1 \in 1..Len(s) /\ n = s[i + 1].number /\ i + 1 # 1
      BY <1>2, <3>1
    <3> QED BY <1>4, <3>2 DEF Numbers, Distinct
  <2>2. ASSUME NEW n \in Numbers(s), n # s[1].number PROVE n \in Numbers(q)
    <3>1. PICK j \in 1..Len(s) : n = s[j].number
      BY <2>2 DEF Numbers
    <3> QED BY <1>3, <2>2, <3>1 DEF Numbers
  <2> QED BY <2>1, <2>2
<1>6. Distinct(q)
  <2> SUFFICES ASSUME NEW i \in 1..Len(q), NEW j \in 1..Len(q), q[i].number = q[j].number
               PROVE  i = j
    BY DEF Distinct
  <2>1. i + 1 = j + 1
    BY <1>2 DEF Distinct
  <2> QED BY <2>1
<1>7. s[1].number \in Numbers(s)
  BY <1>4 DEF Numbers
<1> QED BY <1>1, <1>5, <1>6, <1>7 DEF q

\* What was skipped goes to the tail.
LEMMA ConcatNumbers ==
  ASSUME NEW s \in Seq(Frame), NEW r \in Seq(Frame)
  PROVE  /\ s \o r \in Seq(Frame)
         /\ Numbers(s \o r) = Numbers(s) \cup Numbers(r)
         /\ Distinct(s) /\ Distinct(r) /\ Numbers(s) \cap Numbers(r) = {} => Distinct(s \o r)
<1>1. /\ s \o r \in Seq(Frame) /\ Len(s \o r) = Len(s) + Len(r) /\ Len(s) \in Nat /\ Len(r) \in Nat
      /\ \A i \in 1..(Len(s) + Len(r)) : (s \o r)[i] = IF i <= Len(s) THEN s[i] ELSE r[i - Len(s)]
  OBVIOUS
<1> DEFINE q == s \o r
<1> HIDE DEF q
<1>2. \A i \in 1..Len(q) : (i \in 1..Len(s) /\ q[i] = s[i]) \/
                           (i - Len(s) \in 1..Len(r) /\ i > Len(s) /\ q[i] = r[i - Len(s)])
  BY <1>1 DEF q
<1>3. /\ \A i \in 1..Len(s) : i \in 1..Len(q) /\ q[i] = s[i]
      /\ \A i \in 1..Len(r) : i + Len(s) \in 1..Len(q) /\ q[i + Len(s)] = r[i]
  BY <1>1 DEF q
<1>4. Numbers(q) \subseteq Numbers(s) \cup Numbers(r)
  BY <1>2 DEF Numbers
<1>5. Numbers(s) \cup Numbers(r) \subseteq Numbers(q)
  BY <1>3 DEF Numbers
<1>6. ASSUME Distinct(s), Distinct(r), Numbers(s) \cap Numbers(r) = {} PROVE Distinct(q)
  <2> SUFFICES ASSUME NEW i \in 1..Len(q), NEW j \in 1..Len(q), q[i].number = q[j].number
               PROVE  i = j
    BY DEF Distinct
  <2>1. CASE i \in 1..Len(s) /\ j \in 1..Len(s)
    BY <1>3, <1>6, <2>1 DEF Distinct
  <2>2. CASE i \notin 1..Len(s) /\ j \notin 1..Len(s)
    <3>1. i - Len(s) = j - Len(s)
      BY <1>2, <1>6, <2>2 DEF Distinct
    <3> QED BY <1>1, <3>1
  <2>3. CASE i \in 1..Len(s) /\ j \notin 1..Len(s)
    <3>1. q[i].number \in Numbers(s) /\ q[j].number \in Numbers(r)
      BY <1>2, <1>3, <2>3 DEF Numbers
    <3> QED BY <1>6, <3>1
  <2>4. CASE i \notin 1..Len(s) /\ j \in 1..Len(s)
    <3>1. q[i].number \in Numbers(r) /\ q[j].number \in Numbers(s)
      BY <1>2, <1>3, <2>4 DEF Numbers
    <3> QED BY <1>6, <3>1
  <2> QED BY <2>1, <2>2, <2>3, <2>4
<1> QED BY <1>1, <1>4, <1>5, <1>6 DEF q

-------------------------------------------------------------------------------
\* A step that leaves queue, calls and history alone.
LEMMA CallsStay ==
  ASSUME Apart, UNCHANGED <<calls, received>>
  PROVE  Apart'
<1>1. UNCHANGED <<queue, waits, answers, received>>
  BY DEF calls
<1>2. /\ Numbers(queue)' = Numbers(queue) /\ Answered' = Answered
      /\ \A t \in Tasks : Skipped(t)' = Skipped(t)
  BY <1>1 DEF Answered, Skipped, Numbers
<1>3. /\ Distinct(queue)' <=> Distinct(queue)
      /\ \A t \in Tasks : Distinct(waits[t].skipped)' <=> Distinct(waits[t].skipped)
  BY <1>1 DEF Distinct
<1> QED BY <1>1, <1>2, <1>3 DEF Apart

\* A step that leaves wire, frame counter and history alone.
LEMMA WireStays ==
  ASSUME OnWire, UNCHANGED <<wire, frames, received>>
  PROVE  OnWire'
<1>1. Numbers(wire)' = Numbers(wire) /\ (Distinct(wire)' <=> Distinct(wire))
  BY DEF Numbers, Distinct
<1> QED BY <1>1 DEF OnWire

\* A frame that is read leaves the wire for the queue.
LEMMA ReceiveFrames ==
  ASSUME Frames, Receive
  PROVE  Frames'
<1> USE DEF Frames
<1> DEFINE f == Head(wire)
<1>1. /\ wire # <<>> /\ queue' = Append(queue, f) /\ wire' = Tail(wire)
      /\ received' = received \cup {f.number}
      /\ UNCHANGED <<waits, answers, inbox, frames, reachable, faults, sent>>
  BY DEF Receive, world
<1>2. wire \in Seq(Frame) /\ queue \in Seq(Frame) /\ Distinct(wire)
  BY DEF DataTypes, OnWire
<1>3. /\ wire' \in Seq(Frame) /\ f \in Frame /\ f.number \in Numbers(wire)
      /\ Numbers(wire') = Numbers(wire) \ {f.number} /\ Distinct(wire')
  BY <1>1, <1>2, TailNumbers
<1>4. f.number \notin received
  BY <1>3 DEF OnWire
<1>5. f.number \notin Numbers(queue) /\ f.number \notin Answered
      /\ \A t \in Tasks : f.number \notin Skipped(t)
  BY <1>4 DEF Apart
<1> HIDE DEF f
<1>6. /\ queue' \in Seq(Frame) /\ Numbers(queue') = Numbers(queue) \cup {f.number}
      /\ Distinct(queue')
  BY <1>1, <1>2, <1>3, <1>5, AppendNumbers DEF Apart
<1>7. DataTypes'
  <2>1. f.number \in 1..MaxFrames
    BY <1>3 DEF Frame
  <2> QED BY <1>1, <1>3, <1>6, <2>1 DEF DataTypes
<1>8. Apart'
  <2>1. Answered' = Answered /\ \A t \in Tasks : Skipped(t)' = Skipped(t)
    BY <1>1 DEF Answered, Skipped, Numbers
  <2>2. \A t \in Tasks : Distinct(waits'[t].skipped)
    BY <1>1 DEF Apart
  <2>3. \A a, b \in answers' : a.frame.number = b.frame.number => a.request.number = b.request.number
    BY <1>1 DEF Apart
  <2>4. \A t \in Tasks : Skipped(t)' \cap (Numbers(queue') \cup Answered') = {}
    BY <1>5, <1>6, <2>1 DEF Apart
  <2>5. \A t, u \in Tasks : t # u => Skipped(t)' \cap Skipped(u)' = {}
    BY <2>1 DEF Apart
  <2>6. Numbers(queue') \cap Answered' = {}
    BY <1>5, <1>6, <2>1 DEF Apart
  <2>7. \A n : n \in received' <=>
              n \in Numbers(queue') \/ n \in Answered' \/ \E t \in Tasks : n \in Skipped(t)'
    BY <1>1, <1>6, <2>1 DEF Apart
  <2> QED BY <1>6, <2>2, <2>3, <2>4, <2>5, <2>6, <2>7 DEF Apart
<1>9. OnWire'
  BY <1>1, <1>3 DEF OnWire
<1> QED BY <1>7, <1>8, <1>9

\* An answer leaves the queue for its caller, and what the call skipped returns.
LEMMA TakeAnswerFrames ==
  ASSUME Frames, NEW t \in Tasks, TakeAnswer(t)
  PROVE  Frames'
<1> USE DEF Frames
<1> DEFINE f == Head(queue)
           r == waits[t].request
           mine == waits[t].skipped
<1>1. /\ waits[t].busy /\ queue # <<>>
      /\ answers' = answers \cup {[frame |-> f, request |-> r]}
      /\ queue' = Tail(queue) \o mine
      /\ waits' = [waits EXCEPT ![t] = Idle]
      /\ UNCHANGED <<inbox, wire, frames, reachable, faults, sent, received>>
  BY DEF TakeAnswer, PutBack, robot, world
<1>2. /\ queue \in Seq(Frame) /\ mine \in Seq(Frame) /\ r \in Request
      /\ waits \in [Tasks -> Waiting]
  BY <1>1 DEF DataTypes, Waiting
<1>3. Distinct(queue) /\ Distinct(mine)
  BY DEF Apart
<1>4. /\ Tail(queue) \in Seq(Frame) /\ f \in Frame /\ f.number \in Numbers(queue)
      /\ Numbers(Tail(queue)) = Numbers(queue) \ {f.number} /\ Distinct(Tail(queue))
  BY <1>1, <1>2, <1>3, TailNumbers
<1>5. f.number \notin Numbers(mine) /\ f.number \notin Answered
      /\ \A u \in Tasks : f.number \notin Skipped(u)
      /\ Numbers(queue) \cap Numbers(mine) = {}
  BY <1>4 DEF Apart, Skipped
<1> HIDE DEF f, r, mine
<1>6. /\ queue' \in Seq(Frame) /\ Distinct(queue')
      /\ Numbers(queue') = (Numbers(queue) \ {f.number}) \cup Numbers(mine)
  BY <1>1, <1>2, <1>3, <1>4, <1>5, ConcatNumbers
<1>7. Idle \in Waiting /\ Idle.skipped = <<>> /\ ~Idle.busy
  <2>1. <<>> \in Seq(Frame)
    OBVIOUS
  <2> QED BY <2>1 DEF Idle, Waiting
<1>8. /\ waits' \in [Tasks -> Waiting] /\ waits'[t] = Idle
      /\ \A u \in Tasks : u # t => waits'[u] = waits[u]
  BY <1>1, <1>2, <1>7
<1>9. DataTypes'
  <2>1. answers' \in SUBSET [frame : Frame, request : Request]
    BY <1>1, <1>2, <1>4 DEF DataTypes
  <2>2. \A u \in Tasks : IF waits'[u].busy THEN waits'[u].request \in Request
                                           ELSE waits'[u].skipped = <<>>
    BY <1>7, <1>8 DEF DataTypes
  <2> QED BY <1>1, <1>6, <1>8, <2>1, <2>2 DEF DataTypes
<1>10. Apart'
  <2>1. Numbers(<<>>) = {} /\ Distinct(<<>>)
    BY DEF Numbers, Distinct
  <2>2. Skipped(t)' = {} /\ \A u \in Tasks : u # t => Skipped(u)' = Skipped(u)
    <3>1. waits'[t].skipped = <<>>
      BY <1>7, <1>8
    <3>2. \A u \in Tasks : Skipped(u)' = Numbers(waits'[u].skipped)
      BY DEF Skipped, Numbers
    <3>3. \A u \in Tasks : u # t => Numbers(waits'[u].skipped) = Numbers(waits[u].skipped)
      BY <1>8
    <3> QED BY <2>1, <3>1, <3>2, <3>3 DEF Skipped
  <2>3. Answered' = Answered \cup {f.number}
    <3> DEFINE new == [frame |-> f, request |-> r]
    <3>1. new.frame.number = f.number /\ answers' = answers \cup {new}
      BY <1>1
    <3> HIDE DEF new
    <3>2. \A n : n \in Answered' <=> \E a \in answers' : n = a.frame.number
      BY DEF Answered
    <3>3. \A n : n \in Answered <=> \E a \in answers : n = a.frame.number
      BY DEF Answered
    <3> QED BY <3>1, <3>2, <3>3
  <2>4. \A u \in Tasks : Distinct(waits'[u].skipped)
    BY <1>7, <1>8, <2>1 DEF Apart
  <2>5. \A a, b \in answers' : a.frame.number = b.frame.number => a.request.number = b.request.number
    <3>1. \A a \in answers : a.frame.number # f.number
      BY <1>5 DEF Answered
    <3> QED BY <1>1, <3>1 DEF Apart
  <2>6. Skipped(t) = Numbers(mine)
    BY DEF Skipped, mine
  <2>7. \A u \in Tasks : Skipped(u)' \cap (Numbers(queue') \cup Answered') = {}
    BY <1>5, <1>6, <2>2, <2>3, <2>6 DEF Apart
  <2>8. \A u, v \in Tasks : u # v => Skipped(u)' \cap Skipped(v)' = {}
    BY <2>2 DEF Apart
  <2>9. Numbers(queue') \cap Answered' = {}
    BY <1>5, <1>6, <2>3, <2>6 DEF Apart
  <2>10. \A n : n \in received' <=>
               n \in Numbers(queue') \/ n \in Answered' \/ \E u \in Tasks : n \in Skipped(u)'
    <3>1. \A n : (\E u \in Tasks : n \in Skipped(u)) <=>
                n \in Numbers(mine) \/ \E u \in Tasks : n \in Skipped(u)'
      BY <2>2, <2>6
    <3>2. \A n : n \in received' <=>
                n \in Numbers(queue) \/ n \in Answered \/ \E u \in Tasks : n \in Skipped(u)
      BY <1>1 DEF Apart
    <3> QED BY <1>4, <1>6, <2>3, <3>1, <3>2
  <2> QED BY <1>6, <2>4, <2>5, <2>7, <2>8, <2>9, <2>10 DEF Apart
<1>11. OnWire'
  BY <1>1, WireStays
<1> QED BY <1>9, <1>10, <1>11

\* A frame for somebody else leaves the queue for the private list of the call.
LEMMA SkipFrameFrames ==
  ASSUME Frames, NEW t \in Tasks, SkipFrame(t)
  PROVE  Frames'
<1> USE DEF Frames
<1> DEFINE f == Head(queue)
           mine == waits[t].skipped
<1>1. /\ waits[t].busy /\ queue # <<>> /\ queue' = Tail(queue)
      /\ waits' = [waits EXCEPT ![t].skipped = Append(mine, f)]
      /\ UNCHANGED <<answers, inbox, wire, frames, reachable, faults, sent, received>>
  BY DEF SkipFrame, robot, world
<1>2. /\ queue \in Seq(Frame) /\ mine \in Seq(Frame) /\ waits \in [Tasks -> Waiting]
  BY DEF DataTypes, Waiting
<1>3. Distinct(queue) /\ Distinct(mine)
  BY DEF Apart
<1>4. /\ queue' \in Seq(Frame) /\ f \in Frame /\ f.number \in Numbers(queue)
      /\ Numbers(queue') = Numbers(queue) \ {f.number} /\ Distinct(queue')
  BY <1>1, <1>2, <1>3, TailNumbers
<1>5. f.number \notin Answered /\ \A u \in Tasks : f.number \notin Skipped(u)
  BY <1>4 DEF Apart
<1>6. Skipped(t) = Numbers(mine)
  BY DEF Skipped
<1> HIDE DEF f
<1>7. /\ Append(mine, f) \in Seq(Frame) /\ Distinct(Append(mine, f))
      /\ Numbers(Append(mine, f)) = Numbers(mine) \cup {f.number}
  BY <1>2, <1>3, <1>4, <1>5, <1>6, AppendNumbers
<1> HIDE DEF mine
<1>8. /\ waits' \in [Tasks -> Waiting] /\ waits'[t].skipped = Append(mine, f)
      /\ waits'[t].busy = waits[t].busy /\ waits'[t].request = waits[t].request
      /\ \A u \in Tasks : u # t => waits'[u] = waits[u]
  BY <1>1, <1>2, <1>7 DEF Waiting
<1>9. DataTypes'
  <2>1. \A u \in Tasks : IF waits'[u].busy THEN waits'[u].request \in Request
                                           ELSE waits'[u].skipped = <<>>
    BY <1>1, <1>8 DEF DataTypes
  <2> QED BY <1>1, <1>4, <1>8, <2>1 DEF DataTypes
<1>10. Apart'
  <2>1. \A u \in Tasks : Skipped(u)' = Numbers(waits'[u].skipped)
    BY DEF Skipped, Numbers
  <2>2. /\ Skipped(t)' = Skipped(t) \cup {f.number}
        /\ \A u \in Tasks : u # t => Skipped(u)' = Skipped(u)
    BY <1>6, <1>7, <1>8, <2>1 DEF Skipped
  <2>3. Answered' = Answered
    BY <1>1 DEF Answered
  <2>4. \A u \in Tasks : Distinct(waits'[u].skipped)
    BY <1>7, <1>8 DEF Apart
  <2>5. \A a, b \in answers' : a.frame.number = b.frame.number => a.request.number = b.request.number
    BY <1>1 DEF Apart
  <2>6. \A u \in Tasks : Skipped(u)' \cap (Numbers(queue') \cup Answered') = {}
    BY <1>4, <1>5, <2>2, <2>3 DEF Apart
  <2>7. \A u, v \in Tasks : u # v => Skipped(u)' \cap Skipped(v)' = {}
    BY <1>5, <2>2 DEF Apart
  <2>8. Numbers(queue') \cap Answered' = {}
    BY <1>4, <2>3 DEF Apart
  <2>9. \A n : n \in received' <=>
              n \in Numbers(queue') \/ n \in Answered' \/ \E u \in Tasks : n \in Skipped(u)'
    BY <1>1, <1>4, <2>2, <2>3 DEF Apart
  <2> QED BY <1>4, <2>4, <2>5, <2>6, <2>7, <2>8, <2>9 DEF Apart
<1>11. OnWire'
  BY <1>1, WireStays
<1> QED BY <1>9, <1>10, <1>11

\* A call that gives up returns what it skipped.
LEMMA GiveUpFrames ==
  ASSUME Frames, NEW t \in Tasks, GiveUp(t)
  PROVE  Frames'
<1> USE DEF Frames
<1> DEFINE mine == waits[t].skipped
<1>1. /\ queue' = queue \o mine /\ waits' = [waits EXCEPT ![t] = Idle]
      /\ UNCHANGED <<answers, inbox, wire, frames, reachable, faults, sent, received>>
  BY DEF GiveUp, PutBack, robot, world
<1>2. /\ queue \in Seq(Frame) /\ mine \in Seq(Frame) /\ waits \in [Tasks -> Waiting]
  BY DEF DataTypes, Waiting
<1>3. Distinct(queue) /\ Distinct(mine)
  BY DEF Apart
<1>4. Skipped(t) = Numbers(mine)
  BY DEF Skipped
<1>5. Numbers(queue) \cap Numbers(mine) = {}
  BY <1>4 DEF Apart
<1> HIDE DEF mine
<1>6. /\ queue' \in Seq(Frame) /\ Distinct(queue')
      /\ Numbers(queue') = Numbers(queue) \cup Numbers(mine)
  BY <1>1, <1>2, <1>3, <1>5, ConcatNumbers
<1>7. Idle \in Waiting /\ Idle.skipped = <<>> /\ ~Idle.busy
  <2>1. <<>> \in Seq(Frame)
    OBVIOUS
  <2> QED BY <2>1 DEF Idle, Waiting
<1>8. /\ waits' \in [Tasks -> Waiting] /\ waits'[t] = Idle
      /\ \A u \in Tasks : u # t => waits'[u] = waits[u]
  BY <1>1, <1>2, <1>7
<1>9. DataTypes'
  <2>1. \A u \in Tasks : IF waits'[u].busy THEN waits'[u].request \in Request
                                           ELSE waits'[u].skipped = <<>>
    BY <1>7, <1>8 DEF DataTypes
  <2> QED BY <1>1, <1>6, <1>8, <2>1 DEF DataTypes
<1>10. Apart'
  <2>1. \A u \in Tasks : Skipped(u)' = Numbers(waits'[u].skipped)
    BY DEF Skipped, Numbers
  <2>2. Numbers(<<>>) = {} /\ Distinct(<<>>)
    BY DEF Numbers, Distinct
  <2>3. waits'[t].skipped = <<>>
    BY <1>7, <1>8
  <2>4. Skipped(t)' = {} /\ \A u \in Tasks : u # t => Skipped(u)' = Skipped(u)
    BY <1>8, <2>1, <2>2, <2>3 DEF Skipped
  <2>5. Answered' = Answered
    BY <1>1 DEF Answered
  <2>6. \A u \in Tasks : Distinct(waits'[u].skipped)
    BY <1>8, <2>2, <2>3 DEF Apart
  <2>7. \A a, b \in answers' : a.frame.number = b.frame.number => a.request.number = b.request.number
    BY <1>1 DEF Apart
  <2>8. \A u \in Tasks : Skipped(u)' \cap (Numbers(queue') \cup Answered') = {}
    BY <1>4, <1>6, <2>4, <2>5 DEF Apart
  <2>9. \A u, v \in Tasks : u # v => Skipped(u)' \cap Skipped(v)' = {}
    BY <2>4 DEF Apart
  <2>10. Numbers(queue') \cap Answered' = {}
    BY <1>4, <1>6, <2>5 DEF Apart
  <2>11. \A n : n \in received' <=>
               n \in Numbers(queue') \/ n \in Answered' \/ \E u \in Tasks : n \in Skipped(u)'
    <3>1. \A n : (\E u \in Tasks : n \in Skipped(u)) <=>
                n \in Numbers(mine) \/ \E u \in Tasks : n \in Skipped(u)'
      BY <1>4, <2>4
    <3>2. \A n : n \in received' <=>
                n \in Numbers(queue) \/ n \in Answered \/ \E u \in Tasks : n \in Skipped(u)
      BY <1>1 DEF Apart
    <3> QED BY <1>6, <2>5, <3>1, <3>2
  <2> QED BY <1>6, <2>6, <2>7, <2>8, <2>9, <2>10, <2>11 DEF Apart
<1>11. OnWire'
  BY <1>1, WireStays
<1> QED BY <1>9, <1>10, <1>11

\* A call that begins has skipped nothing yet.
LEMMA SendFrames ==
  ASSUME Frames, NEW t \in Tasks, NEW c \in Commands, Send(t, c)
  PROVE  Frames'
<1> USE DEF Frames
<1> DEFINE r == [number |-> sent + 1, cmd |-> c]
<1>1. /\ ~waits[t].busy /\ sent < MaxRequests /\ sent' = sent + 1
      /\ waits' = [waits EXCEPT ![t] = [busy |-> TRUE, request |-> r, skipped |-> <<>>]]
      /\ inbox' = inbox \cup {r} \/ inbox' = inbox
      /\ UNCHANGED <<queue, answers, wire, frames, reachable, faults, received>>
  BY DEF Send, world
<1>2. waits[t].skipped = <<>> /\ sent \in 0..MaxRequests /\ waits \in [Tasks -> Waiting]
  BY <1>1 DEF DataTypes
<1>3. r \in Request /\ sent' \in 0..MaxRequests
  BY <1>1, <1>2, BoundsAssumption DEF Request
<1> HIDE DEF r
<1>4. [busy |-> TRUE, request |-> r, skipped |-> <<>>] \in Waiting
  <2>1. <<>> \in Seq(Frame)
    OBVIOUS
  <2> QED BY <1>3, <2>1 DEF Waiting
<1>5. /\ waits' \in [Tasks -> Waiting]
      /\ waits'[t].busy /\ waits'[t].request = r /\ waits'[t].skipped = <<>>
      /\ \A u \in Tasks : u # t => waits'[u] = waits[u]
  BY <1>1, <1>2, <1>4
<1>6. DataTypes'
  <2>1. \A u \in Tasks : IF waits'[u].busy THEN waits'[u].request \in Request
                                           ELSE waits'[u].skipped = <<>>
    BY <1>3, <1>5 DEF DataTypes
  <2>2. inbox' \in SUBSET Request
    BY <1>1, <1>3 DEF DataTypes
  <2> QED BY <1>1, <1>3, <1>5, <2>1, <2>2 DEF DataTypes
<1>7. Apart'
  <2>1. \A u \in Tasks : waits'[u].skipped = waits[u].skipped
    BY <1>2, <1>5
  <2>2. \A u \in Tasks : Skipped(u)' = Skipped(u)
    BY <2>1 DEF Skipped, Numbers
  <2>3. Answered' = Answered /\ Numbers(queue') = Numbers(queue)
    BY <1>1 DEF Answered
  <2>4. Distinct(queue') /\ \A u \in Tasks : Distinct(waits'[u].skipped)
    BY <1>1, <2>1 DEF Apart
  <2>5. \A a, b \in answers' : a.frame.number = b.frame.number => a.request.number = b.request.number
    BY <1>1 DEF Apart
  <2> QED BY <1>1, <2>2, <2>3, <2>4, <2>5 DEF Apart
<1>8. OnWire'
  BY <1>1, WireStays
<1> QED BY <1>6, <1>7, <1>8

\* The robot gives every frame a new number.
LEMMA RobotSendsFrames ==
  ASSUME Frames, NEW cmd \in Commands \cup {Error}, RobotSends(cmd), inbox' \in SUBSET Request
  PROVE  Frames'
<1> USE DEF Frames
<1> DEFINE f == [number |-> frames + 1, cmd |-> cmd]
<1>1. /\ frames < MaxFrames /\ frames' = frames + 1 /\ wire' = Append(wire, f)
      /\ UNCHANGED <<queue, waits, answers, reachable, faults, sent, received>>
  BY DEF RobotSends, calls, world
<1>2. wire \in Seq(Frame) /\ frames \in 0..MaxFrames
  BY DEF DataTypes
<1>3. f \in Frame /\ f.number = frames + 1 /\ frames' \in 0..MaxFrames
  BY <1>1, <1>2, BoundsAssumption DEF Frame
<1>4. f.number \notin Numbers(wire) \cup received
  BY <1>2, <1>3 DEF OnWire
<1> HIDE DEF f
<1>5. /\ wire' \in Seq(Frame) /\ Distinct(wire')
      /\ Numbers(wire') = Numbers(wire) \cup {f.number}
  BY <1>1, <1>2, <1>3, <1>4, AppendNumbers DEF OnWire
<1>6. DataTypes'
  BY <1>1, <1>3, <1>5 DEF DataTypes
<1>7. Apart'
  BY <1>1, CallsStay DEF calls
<1>8. OnWire'
  <2>1. 1..frames \subseteq 1..frames' /\ f.number \in 1..frames'
    BY <1>1, <1>2, <1>3
  <2> QED BY <1>1, <1>4, <1>5, <2>1 DEF OnWire
<1> QED BY <1>6, <1>7, <1>8

\* The supervisor leaves the queue alone; a new socket has nothing on the wire.
LEMMA SuperviseFrames ==
  ASSUME Frames, Supervise
  PROVE  Frames'
<1> USE DEF Frames
<1>1. UNCHANGED <<queue, waits, answers, frames, reachable, faults, sent, received>>
  BY DEF Supervise, Check, AwaitReader, WriterClosed, Opened, OpenFails, calls, robot, world
<1>2. UNCHANGED <<wire, inbox>> \/ (wire' = <<>> /\ inbox' = {})
  <2>1. CASE Opened
    BY <2>1 DEF Opened
  <2>2. CASE Check \/ AwaitReader \/ WriterClosed \/ OpenFails
    BY <2>2 DEF Check, AwaitReader, WriterClosed, OpenFails, robot
  <2> QED BY <2>1, <2>2 DEF Supervise
<1>3. <<>> \in Seq(Frame) /\ Numbers(<<>>) = {} /\ Distinct(<<>>)
  BY DEF Numbers, Distinct
<1>4. DataTypes'
  BY <1>1, <1>2, <1>3 DEF DataTypes
<1>5. Apart'
  BY <1>1, CallsStay DEF calls
<1>6. OnWire'
  BY <1>1, <1>2, <1>3 DEF OnWire
<1> QED BY <1>4, <1>5, <1>6

\* A step that leaves calls, frames and history alone.
LEMMA RestFrames ==
  ASSUME Frames, UNCHANGED <<calls, robot, sent, received>>,
         reachable' \in BOOLEAN, faults' \in 0..MaxFaults
  PROVE  Frames'
<1> USE DEF Frames
<1>1. UNCHANGED <<queue, waits, answers, inbox, wire, frames, sent, received>>
  BY DEF calls, robot
<1>2. DataTypes'
  BY <1>1 DEF DataTypes
<1> QED BY <1>1, <1>2, CallsStay, WireStays DEF calls

-------------------------------------------------------------------------------
IInv == Link /\ Frames

\* The start: connected once, or not yet.
LEMMA InitInv ==
  ASSUME Init
  PROVE  IInv
<1> USE BoundsAssumption
<1>1. PICK connected \in BOOLEAN :
        /\ running = connected
        /\ reachable = connected
        /\ writer = IF connected THEN "open" ELSE "none"
        /\ session = IF connected THEN 1 ELSE 0
        /\ reader = [s \in Sessions |-> IF connected /\ s = 1 THEN "reading" ELSE "none"]
  BY DEF Init
<1>2. 1 \in Sessions /\ supervisor = "asleep" /\ silent = FALSE
  BY DEF Init, Sessions
<1>3. LinkTypes
  <2>1. reader \in [Sessions -> ReaderStates] /\ session \in 0..MaxSessions
    BY <1>1 DEF ReaderStates
  <2>2. writer \in {"none", "open", "closing"}
    BY <1>1
  <2>3. running \in BOOLEAN
    BY <1>1
  <2> QED BY <1>2, <2>1, <2>2, <2>3 DEF LinkTypes
<1>4. LinkShape
  BY <1>1, <1>2 DEF LinkShape, Sessions
<1>5. <<>> \in Seq(Frame) /\ Numbers(<<>>) = {} /\ Distinct(<<>>)
  BY DEF Numbers, Distinct
<1>6. /\ queue = <<>> /\ wire = <<>> /\ answers = {} /\ inbox = {} /\ received = {}
      /\ frames = 0 /\ faults = 0 /\ sent = 0 /\ waits = [t \in Tasks |-> Idle]
  BY DEF Init
<1>7. Idle \in Waiting /\ Idle.skipped = <<>> /\ ~Idle.busy
  BY <1>5 DEF Idle, Waiting
<1>8. \A t \in Tasks : waits[t].skipped = <<>> /\ ~waits[t].busy
  BY <1>6, <1>7
<1>9. DataTypes
  <2>1. waits \in [Tasks -> Waiting]
    BY <1>6, <1>7
  <2> QED BY <1>1, <1>5, <1>6, <1>8, <2>1 DEF DataTypes
<1>10. Apart
  <2>1. Answered = {} /\ \A t \in Tasks : Skipped(t) = {}
    BY <1>5, <1>6, <1>8 DEF Answered, Skipped
  <2> QED BY <1>5, <1>6, <1>8, <2>1 DEF Apart
<1>11. OnWire
  BY <1>5, <1>6 DEF OnWire
<1> QED BY <1>3, <1>4, <1>9, <1>10, <1>11 DEF IInv, Link, Frames

\* Every step keeps the invariant, and the link goes down with its reader only.
LEMMA NextInv ==
  ASSUME IInv, Next
  PROVE  IInv' /\ (running /\ ~running' => session > 0 /\ reader[session] # "done"
                                                        /\ reader'[session] = "done")
<1> USE BoundsAssumption DEF IInv
<1> DEFINE Own == running /\ ~running' => session > 0 /\ reader[session] # "done"
                                                       /\ reader'[session] = "done"
<1>0. reachable \in BOOLEAN /\ faults \in 0..MaxFaults /\ inbox \in SUBSET Request
  BY DEF Frames, DataTypes
<1>1. ASSUME NEW s \in Sessions, ReaderCancelled(s) PROVE IInv' /\ Own
  <2>1. Link' /\ Own
    BY <1>1, ReaderEndsLink DEF ReaderCancelled
  <2> QED BY <1>0, <1>1, <2>1, RestFrames DEF ReaderCancelled, world
<1>2. CASE LinkBreaks
  <2>1. session \in Sessions
    BY <1>2 DEF LinkBreaks, Link, LinkTypes, Sessions
  <2>2. Link' /\ Own
    BY <1>2, <2>1, ReaderEndsLink DEF LinkBreaks
  <2>3. faults' \in 0..MaxFaults /\ reachable' = reachable /\ UNCHANGED <<calls, robot, sent, received>>
    BY <1>0, <1>2 DEF LinkBreaks
  <2> QED BY <1>0, <2>2, <2>3, RestFrames
<1>3. CASE Receive
  <2>1. UNCHANGED <<running, writer, session, reader, supervisor>> /\ silent' = FALSE
    BY <1>3 DEF Receive
  <2>2. Link'
    BY <2>1 DEF Link, LinkTypes, LinkShape
  <2> QED BY <1>3, <2>1, <2>2, ReceiveFrames
<1>4. ASSUME UNCHANGED link PROVE Link' /\ Own
  BY <1>4 DEF link, Link, LinkTypes, LinkShape
<1>5. ASSUME NEW t \in Tasks, NEW c \in Commands, Send(t, c) PROVE IInv' /\ Own
  BY <1>4, <1>5, SendFrames DEF Send
<1>6. ASSUME NEW t \in Tasks, TakeAnswer(t) PROVE IInv' /\ Own
  BY <1>4, <1>6, TakeAnswerFrames DEF TakeAnswer
<1>7. ASSUME NEW t \in Tasks, SkipFrame(t) PROVE IInv' /\ Own
  BY <1>4, <1>7, SkipFrameFrames DEF SkipFrame
<1>8. ASSUME NEW t \in Tasks, GiveUp(t) PROVE IInv' /\ Own
  BY <1>4, <1>8, GiveUpFrames DEF GiveUp
<1>9. CASE Supervise
  BY <1>9, SuperviseLink, SuperviseFrames DEF Link, LinkTypes
<1>10. ASSUME NEW r \in inbox, RobotAnswers(r) \/ RobotRefuses(r) PROVE IInv' /\ Own
  <2>1. r.cmd \in Commands /\ inbox' \in SUBSET Request
    BY <1>0, <1>10 DEF Request, RobotAnswers, RobotRefuses
  <2>2. RobotSends(r.cmd) \/ RobotSends(Error)
    BY <1>10 DEF RobotAnswers, RobotRefuses
  <2>3. UNCHANGED link
    BY <2>2 DEF RobotSends
  <2> QED BY <1>4, <2>1, <2>2, <2>3, RobotSendsFrames
<1>11. ASSUME NEW c \in Streamed, RobotStreams(c) PROVE IInv' /\ Own
  <2>1. c \in Commands /\ inbox' \in SUBSET Request /\ RobotSends(c) /\ UNCHANGED link
    BY <1>0, <1>11, CommandsAssumption DEF RobotStreams, RobotSends
  <2> QED BY <1>4, <2>1, RobotSendsFrames
<1>12. CASE LinkSilent
  <2>1. UNCHANGED <<running, writer, session, reader, supervisor>> /\ silent' = TRUE
    BY <1>12 DEF LinkSilent
  <2>2. Link'
    BY <2>1 DEF Link, LinkTypes, LinkShape
  <2>3. faults' \in 0..MaxFaults /\ reachable' = reachable /\ UNCHANGED <<calls, robot, sent, received>>
    BY <1>0, <1>12 DEF LinkSilent
  <2> QED BY <1>0, <2>1, <2>2, <2>3, RestFrames
<1>13. CASE RobotLeaves \/ RobotReturns
  <2>1. /\ faults' \in 0..MaxFaults /\ reachable' \in BOOLEAN
        /\ UNCHANGED <<calls, robot, sent, received>> /\ UNCHANGED link
    <3>1. CASE RobotLeaves
      <4>1. /\ faults < MaxFaults /\ faults' = faults + 1 /\ reachable' = FALSE
            /\ UNCHANGED <<calls, robot, sent, received>> /\ UNCHANGED link
        BY <3>1 DEF RobotLeaves
      <4>2. faults' \in 0..MaxFaults
        BY <1>0, <4>1
      <4> QED BY <4>1, <4>2
    <3>2. CASE RobotReturns
      BY <1>0, <3>2 DEF RobotReturns
    <3> QED BY <1>13, <3>1, <3>2
  <2> QED BY <1>4, <2>1, RestFrames
<1> QED
  BY <1>1, <1>2, <1>3, <1>5, <1>6, <1>7, <1>8, <1>9, <1>10, <1>11, <1>12, <1>13 DEF Next

\* A step that changes nothing.
LEMMA StutterInv ==
  ASSUME IInv, UNCHANGED vars
  PROVE  IInv'
<1>1. UNCHANGED <<link, calls, robot, world, sent, received>>
  BY DEF vars
<1>2. Link'
  BY <1>1 DEF IInv, link, Link, LinkTypes, LinkShape
<1>3. reachable' \in BOOLEAN /\ faults' \in 0..MaxFaults
  BY <1>1 DEF IInv, Frames, DataTypes, world
<1> QED BY <1>1, <1>2, <1>3, RestFrames DEF IInv

\* The invariant holds throughout.
LEMMA Invariance == Spec => []IInv
<1>1. IInv /\ [Next]_vars => IInv'
  BY NextInv, StutterInv
<1> QED BY <1>1, InitInv, PTL DEF Spec

\* Every variable keeps the type the client gives it.
THEOREM TypeCorrect == Spec => []TypeOK
<1>1. IInv => TypeOK
  BY DEF IInv, Link, Frames, LinkTypes, DataTypes, TypeOK, ReaderStates, Waiting
<1> QED BY <1>1, Invariance, PTL

\* is_connected() is true to the socket: a link that is reported up has an open
\* writer and is read, and no older socket is.
THEOREM UpMeansRead == Spec => []LinkUpIsRead
<1>1. IInv => LinkUpIsRead
  <2> SUFFICES ASSUME IInv, running PROVE LinkUpIsRead
    BY DEF LinkUpIsRead
  <2>1. /\ writer = "open" /\ session > 0 /\ reader[session] \in {"reading", "cancelled"}
    BY DEF IInv, Link, LinkShape
  <2>2. \A s \in Sessions \ {session} : reader[s] \in {"none", "done"}
    <3>1. \A s \in Sessions \ {session} : s < session \/ s > session
      BY BoundsAssumption DEF IInv, Link, LinkTypes, Sessions
    <3> QED BY <3>1 DEF IInv, Link, LinkShape
  <2> QED BY <2>1, <2>2 DEF LinkUpIsRead
<1> QED BY <1>1, Invariance, PTL

\* The finally of an old receive task never takes the new link down.
THEOREM OnlyItsReader == Spec => DownByOwnReader
<1> DEFINE Own == running /\ ~running' => session > 0 /\ reader[session] # "done"
                                                       /\ reader'[session] = "done"
<1>1. IInv /\ [Next]_vars => [Own]_vars
  BY NextInv
<1>2. [][Own]_vars => DownByOwnReader
  BY PTL DEF DownByOwnReader
<1> QED BY <1>1, <1>2, Invariance, PTL DEF Spec

\* The three kinds of places.
Queued(n) == {<<"queue", i>> : i \in {j \in DOMAIN queue : queue[j].number = n}}
KeptBy(n, t) == {<<t, i>> : i \in {j \in DOMAIN waits[t].skipped :
                                     waits[t].skipped[j].number = n}}
Given(n) == {<<"caller", a.request.number>> : a \in {b \in answers : b.frame.number = n}}

\* Where a frame is, place by place.
LEMMA PlacesOf ==
  ASSUME NEW n
  PROVE  \A x : x \in Places(n) <=>
                  x \in Queued(n) \/ (\E t \in Tasks : x \in KeptBy(n, t)) \/ x \in Given(n)
<1>1. Places(n) = Queued(n) \cup (UNION {KeptBy(n, t) : t \in Tasks}) \cup Given(n)
  BY DEF Places, Queued, KeptBy, Given
<1> QED BY <1>1

\* A response that was read is in one place: in the queue, with one call that
\* skipped it, or with the one caller it was returned to.
THEOREM FrameNeverLost == Spec => []FrameInOnePlace
<1>1. ASSUME IInv, NEW n \in received PROVE \E p : Places(n) = {p}
  <2>1. \A x : x \in Places(n) <=>
              x \in Queued(n) \/ (\E t \in Tasks : x \in KeptBy(n, t)) \/ x \in Given(n)
    BY PlacesOf
  <2>2. Apart /\ DataTypes
    BY <1>1 DEF IInv, Frames
  <2>3. DOMAIN queue = 1..Len(queue) /\ \A t \in Tasks : DOMAIN waits[t].skipped = 1..Len(waits[t].skipped)
    BY <2>2 DEF DataTypes, Waiting
  <2>4. n \notin Numbers(queue) => Queued(n) = {}
    BY <2>3 DEF Numbers, Queued
  <2>5. \A t \in Tasks : n \notin Skipped(t) => KeptBy(n, t) = {}
    BY <2>3 DEF Skipped, Numbers, KeptBy
  <2>6. n \notin Answered => Given(n) = {}
    BY DEF Answered, Given
  <2>7. n \in Numbers(queue) => \E p : Queued(n) = {p}
    <3> SUFFICES ASSUME n \in Numbers(queue) PROVE \E p : Queued(n) = {p}
      OBVIOUS
    <3>1. PICK i \in 1..Len(queue) : queue[i].number = n
      BY DEF Numbers
    <3>2. \A j \in 1..Len(queue) : queue[j].number = n => j = i
      BY <2>2, <3>1 DEF Apart, Distinct
    <3>3. Queued(n) = {<<"queue", i>>}
      BY <2>3, <3>1, <3>2 DEF Queued
    <3> QED BY <3>3
  <2>8. \A t \in Tasks : n \in Skipped(t) => \E p : KeptBy(n, t) = {p}
    <3> SUFFICES ASSUME NEW t \in Tasks, n \in Skipped(t) PROVE \E p : KeptBy(n, t) = {p}
      OBVIOUS
    <3>1. PICK i \in 1..Len(waits[t].skipped) : waits[t].skipped[i].number = n
      BY DEF Skipped, Numbers
    <3>2. \A j \in 1..Len(waits[t].skipped) : waits[t].skipped[j].number = n => j = i
      BY <2>2, <3>1 DEF Apart, Distinct
    <3>3. KeptBy(n, t) = {<<t, i>>}
      BY <2>3, <3>1, <3>2 DEF KeptBy
    <3> QED BY <3>3
  <2>9. n \in Answered => \E p : Given(n) = {p}
    <3> SUFFICES ASSUME n \in Answered PROVE \E p : Given(n) = {p}
      OBVIOUS
    <3>1. PICK a \in answers : a.frame.number = n
      BY DEF Answered
    <3>2. \A b \in answers : b.frame.number = n => b.request.number = a.request.number
      BY <2>2, <3>1 DEF Apart
    <3>3. Given(n) = {<<"caller", a.request.number>>}
      BY <3>1, <3>2 DEF Given
    <3> QED BY <3>3
  <2>10. CASE n \in Numbers(queue)
    <3>1. Given(n) = {} /\ \A t \in Tasks : KeptBy(n, t) = {}
      BY <2>2, <2>5, <2>6, <2>10 DEF Apart
    <3>2. PICK p : Queued(n) = {p}
      BY <2>7, <2>10
    <3>3. Places(n) = {p}
      BY <2>1, <3>1, <3>2
    <3> QED BY <3>3
  <2>11. CASE n \in Answered
    <3>1. Queued(n) = {} /\ \A t \in Tasks : KeptBy(n, t) = {}
      BY <2>2, <2>4, <2>5, <2>11 DEF Apart
    <3>2. PICK p : Given(n) = {p}
      BY <2>9, <2>11
    <3>3. Places(n) = {p}
      BY <2>1, <3>1, <3>2
    <3> QED BY <3>3
  <2>12. CASE \E t \in Tasks : n \in Skipped(t)
    <3>1. PICK t \in Tasks : n \in Skipped(t)
      BY <2>12
    <3>2. Queued(n) = {} /\ Given(n) = {} /\ \A u \in Tasks : u # t => KeptBy(n, u) = {}
      BY <2>2, <2>4, <2>5, <2>6, <3>1 DEF Apart
    <3>3. PICK p : KeptBy(n, t) = {p}
      BY <2>8, <3>1
    <3>4. Places(n) = {p}
      BY <2>1, <3>2, <3>3
    <3> QED BY <3>4
  <2> QED BY <2>2, <2>10, <2>11, <2>12 DEF Apart
<1>2. IInv => FrameInOnePlace
  <2> SUFFICES ASSUME IInv, NEW n \in received PROVE Cardinality(Places(n)) = 1
    BY DEF FrameInOnePlace
  <2>1. PICK p : Places(n) = {p}
    BY <1>1
  <2> QED BY <2>1, FS_Singleton
<1> QED BY <1>2, Invariance, PTL
===============================================================================
