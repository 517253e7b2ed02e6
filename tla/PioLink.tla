------------------------------- MODULE PioLink -------------------------------
(* The parallel I/O handshake with a facility: pioInit, pioScenario,           *)
(* pioDisconnect and pioPing (adaptor/extensions/pio), over the serial link    *)
(* that carries the BC frame (adaptor/utils/pio.py) and the I/O board that     *)
(* drives the lines (adaptor/utils/ezi_io.py).                                 *)
(*                                                                             *)
(* The facility pairs with a robot whose BC it receives while SELECT is high,  *)
(* and parts from one that lowers SELECT without having sent it. GO follows.   *)
(* One output and one input stand for the eight of each.                       *)
(*                                                                             *)
(* Definitions whose name ends in Fault are the faults that the properties are *)
(* tried on: no action uses them.                                              *)
EXTENDS Naturals, Sequences

CONSTANTS
  Tasks,       \* identities of tasks that run a PIO action
  Steps,       \* steps of scenarios, those of the branches of an "if" among them
  Actions,     \* what the fleet and the operator may ask for
  Modes,       \* configurations of the pairing: "reply" (pair_confirmation
               \* bc_reply), "go" and "held" (go, SELECT after_bc and after_go)
  MinCycles,   \* full cycles of a blink before its condition counts
  Count,       \* cycles after which a blink stops
  MaxTries,    \* polls, attempts and cycles that fit into a time limit
  MaxActions,  \* bound on actions
  MaxCancels,  \* bound on cancellations
  May          \* liberties: "overlap", "cancelUnguarded", "offFails",
               \* "silentBoard", "lateReply", "lateEcho"

Kinds == {"init", "scenario", "disconnect", "ping"}

ASSUME PioLinkAssumption ==
  /\ \A s \in Steps : s.type = "if" => {s.then, s.otherwise} \subseteq Seq(Steps)
  /\ Actions \subseteq [kind: Kinds, pair: BOOLEAN, disconnect: BOOLEAN, clear: BOOLEAN,
                       script: Seq(Steps)]
  /\ \A a \in Actions : a.kind # "scenario" => ~a.disconnect /\ a.script = <<>>
  /\ Modes \subseteq {"reply", "go", "held"}
  /\ MinCycles \in Nat /\ Count \in Nat \ {0}
  /\ MaxTries \in Nat /\ MaxActions \in Nat /\ MaxCancels \in Nat

VARIABLES
  mode,     \* the configuration
  select,   \* the SELECT line is high
  lit,      \* who raised the output last: "step", "blink", "sweep"; "none" when low
  heard,    \* the facility has received a BC since SELECT rose
  paired,   \* the facility is paired with the robot
  go,       \* its GO line
  input,    \* its input line
  port,     \* the serial port is open
  late,     \* a reply to an earlier BC waits in the buffer of the port
  echo,     \* the reply to a command that was cancelled is still under way
  task,     \* the frame of each task
  actions,  \* actions so far
  cancels   \* cancellations so far

lines == <<select, heard, paired>>
facility == <<go, input>>
serial == <<port, late>>
bounds == <<actions, cancels>>
pioVars == <<mode, lines, lit, facility, serial, echo, task, bounds>>

\* Awaits of the pairing, of the steps of a scenario, of the sweep of a ping, and
\* of the way out.
PairPlaces == {"selectOn", "settle", "poll", "readGo", "retry", "hold", "selectOff", "settled"}
StepPlaces == {"write", "verify", "read", "branch", "sleep", "glance", "check", "keep"}
UnpairPlaces == {"unselectOn", "unsettle", "unselectOff", "unsettled"}
Places == PairPlaces \cup StepPlaces \cup UnpairPlaces
  \cup {"dwell", "goOff", "clear", "cleared"}

Phases == {"on", "off", "pulseOn", "pulseOff", "low", "sweepOn", "sweepOff"}
Raising == {"on", "pulseOn", "sweepOn"}
Results == {"finished", "failed", "cancelled"}

Nothing == [kind |-> "none", pair |-> FALSE, disconnect |-> FALSE, clear |-> FALSE,
            script |-> <<>>]

\* pc: the await; todo: what is left of the scenario; phase: what a write of the
\* output is for; tries: polls, attempts or cycles of the current loop; got: the last
\* reply to BC; ok: GO was seen; wasOpen: the port was open when a ping began;
\* outcome: of the action, carried through its way out; begun: the scenario is past
\* its pioInit; answered: the facility received a BC of this action and its reply was
\* read; sawOff: GO was low when it was read after the unpair; told: the adapter has
\* noted what went wrong on the way out.
IdleFrame == [pc |-> "idle", act |-> Nothing, todo |-> <<>>, phase |-> "on", tries |-> 0,
              got |-> "none", ok |-> FALSE, wasOpen |-> FALSE, outcome |-> "finished",
              begun |-> FALSE, answered |-> FALSE, sawOff |-> FALSE, told |-> FALSE]

Acts == [kind: Kinds \cup {"none"}, pair: BOOLEAN, disconnect: BOOLEAN, clear: BOOLEAN,
         script: Seq(Steps)]
Frames == [pc: Places \cup {"idle"}, act: Acts, todo: Seq(Steps), phase: Phases, tries: Nat,
           got: {"none", "noise", "frame"}, ok: BOOLEAN, wasOpen: BOOLEAN, outcome: Results,
           begun: BOOLEAN, answered: BOOLEAN, sawOff: BOOLEAN, told: BOOLEAN]

Idle(t) == task[t].pc = "idle"
Becomes(t, f) == task' = [task EXCEPT ![t] = f]
At(t, place) == task[t].pc = place
Goes(t, place) == Becomes(t, [task[t] EXCEPT !.pc = place])

Ended(f, o) ==
  [IdleFrame EXCEPT !.act = [f.act EXCEPT !.script = <<>>], !.outcome = o,
                    !.answered = f.answered, !.sawOff = f.sawOff, !.told = f.told]

-------------------------------------------------------------------------------
(* The I/O board *)

SetSelect(on) ==
  /\ select' = on
  /\ heard' = (heard /\ ~(on /\ ~select))
  /\ paired' = (paired /\ ~(select /\ ~on /\ ~heard))

\* EZIIOClient._send: answered, refused by an exception, or not answered in time, which
\* returns None whether or not the board has done it.
BoardAnswers(lowers) ==
  {"ok"} \cup (IF lowers /\ "offFails" \notin May THEN {} ELSE {"error"})
         \cup (IF "silentBoard" \in May THEN {"none"} ELSE {})

Does(answer, done, undone) == \/ answer # "error" /\ done
                              \/ answer # "ok" /\ undone

\* A late reply to a cancelled request answers the next one, whose own is late then.
Heeds == echo' \in (IF echo THEN BOOLEAN ELSE {FALSE})

\* What a read of a line may return that is at level v.
Reads(v) == {v} \cup (IF echo THEN BOOLEAN ELSE {})

-------------------------------------------------------------------------------
(* Where an action goes *)

\* A scenario that releases the facility only after its last step.
LeaveScriptFault(f, o) ==
  IF f.act.disconnect /\ o = "finished" THEN [f EXCEPT !.pc = "unselectOn", !.outcome = o]
                                       ELSE Ended(f, o)

\* The end of a scenario's body, its finally included.
LeaveScript(f, o) ==
  IF f.act.disconnect THEN [f EXCEPT !.pc = "unselectOn", !.outcome = o] ELSE Ended(f, o)

\* The next step of a scenario.
NextStep(f) ==
  LET enters(place) == [f EXCEPT !.pc = place, !.tries = 0] IN
  IF f.todo = <<>> THEN LeaveScript(f, "finished") ELSE
  LET type == Head(f.todo).type IN
  CASE type \in {"on", "off"} -> [enters("write") EXCEPT !.phase = type]
    [] type = "in" -> enters("read")
    [] type = "if" -> enters("branch")
    [] type = "delay" -> enters("sleep")
    [] type = "blink" -> enters("glance")
    [] OTHER -> LeaveScript(f, "failed")

StepDone(f) == NextStep([f EXCEPT !.todo = Tail(@)])

StartScript(f) == NextStep([f EXCEPT !.begun = TRUE, !.todo = f.act.script])

\* A pioInit that is content with GO, which may still be up from an earlier pairing.
PairingEndsFault(f, confirmed) ==
  IF f.act.kind = "ping"
  THEN IF confirmed THEN [f EXCEPT !.pc = "write", !.phase = "sweepOn"]
                    ELSE [f EXCEPT !.pc = "unselectOn", !.outcome = "failed"]
  ELSE IF ~confirmed THEN Ended(f, "failed")
  ELSE IF f.act.kind = "init" THEN Ended(f, "finished") ELSE StartScript(f)

\* The end of a pairing: pio_init raises unless the reply is a frame and the pairing
\* was confirmed; pio_ping looks at the confirmation only, and unpairs when it lacks.
PairingEnds(f, confirmed) ==
  IF f.act.kind = "ping"
  THEN IF confirmed THEN [f EXCEPT !.pc = "write", !.phase = "sweepOn"]
                    ELSE [f EXCEPT !.pc = "unselectOn", !.outcome = "failed"]
  ELSE IF ~(f.got = "frame" /\ confirmed) THEN Ended(f, "failed")
  ELSE IF f.act.kind = "init" THEN Ended(f, "finished") ELSE StartScript(f)

\* A pairing that lowers SELECT only when nothing was raised.
LowerSelectFault(f, o) ==
  IF o = "finished" THEN [f EXCEPT !.pc = "hold", !.outcome = o] ELSE Ended(f, o)

\* The finally of a pairing.
LowerSelect(f, o) == [f EXCEPT !.pc = "hold", !.outcome = o]

\* The finally of a blink.
LowerOutput(f, o) == [f EXCEPT !.pc = "write", !.phase = "low", !.outcome = o]

\* The end of a time limit is the choice of the clock; MaxTries polls fit into it.
Expired(f) == {TRUE} \cup (IF f.tries < MaxTries THEN {FALSE} ELSE {})

-------------------------------------------------------------------------------
(* The actions begin *)

FirstFrame(a) == [IdleFrame EXCEPT !.act = a, !.wasOpen = port]

\* pioInit, a scenario that pairs, and pioPing open the port first, which may fail.
BeginPairing(t, a) ==
  /\ a.kind \in {"init", "ping"} \/ (a.kind = "scenario" /\ a.pair)
  /\ \/ /\ port' = TRUE
        /\ late' = (late /\ port)
        /\ Becomes(t, [FirstFrame(a) EXCEPT !.pc = "selectOn"])
     \/ /\ ~port
        /\ Becomes(t, [Ended(FirstFrame(a), "failed") EXCEPT !.told = TRUE])
        /\ UNCHANGED serial

BeginWithout(t, a) ==
  /\ \/ a.kind = "scenario" /\ ~a.pair /\ Becomes(t, StartScript(FirstFrame(a)))
     \/ a.kind = "disconnect" /\ Becomes(t, [FirstFrame(a) EXCEPT !.pc = "unselectOn"])
  /\ UNCHANGED serial

Begin(t) ==
  /\ Idle(t)
  /\ "overlap" \in May \/ \A u \in Tasks : Idle(u)
  /\ actions < MaxActions
  /\ actions' = actions + 1
  /\ \E a \in Actions : BeginPairing(t, a) \/ BeginWithout(t, a)
  /\ UNCHANGED <<mode, lines, lit, facility, echo, cancels>>

-------------------------------------------------------------------------------
(* Pairing *)

\* In pio_pair the command is inside the try; with SELECT held it is before it.
SelectOn(t) ==
  /\ At(t, "selectOn")
  /\ \E answer \in BoardAnswers(FALSE) :
       /\ Does(answer, SetSelect(TRUE), UNCHANGED lines)
       /\ Becomes(t, IF answer # "error" THEN [task[t] EXCEPT !.pc = "settle"]
                     ELSE IF mode = "held" THEN Ended(task[t], "failed")
                     ELSE LowerSelect(task[t], "failed"))
  /\ Heeds
  /\ UNCHANGED <<mode, lit, facility, serial, bounds>>

\* send_bc holds the loop until its time is over, then returns what came: of this BC,
\* or of an earlier one.
Exchange(reply) ==
  /\ port
  /\ \/ /\ select /\ reply = "frame"
        /\ heard' = TRUE /\ paired' = TRUE /\ late' = FALSE
     \/ /\ select /\ reply = (IF late THEN "frame" ELSE "none") /\ "lateReply" \in May
        /\ heard' = TRUE /\ paired' = TRUE /\ late' = TRUE
     \/ /\ reply \in (IF late THEN {"frame"} ELSE {"none", "noise"})
        /\ late' = FALSE
        /\ UNCHANGED <<heard, paired>>
  /\ UNCHANGED <<select, port>>

SendBC(t) ==
  /\ task[t].pc \in {"settle", "poll"}
  /\ \/ \E reply \in {"none", "noise", "frame"} :
          /\ Exchange(reply)
          /\ Becomes(t, [task[t] EXCEPT !.pc = IF mode = "held" THEN "readGo" ELSE "hold",
                                        !.got = reply, !.answered = heard' /\ ~late'])
     \/ Becomes(t, LowerSelect(task[t], "failed")) /\ UNCHANGED <<lines, serial>>
  /\ UNCHANGED <<mode, lit, facility, echo, bounds>>

\* select_off_delay_sec, in the finally.
Hold(t) ==
  /\ At(t, "hold")
  /\ Goes(t, "selectOff")
  /\ UNCHANGED <<mode, lines, lit, facility, serial, echo, bounds>>

\* pio_pair passes over an exception of the command; pio_pair_until_go lets it through,
\* in place of a cancellation too.
SelectOff(t) ==
  /\ At(t, "selectOff")
  /\ \E answer \in BoardAnswers(TRUE) :
       /\ Does(answer, SetSelect(FALSE), UNCHANGED lines)
       /\ Becomes(t, [task[t] EXCEPT !.pc = "settled",
            !.outcome = IF answer = "error" /\ mode = "held" THEN "failed" ELSE @])
  /\ Heeds
  /\ UNCHANGED <<mode, lit, facility, serial, bounds>>

Settled(t) ==
  /\ At(t, "settled")
  /\ Becomes(t, LET f == task[t] IN
       IF f.outcome # "finished" THEN Ended(f, f.outcome)
       ELSE CASE mode = "reply" -> PairingEnds(f, f.got = "frame")
              [] mode = "held" -> PairingEnds(f, f.ok)
              [] mode = "go" -> [f EXCEPT !.pc = "readGo"])
  /\ UNCHANGED <<mode, lines, lit, facility, serial, echo, bounds>>

\* pio_pair_until_go: another BC while GO is low and there is time.
ReadGo(t) ==
  /\ At(t, "readGo")
  /\ LET f == task[t]
         leaves(on) == IF mode = "held" THEN [LowerSelect(f, "finished") EXCEPT !.ok = on]
                                        ELSE PairingEnds(f, on)
     IN \/ \E on \in Reads(go) \cup (IF "silentBoard" \in May THEN {FALSE} ELSE {}) :
             IF on THEN Becomes(t, leaves(TRUE))
             ELSE \E over \in Expired(f) :
                    Becomes(t, IF over THEN leaves(FALSE)
                               ELSE [f EXCEPT !.pc = IF mode = "held" THEN "poll" ELSE "retry",
                                              !.tries = @ + 1])
        \/ Becomes(t, IF mode = "held" THEN LowerSelect(f, "failed") ELSE Ended(f, "failed"))
  /\ Heeds
  /\ UNCHANGED <<mode, lines, lit, facility, serial, bounds>>

Retry(t) ==
  /\ At(t, "retry")
  /\ Goes(t, "selectOn")
  /\ UNCHANGED <<mode, lines, lit, facility, serial, echo, bounds>>

-------------------------------------------------------------------------------
(* The output *)

\* After a write that was read back, and after one that was not.
Written(f) ==
  CASE f.phase \in {"on", "off"} -> StepDone(f)
    [] f.phase \in {"pulseOn", "pulseOff"} -> [f EXCEPT !.pc = "keep"]
    [] f.phase = "low" -> IF f.outcome = "finished" THEN StepDone(f) ELSE LeaveScript(f, f.outcome)
    [] f.phase \in {"sweepOn", "sweepOff"} -> [f EXCEPT !.pc = "dwell"]

\* A blink lowers the output, a ping goes on to the next point, a scenario ends.
WriteFailed(f) ==
  CASE f.phase \in {"on", "off", "low"} -> LeaveScript(f, "failed")
    [] f.phase \in {"pulseOn", "pulseOff"} -> LowerOutput(f, "failed")
    [] f.phase \in {"sweepOn", "sweepOff"} -> [f EXCEPT !.pc = "unselectOn"]

Raiser(phase) == CASE phase = "on" -> "step" [] phase = "pulseOn" -> "blink"
                   [] phase = "sweepOn" -> "sweep" [] OTHER -> "none"

Write(t) ==
  /\ At(t, "write")
  /\ LET f == task[t] IN
     \E answer \in BoardAnswers(f.phase = "low") :
       /\ Does(answer, lit' = Raiser(f.phase), UNCHANGED lit)
       /\ Becomes(t, IF answer = "error" THEN WriteFailed(f) ELSE [f EXCEPT !.pc = "verify"])
  /\ Heeds
  /\ UNCHANGED <<mode, lines, facility, serial, bounds>>

\* The read back: a difference is an error, no answer is none.
Verify(t) ==
  /\ At(t, "verify")
  /\ LET f == task[t] IN
     \/ \E high \in Reads(lit # "none") :
          Becomes(t, IF high = (f.phase \in Raising) THEN Written(f) ELSE WriteFailed(f))
     \/ Becomes(t, WriteFailed(f))
     \/ "silentBoard" \in May /\ Becomes(t, Written(f))
  /\ Heeds
  /\ UNCHANGED <<mode, lines, lit, facility, serial, bounds>>

-------------------------------------------------------------------------------
(* The other steps of a scenario *)

Sleep(t) ==
  /\ At(t, "sleep")
  /\ Becomes(t, StepDone(task[t]))
  /\ UNCHANGED <<mode, lines, lit, facility, serial, echo, bounds>>

\* wait_pio_input, until the input is high or the time is over. An input that cannot
\* be read is an exception here, as in the steps below.
ReadInput(t) ==
  /\ At(t, "read")
  /\ LET f == task[t] IN
     \/ \E high \in Reads(input) :
          IF high THEN Becomes(t, StepDone(f))
          ELSE \E over \in Expired(f) :
                 Becomes(t, IF over THEN LeaveScript(f, "failed") ELSE [f EXCEPT !.tries = @ + 1])
     \/ Becomes(t, LeaveScript(f, "failed"))
  /\ Heeds
  /\ UNCHANGED <<mode, lines, lit, facility, serial, bounds>>

\* choose_pio_branch reads once and splices the branch in.
Branch(t) ==
  /\ At(t, "branch")
  /\ LET f == task[t]
         takes(branch) == NextStep([f EXCEPT !.todo = branch \o Tail(@)])
     IN \/ \E high \in Reads(input) :
             Becomes(t, takes(IF high THEN Head(f.todo).then ELSE Head(f.todo).otherwise))
        \/ Becomes(t, LeaveScript(f, "failed"))
  /\ Heeds
  /\ UNCHANGED <<mode, lines, lit, facility, serial, bounds>>

\* The top of the loop of pio_blink_output, with or without a look at the condition.
PulseOr(f, over) ==
  IF over THEN LowerOutput(f, "failed") ELSE [f EXCEPT !.pc = "write", !.phase = "pulseOn"]

Cycles(f) ==
  IF f.tries >= MinCycles THEN {[f EXCEPT !.pc = "check"]}
  ELSE {PulseOr(f, over) : over \in Expired(f)}

\* The condition at the start, for the record only, before the try.
Glance(t) ==
  /\ At(t, "glance")
  /\ \/ \E f \in Cycles(task[t]) : Becomes(t, f)
     \/ Becomes(t, LeaveScript(task[t], "failed"))
  /\ Heeds
  /\ UNCHANGED <<mode, lines, lit, facility, serial, bounds>>

Check(t) ==
  /\ At(t, "check")
  /\ LET f == task[t] IN
     \/ \E high \in Reads(input) :
          IF high \/ f.tries >= Count THEN Becomes(t, LowerOutput(f, "finished"))
          ELSE \E over \in Expired(f) : Becomes(t, PulseOr(f, over))
     \/ Becomes(t, LowerOutput(f, "failed"))
  /\ Heeds
  /\ UNCHANGED <<mode, lines, lit, facility, serial, bounds>>

\* _hold: a cycle that has to be full does not look at the condition.
Keep(t) ==
  /\ At(t, "keep")
  /\ LET f == task[t]
         looks == f.tries >= MinCycles
         elapsed == IF f.phase = "pulseOn" THEN {[f EXCEPT !.pc = "write", !.phase = "pulseOff"]}
                                           ELSE Cycles([f EXCEPT !.tries = @ + 1])
     IN IF ~looks THEN (\E g \in elapsed : Becomes(t, g)) /\ UNCHANGED echo
        ELSE /\ \/ \E high \in Reads(input) :
                     IF high THEN Becomes(t, LowerOutput(f, "finished"))
                             ELSE \E g \in elapsed : Becomes(t, g)
                \/ Becomes(t, LowerOutput(f, "failed"))
             /\ Heeds
  /\ UNCHANGED <<mode, lines, lit, facility, serial, bounds>>

\* The sweep of a ping.
Dwell(t) ==
  /\ At(t, "dwell")
  /\ Becomes(t, IF task[t].phase = "sweepOn"
                THEN [task[t] EXCEPT !.pc = "write", !.phase = "sweepOff"]
                ELSE [task[t] EXCEPT !.pc = "unselectOn"])
  /\ UNCHANGED <<mode, lines, lit, facility, serial, echo, bounds>>

-------------------------------------------------------------------------------
(* The way out *)

\* pio_release reports an exception and closes the port; pioDisconnect and a ping fail.
UnpairFails(t) ==
  /\ Becomes(t, [Ended(task[t], IF task[t].act.kind = "scenario" THEN task[t].outcome
                                ELSE "failed") EXCEPT !.told = TRUE])
  /\ port' = (port /\ task[t].act.kind # "scenario")
  /\ late' = (late /\ port')

Unselect(t, from, on, to) ==
  /\ At(t, from)
  /\ \E answer \in BoardAnswers(~on) :
       /\ Does(answer, SetSelect(on), UNCHANGED lines)
       /\ IF answer = "error" THEN UnpairFails(t) ELSE Goes(t, to) /\ UNCHANGED serial
  /\ Heeds
  /\ UNCHANGED <<mode, lit, facility, bounds>>

UnselectOn(t) == Unselect(t, "unselectOn", TRUE, "unsettle")
UnselectOff(t) == Unselect(t, "unselectOff", FALSE, "unsettled")

Unsettle(t) ==
  /\ At(t, "unsettle")
  /\ Goes(t, "unselectOff")
  /\ UNCHANGED <<mode, lines, lit, facility, serial, echo, bounds>>

\* The port is closed by a scenario, and by a ping that opened it, unless it was cancelled.
EndClosing(t, f, o, closes) ==
  /\ Becomes(t, Ended(f, o))
  /\ port' = (port /\ ~closes)
  /\ late' = (late /\ port')

Unsettled(t) ==
  /\ At(t, "unsettled")
  /\ LET f == task[t] IN
     CASE f.act.kind = "scenario" -> EndClosing(t, f, f.outcome, TRUE)
       [] f.act.kind = "ping" /\ f.outcome # "finished" ->
            EndClosing(t, [f EXCEPT !.told = f.outcome = "failed"], f.outcome,
                       f.outcome = "failed" /\ ~f.wasOpen)
       [] OTHER -> Becomes(t, [f EXCEPT !.pc = "goOff", !.tries = 0]) /\ UNCHANGED serial
  /\ UNCHANGED <<mode, lines, lit, facility, echo, bounds>>

\* pioDisconnect and pioPing wait for GO to fall; no answer counts as low.
GoOff(t) ==
  /\ At(t, "goOff")
  /\ LET f == task[t]
         ends(o) == Becomes(t, [f EXCEPT !.sawOff = @ \/ ~go, !.outcome = o, !.told = o # "finished",
                                         !.pc = IF f.act.clear THEN "clear" ELSE "cleared"])
     IN \/ \E high \in Reads(go) \cup (IF "silentBoard" \in May THEN {FALSE} ELSE {}) :
             IF ~high THEN ends("finished")
             ELSE \E over \in Expired(f) :
                    IF over THEN ends("failed") ELSE Becomes(t, [f EXCEPT !.tries = @ + 1])
        \/ Becomes(t, [Ended(f, "failed") EXCEPT !.told = TRUE])
  /\ Heeds
  /\ UNCHANGED <<mode, lines, lit, facility, serial, bounds>>

\* clearOutputs: every output, SELECT too.
Clear(t) ==
  /\ At(t, "clear")
  /\ \E answer \in BoardAnswers(FALSE) :
       /\ Does(answer, lit' = "none" /\ SetSelect(FALSE), UNCHANGED <<lit, lines>>)
       /\ Becomes(t, IF answer = "error" THEN [Ended(task[t], "failed") EXCEPT !.told = TRUE]
                     ELSE [task[t] EXCEPT !.pc = "cleared"])
  /\ Heeds
  /\ UNCHANGED <<mode, facility, serial, bounds>>

Close(t) ==
  /\ At(t, "cleared")
  /\ EndClosing(t, task[t], task[t].outcome,
                task[t].act.kind = "disconnect" \/ ~task[t].wasOpen)
  /\ UNCHANGED <<mode, lines, lit, facility, echo, bounds>>

-------------------------------------------------------------------------------
(* Cancellation, at any await *)

\* The awaits that no finally covers while a line may be high.
Unguarded(f) ==
  \/ f.pc \in {"hold", "selectOff", "unselectOn", "unsettle", "unselectOff"}
  \/ f.pc \in {"selectOn", "settle"} /\ mode = "held"
  \/ f.pc = "write" /\ f.phase = "low"

Cancelled(f) ==
  IF \/ Unguarded(f) /\ f.pc # "write"
     \/ f.pc \in {"settled", "unsettled", "goOff", "clear", "cleared", "retry"}
     \/ f.pc = "readGo" /\ mode = "go"
  THEN Ended(f, "cancelled") ELSE
  CASE f.pc \in {"selectOn", "settle", "poll", "readGo"} -> LowerSelect(f, "cancelled")
    [] f.pc \in {"write", "verify", "dwell"} /\ f.phase \in {"sweepOn", "sweepOff"} ->
         [f EXCEPT !.pc = "unselectOn", !.outcome = "cancelled"]
    [] f.pc \in {"write", "verify"} /\ f.phase \in {"pulseOn", "pulseOff"} ->
         LowerOutput(f, "cancelled")
    [] f.pc \in {"check", "keep"} -> LowerOutput(f, "cancelled")
    [] OTHER -> LeaveScript(f, "cancelled")

\* The command that was awaited may have been sent.
Commanded(f) ==
  \/ f.pc \in {"selectOn", "unselectOn"} /\ SetSelect(TRUE) /\ UNCHANGED lit
  \/ f.pc \in {"selectOff", "unselectOff"} /\ SetSelect(FALSE) /\ UNCHANGED lit
  \/ f.pc = "write" /\ lit' = Raiser(f.phase) /\ UNCHANGED lines
  \/ f.pc = "clear" /\ lit' = "none" /\ SetSelect(FALSE)

CancelAction(t) ==
  /\ ~Idle(t)
  /\ cancels < MaxCancels
  /\ cancels' = cancels + 1
  /\ "cancelUnguarded" \in May \/ ~Unguarded(task[t])
  /\ Becomes(t, Cancelled(task[t]))
  /\ Commanded(task[t]) \/ UNCHANGED <<lines, lit>>
  /\ echo' \in (IF "lateEcho" \in May THEN BOOLEAN ELSE {FALSE})
  /\ UNCHANGED <<mode, facility, serial, actions>>

-------------------------------------------------------------------------------
(* The facility *)

\* GO follows the pairing, and where SELECT is held rises only under it.
GoFollows ==
  /\ go # paired
  /\ paired /\ mode = "held" => select
  /\ go' = paired
  /\ UNCHANGED <<mode, lines, lit, input, serial, echo, task, bounds>>

InputChanges ==
  /\ input' = ~input
  /\ UNCHANGED <<mode, lines, lit, go, serial, echo, task, bounds>>

\* The facility drops the pairing of itself.
Drop ==
  /\ paired /\ ~select
  /\ paired' = FALSE
  /\ UNCHANGED <<mode, select, heard, lit, facility, serial, echo, task, bounds>>

-------------------------------------------------------------------------------
PioInit ==
  /\ mode \in Modes
  /\ select = FALSE /\ lit = "none" /\ heard = FALSE
  /\ paired = FALSE /\ go = FALSE /\ input \in BOOLEAN
  /\ port = FALSE /\ late = FALSE /\ echo = FALSE
  /\ task = [t \in Tasks |-> IdleFrame]
  /\ actions = 0 /\ cancels = 0

Pairing(t) == SelectOn(t) \/ SendBC(t) \/ Hold(t) \/ SelectOff(t) \/ Settled(t) \/ ReadGo(t) \/ Retry(t)
Scenario(t) == \/ Write(t) \/ Verify(t) \/ Sleep(t) \/ ReadInput(t) \/ Branch(t)
               \/ Glance(t) \/ Check(t) \/ Keep(t) \/ Dwell(t)
WayOut(t) == UnselectOn(t) \/ Unsettle(t) \/ UnselectOff(t) \/ Unsettled(t) \/ GoOff(t)
             \/ Clear(t) \/ Close(t)
Facility == GoFollows \/ InputChanges \/ Drop

PioNext ==
  \/ \E t \in Tasks : Begin(t) \/ Pairing(t) \/ Scenario(t) \/ WayOut(t) \/ CancelAction(t)
  \/ Facility

PioSpec == PioInit /\ [][PioNext]_pioVars

-------------------------------------------------------------------------------
(* Properties *)

\* Every variable keeps its type.
PioTypeOK ==
  /\ mode \in Modes
  /\ {select, heard, paired, go, input, port, late, echo} \subseteq BOOLEAN
  /\ lit \in {"none", "step", "blink", "sweep"}
  /\ task \in [Tasks -> Frames]
  /\ actions \in 0..MaxActions /\ cancels \in 0..MaxCancels

\* When no action runs SELECT is low, for the facility stays selected otherwise, and
\* no blink has left its output high: the finally blocks of pio_pair,
\* pio_pair_until_go and pio_blink_output, when a command or a poll fails, a time
\* limit passes or a cancellation comes, as long as the command that lowers the line is
\* done and no cancellation comes inside a finally.
LinesFall == (\A t \in Tasks : Idle(t)) => ~select /\ lit # "blink"

\* A scenario that is to disconnect and got past its pioInit leaves the facility
\* unpaired, or an error with the adapter, however its steps ended (pio_release).
ReleasedOrTold ==
  [][\A t \in Tasks :
       /\ task[t].begun /\ task[t].act.disconnect /\ task'[t].pc = "idle"
       => ~paired' \/ task'[t].told]_pioVars

\* pioInit finishes only if the facility received a BC of this very action and
\* answered it; pioDisconnect only if GO was seen to fall.
FinishedIsTrue ==
  \A t \in Tasks :
    Idle(t) /\ task[t].outcome = "finished" =>
      /\ task[t].act.kind = "init" => task[t].answered
      /\ task[t].act.kind = "disconnect" => task[t].sawOff

===============================================================================
