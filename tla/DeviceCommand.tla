---------------------------- MODULE DeviceCommand ----------------------------
(* A command field of a device's settings, from the button to the device and  *)
(* back: CRSFDeviceViewerCommand in the browser, RunCRSFCommand in the server, *)
(* and the device at the other end of the serial line, which is external.      *)
(*                                                                         *)
(* React is external too: a press is handled and rendered at once; a step set  *)
(* by an answer or by an effect waits (want) and is rendered later, the last    *)
(* one set before the rendering counting, and a step already shown has no       *)
(* effect again.  Every answer on the line reaches all the handlers that wait   *)
(* for the field.  The link is up, and an answer is one chunk.                *)
EXTENDS Naturals, Sequences, FiniteSets

CONSTANTS Slots,       \* numbers of the calls, and of the timers, under way at once
          MaxPresses,  \* bound on what the user presses
          MaxOpened,   \* bound on how often the device's settings are opened
          MaxRequests, \* maxRequestsPerChunk
          MaxFrames,   \* bound on the frames under way in one direction
          None

Answers == {"IDLE", "ASK_CONFIRM", "EXECUTING"}
Orders  == {"CLICK", "CONFIRMED", "CANCEL"}
Steps   == Answers \cup Orders \cup {"QUERY"}

CallType == [kind : Orders \cup {"QUERY"}, press : Nat, for : Nat,
             at : Answers \cup {"sent", "server"}, requests : Nat]

FrameType == [step : Orders \cup {"QUERY"}, press : Nat]

ASSUME CommandAssumption ==
  /\ Slots \subseteq Nat \ {0} /\ MaxPresses \in Nat /\ MaxOpened \in Nat
  /\ MaxRequests \in Nat /\ MaxFrames \in Nat
  /\ None \notin Nat \cup Steps \cup CallType

VARIABLES
  step,       \* the step shown
  want,       \* the step set and not yet rendered, or None
  popup,      \* "closed", "executing" or "confirm"
  opened,     \* which opening of the settings is on screen
  calls,      \* by slot: a call of setCommandStep, or None
  timers,     \* by slot: the opening a query is due for, or None
  timeoutId,  \* the slot of the last timer set, or None
  up, down,   \* the frames on their way to the device, and back
  dev,        \* the step the device is in
  presses,    \* how often the user pressed a button
  started,    \* the presses that made the device ask or execute
  overlapped, \* a button was pressed with an answer outstanding
  late        \* an answer was not there in time for the handler, or for the
              \* component, that waited for it

ui     == <<step, want, popup, opened>>
line   == <<up, down>>
device == <<dev, started>>
vars   == <<ui, calls, timers, timeoutId, line, device, presses, overlapped, late>>

Init ==
  /\ step = "IDLE" /\ want = None /\ popup = "closed" /\ opened = 1
  /\ calls = [s \in Slots |-> None] /\ timers = [s \in Slots |-> None]
  /\ timeoutId = None
  /\ up = << >> /\ down = << >>
  /\ dev = "IDLE" /\ started = {} /\ presses = 0
  /\ overlapped = FALSE /\ late = FALSE

Mine      == {s \in Slots : calls[s] # None /\ calls[s].for = opened}
MyTimers  == {s \in Slots : timers[s] = opened}
Waiting   == {s \in Slots : calls[s] # None /\ calls[s].at = "server"}

Outstanding == want # None \/ Mine # {}

Free(slots, s) == slots[s] = None /\ \A r \in Slots : r < s => slots[r] # None

-----------------------------------------------------------------------------
(* The effect of a step shown.                                              *)

\* setCommandStep; the press is the one the call is made for, 0 for a query.
Call(s, kind, press, owner) ==
  /\ Free(calls, s)
  /\ calls' = [calls EXCEPT ![s] = [kind |-> kind, press |-> press, for |-> owner,
                                    at |-> "sent", requests |-> 0]]

Query ==
  /\ \E s \in Slots : /\ Free(timers, s)
                      /\ timers' = [timers EXCEPT ![s] = opened]
                      /\ timeoutId' = s
  /\ want' = None
  /\ UNCHANGED <<popup, calls>>

\* The popup is left as it is.
IdleLeavesPopup ==
  /\ want' = None /\ UNCHANGED <<popup, calls, timers, timeoutId>>

Idle ==
  /\ popup' = "closed" /\ want' = None
  /\ UNCHANGED <<calls, timers, timeoutId>>

\* Nothing asks how far the command is.
ExecutingTakenForDone ==
  /\ popup' = "executing" /\ want' = "IDLE"
  /\ UNCHANGED <<calls, timers, timeoutId>>

Executing ==
  /\ popup' = "executing" /\ want' = "QUERY"
  /\ UNCHANGED <<calls, timers, timeoutId>>

AskConfirm ==
  /\ popup' = "confirm" /\ want' = None
  /\ UNCHANGED <<calls, timers, timeoutId>>

\* A cancel leaves the timer to fire.
OrderedKeepsTimer(kind) ==
  /\ \E s \in Slots : Call(s, kind, presses', opened)
  /\ want' = None
  /\ popup' = IF kind = "CONFIRMED" THEN "closed" ELSE popup
  /\ UNCHANGED <<timers, timeoutId>>

Ordered(kind) ==
  /\ \E s \in Slots : Call(s, kind, presses', opened)
  /\ want' = None
  /\ popup' = IF kind = "CONFIRMED" THEN "closed" ELSE popup
  /\ timers' = IF kind = "CANCEL" /\ timeoutId # None
               THEN [timers EXCEPT ![timeoutId] = None] ELSE timers
  /\ UNCHANGED timeoutId

Effect(s) ==
  \/ s = "QUERY" /\ Query
  \/ s = "IDLE" /\ Idle
  \/ s = "EXECUTING" /\ Executing
  \/ s = "ASK_CONFIRM" /\ AskConfirm
  \/ s \in Orders /\ Ordered(s)

Render ==
  /\ want # None
  /\ IF want = step
     THEN want' = None /\ UNCHANGED <<step, popup, calls, timers, timeoutId>>
     ELSE step' = want /\ Effect(want)
  /\ UNCHANGED <<opened, line, device, presses, overlapped, late>>

-----------------------------------------------------------------------------
(* The user.                                                               *)

Press(s) ==
  /\ presses < MaxPresses /\ presses' = presses + 1
  /\ overlapped' = (overlapped \/ Outstanding)
  /\ IF s = step
     THEN want' = None /\ UNCHANGED <<step, popup, calls, timers, timeoutId>>
     ELSE step' = s /\ Effect(s)
  /\ UNCHANGED <<opened, line, device, late>>

\* The popups cover the button.
HandleClick == popup = "closed" /\ Press("CLICK")

HandleCloseExecuting == popup = "executing" /\ Press("CANCEL")

HandleCloseConfirm ==
  /\ popup = "confirm"
  /\ \E s \in {"CONFIRMED", "CANCEL"} : Press(s)

\* The settings are closed and opened again.  The clean-up would cancel a command
\* that was executing when the component was mounted: none ever was.
Reopen ==
  /\ popup = "closed" /\ opened < MaxOpened /\ opened' = opened + 1
  /\ step' = "IDLE" /\ want' = None
  /\ overlapped' = FALSE /\ late' = (late \/ overlapped \/ Outstanding)
  /\ UNCHANGED <<popup, calls, timers, timeoutId, line, device, presses>>

TimerFires(s) ==
  /\ timers[s] # None /\ timers' = [timers EXCEPT ![s] = None]
  /\ \E c \in Slots : Call(c, "QUERY", 0, timers[s])
  /\ UNCHANGED <<ui, timeoutId, line, device, presses, overlapped, late>>

-----------------------------------------------------------------------------
(* RunCRSFCommand.                                                         *)

Writes(frame) == Len(up) < MaxFrames /\ up' = Append(up, frame)

Elsewhere == <<ui, timers, timeoutId, down, device, presses, overlapped>>

RunCRSFCommand(s) ==
  /\ calls[s] # None /\ calls[s].at = "sent"
  /\ calls' = [calls EXCEPT ![s].at = "server", ![s].requests = 1]
  /\ Writes([step |-> calls[s].kind, press |-> calls[s].press])
  /\ UNCHANGED <<Elsewhere, late>>

\* A handler that asks for the same step again.
RequestSame(s) ==
  /\ s \in Waiting /\ calls[s].requests < MaxRequests
  /\ calls' = [calls EXCEPT ![s].requests = @ + 1]
  /\ Writes([step |-> calls[s].kind, press |-> calls[s].press])
  /\ late' = (late \/ Len(up) + Len(down) > 0)
  /\ UNCHANGED Elsewhere

\* No answer in time: whatever was asked for first, the field is queried.
Request(s) ==
  /\ s \in Waiting /\ calls[s].requests < MaxRequests
  /\ calls' = [calls EXCEPT ![s].requests = @ + 1]
  /\ Writes([step |-> "QUERY", press |-> 0])
  /\ late' = (late \/ Len(up) + Len(down) > 0)
  /\ UNCHANGED Elsewhere

\* The browser is left with a step that is none.
GiveUpNoField(s) ==
  /\ s \in Waiting /\ calls[s].requests >= MaxRequests
  /\ calls' = [calls EXCEPT ![s].at = None]
  /\ late' = TRUE
  /\ UNCHANGED <<Elsewhere, up>>

\* The answer has no field: the browser takes the error for IDLE.
GiveUp(s) ==
  /\ s \in Waiting /\ calls[s].requests >= MaxRequests
  /\ calls' = [calls EXCEPT ![s].at = "IDLE"]
  /\ late' = TRUE
  /\ UNCHANGED <<Elsewhere, up>>

\* An answer comes in, and all that wait for the field have it; or it is lost.
Delivered ==
  /\ down # << >> /\ down' = Tail(down)
  /\ calls' = [s \in Slots |-> IF s \in Waiting
                               THEN [calls[s] EXCEPT !.at = Head(down)] ELSE calls[s]]
  /\ UNCHANGED <<ui, timers, timeoutId, up, device, presses, overlapped, late>>

AnswerLost ==
  /\ down # << >> /\ down' = Tail(down)
  /\ UNCHANGED <<ui, calls, timers, timeoutId, up, device, presses, overlapped, late>>

\* The call returns to the component that made it.
Returns(s) ==
  /\ calls[s] # None /\ calls[s].at \in Answers
  /\ want' = IF calls[s].for = opened THEN calls[s].at ELSE want
  /\ calls' = [calls EXCEPT ![s] = None]
  /\ UNCHANGED <<step, popup, opened, timers, timeoutId, line, device, presses,
                 overlapped, late>>

-----------------------------------------------------------------------------
(* The device takes a write, or ignores it, and answers with its step.         *)

Takes(frame) ==
  \/ /\ frame.step = "CLICK" /\ dev = "IDLE"
     /\ dev' \in {"ASK_CONFIRM", "EXECUTING"}
     /\ started' = started \cup {frame.press}
  \/ /\ frame.step = "CONFIRMED" /\ dev # "EXECUTING"
     /\ dev' = "EXECUTING" /\ started' = started \cup {frame.press}
  \/ frame.step = "CANCEL" /\ dev' = "IDLE" /\ UNCHANGED started
  \/ /\ \/ frame.step = "QUERY"
        \/ frame.step = "CLICK" /\ dev # "IDLE"
        \/ frame.step = "CONFIRMED" /\ dev = "EXECUTING"
     /\ UNCHANGED device

DeviceTakes ==
  /\ up # << >> /\ Len(down) < MaxFrames
  /\ up' = Tail(up)
  /\ Takes(Head(up)) /\ down' = Append(down, dev')
  /\ UNCHANGED <<ui, calls, timers, timeoutId, presses, overlapped, late>>

DeviceIgnores ==
  /\ up # << >> /\ up' = Tail(up)
  /\ UNCHANGED <<ui, calls, timers, timeoutId, down, device, presses, overlapped, late>>

DeviceFinishes ==
  /\ dev = "EXECUTING" /\ dev' = "IDLE"
  /\ UNCHANGED <<ui, calls, timers, timeoutId, line, started, presses, overlapped, late>>

Next ==
  \/ Render \/ HandleClick \/ HandleCloseExecuting \/ HandleCloseConfirm \/ Reopen
  \/ \E s \in Slots : \/ TimerFires(s) \/ RunCRSFCommand(s) \/ Request(s)
                      \/ GiveUp(s) \/ Returns(s)
  \/ Delivered \/ AnswerLost
  \/ DeviceTakes \/ DeviceIgnores \/ DeviceFinishes

CommandSpec == Init /\ [][Next]_vars

\* Browser and server go on; the line moves, whether frames arrive or not; a
\* command the device executes ends.
CommandFairness ==
  /\ WF_vars(Render)
  /\ \A s \in Slots : /\ WF_vars(TimerFires(s)) /\ WF_vars(RunCRSFCommand(s))
                      /\ WF_vars(Request(s) \/ GiveUp(s)) /\ WF_vars(Returns(s))
  /\ WF_vars(Delivered \/ AnswerLost) /\ WF_vars(DeviceTakes \/ DeviceIgnores)
  /\ WF_vars(DeviceFinishes)

FairCommandSpec == CommandSpec /\ CommandFairness

-----------------------------------------------------------------------------
(* Properties.                                                             *)

CommandTypeOK ==
  /\ step \in Steps /\ want \in Answers \cup {"QUERY", None}
  /\ popup \in {"closed", "executing", "confirm"} /\ opened \in Nat
  /\ calls \in [Slots -> CallType \cup {None}] /\ timers \in [Slots -> Nat \cup {None}]
  /\ timeoutId \in Slots \cup {None}
  /\ up \in Seq(FrameType) /\ down \in Seq(Answers)
  /\ dev \in Answers /\ started \subseteq Nat /\ presses \in Nat
  /\ overlapped \in BOOLEAN /\ late \in BOOLEAN

\* Each time the device asks or executes, it is for a press of the user's that has
\* not made it do so before, however often the server asks again: frames may be
\* lost, answered late or overtaken by those of another call.
OncePerPress ==
  [][dev' # dev /\ dev' # "IDLE"
     => \E p \in 1 .. presses \ started : started' = started \cup {p}]_vars

\* Unless a button was pressed with an answer outstanding, one thing and one only
\* drives the component on from a step that is not for the user to leave: a step
\* to be rendered, a call, or the timer that timeoutId names.
OneDriver ==
  ~overlapped =>
    /\ Cardinality(Mine) + Cardinality(MyTimers) + (IF want = None THEN 0 ELSE 1)
         = IF step \in {"IDLE", "ASK_CONFIRM"} /\ want = None THEN 0 ELSE 1
    /\ MyTimers \subseteq {timeoutId}

\* When the component shows that the command is over, the device is idle, unless
\* an answer was late or never came, or buttons were pressed with one outstanding.
IdleShown == step = "IDLE" /\ want = None /\ ~overlapped /\ ~late => dev = "IDLE"

\* The popup of an executing command closes without the user's doing, if the
\* device's command ends, as CommandFairness says it does, and unless a button was
\* pressed with an answer outstanding.
PopupEnds == popup = "executing" ~> popup # "executing" \/ overlapped
=============================================================================
