------------------------------- MODULE ArmChain -------------------------------
(* The arm channel of the race-day profile (configs/w17-ds4.json), from the   *)
(* button to the transmitted slot: a two-valued "seq" toggle with            *)
(* reset_on_nan, an "and" gate with a probe of the same gamepad, a channel    *)
(* node with a failsafe, and the transmitter's walk, evaluation and write.   *)
(*                                                                         *)
(* The nodes are shared, without a lock, by the eval loop, whose array is     *)
(* transmitted, and by the stream handlers, which evaluate the same nodes to  *)
(* show their values.                                                      *)
EXTENDS Naturals

CONSTANTS Loop,               \* the eval loop
          Viewers,            \* stream handlers (GetEvalStates)
          MinHold, MaxHold,   \* activation_duration_min, _max, in ticks
          MaxPresses,         \* bound on the presses of a behaviour
          None

ASSUME ArmAssumption ==
  /\ MinHold \in Nat \ {0} /\ MaxHold \in Nat /\ MinHold <= MaxHold
  /\ MaxPresses \in Nat
  /\ Loop \notin Viewers

Evaluators == {Loop} \cup Viewers

VARIABLES
  attached, down,      \* the gamepad is connected; its button is held
  moved,               \* the button has moved since the last tick
  press,               \* number of the current or last press
  outage,              \* heartbeats since the gamepad was lost, at most Outage
  toggle,              \* currentOutputIndex: 0 disarmed, 1 armed
  needsFreshPress,
  highEdge,            \* highEdgeTime: the age of the edge, and whose it was
  evalPass,            \* the channel node's evaluation state
  slot,                \* the channel in the transmitted array
  pc,                  \* the place of each evaluation
  seen,                \* the press at the time it read the button
  edge,                \* the edge it copied
  value,               \* the toggle's value it has, then the gate's
  beaten,              \* the loop has evaluated since the last tick
  barrier,             \* the last press that began before the last recovery
  toggledBy            \* the press that moved the toggle last

pad   == <<attached, down, moved, press, outage, barrier>>
seq   == <<toggle, needsFreshPress, highEdge, toggledBy>>
local == <<pc, seen, edge, value>>
vars  == <<pad, seq, evalPass, slot, local, beaten>>

\* A time is kept as its age, in ticks; all those past MaxHold are alike.
Edges == [age : 0 .. MaxHold + 1, press : 0 .. MaxPresses]

\* A loss lasts until the loop has slept and evaluated once: the gamepad takes
\* longer to enumerate.
Outage == 2

Init ==
  /\ attached = TRUE /\ down = FALSE /\ moved = FALSE /\ press = 0
  /\ outage = 0 /\ barrier = 0
  /\ toggle = 0 /\ needsFreshPress = FALSE /\ highEdge = None /\ toggledBy = 0
  /\ evalPass = "notEvaluated" /\ slot = "off"
  /\ pc = [e \in Evaluators |-> "idle"]
  /\ seen = [e \in Evaluators |-> 0]
  /\ edge = [e \in Evaluators |-> None]
  /\ value = [e \in Evaluators |-> "off"]
  /\ beaten = FALSE

\* The output values of the sequence: 0, which is falsy, and 32767.
OutputValue(index) == IF index = 0 THEN "off" ELSE "on"

Goto(e, label) == pc' = [pc EXCEPT ![e] = label]

-----------------------------------------------------------------------------
(* The driver, the gamepad and time.                                       *)

\* A finger moves the button at most once in 25 ms.
Press ==
  /\ ~moved /\ ~down /\ press < MaxPresses
  /\ moved' = TRUE /\ down' = TRUE /\ press' = press + 1
  /\ UNCHANGED <<attached, outage, barrier, seq, evalPass, slot, local, beaten>>

Release ==
  /\ ~moved /\ down
  /\ moved' = TRUE /\ down' = FALSE
  /\ UNCHANGED <<attached, press, outage, barrier, seq, evalPass, slot, local,
                 beaten>>

Detach ==
  /\ attached /\ attached' = FALSE /\ outage' = 0
  /\ UNCHANGED <<down, moved, press, barrier, seq, evalPass, slot, local,
                 beaten>>

Attach ==
  /\ ~attached /\ outage = Outage /\ attached' = TRUE /\ barrier' = press
  /\ UNCHANGED <<down, moved, press, outage, seq, evalPass, slot, local,
                 beaten>>

\* The loop evaluates in every heartbeat, which is a tick; an evaluation is
\* microseconds, so none is under way when a tick passes.
Tick ==
  /\ beaten /\ beaten' = FALSE /\ moved' = FALSE
  /\ \A e \in Evaluators : pc[e] = "idle"
  /\ highEdge' = IF highEdge = None \/ highEdge.age > MaxHold THEN highEdge
                 ELSE [highEdge EXCEPT !.age = @ + 1]
  /\ outage' = IF attached \/ outage = Outage THEN outage ELSE outage + 1
  /\ UNCHANGED <<attached, down, press, barrier, toggle, needsFreshPress,
                 toggledBy, evalPass, slot, local>>

-----------------------------------------------------------------------------
(* An evaluation.  OutputTransmitter.Eval first walks the entry and arms its  *)
(* channel node; a handler also evaluates nodes below a transmitter, where   *)
(* nothing arms it.                                                        *)

Start(e) ==
  /\ pc[e] = "idle" /\ Goto(e, "read")
  /\ \/ evalPass' = "notEvaluated"
     \/ e \in Viewers /\ UNCHANGED evalPass
  /\ UNCHANGED <<pad, seq, slot, seen, edge, value, beaten>>

(* InputSeq._Eval, one step for each access to the shared node.            *)

\* The condition: nan, true or false; time.Now() follows unless it is nan.
Read(e) ==
  /\ pc[e] = "read"
  /\ Goto(e, IF ~attached THEN "nan" ELSE IF down THEN "true" ELSE "false")
  /\ seen' = [seen EXCEPT ![e] = press]
  /\ UNCHANGED <<pad, seq, evalPass, slot, edge, value, beaten>>

\* A reset that takes a press held through the loss for a fresh one.
ResetKeepsPress(e) ==
  /\ pc[e] = "nan" /\ Goto(e, "clearEdge")
  /\ toggle' = 0
  /\ UNCHANGED <<pad, needsFreshPress, highEdge, toggledBy, evalPass, slot,
                 seen, edge, value, beaten>>

\* reset_on_nan, under the node's mutex.
Reset(e) ==
  /\ pc[e] = "nan" /\ Goto(e, "clearEdge")
  /\ toggle' = 0 /\ needsFreshPress' = TRUE
  /\ UNCHANGED <<pad, highEdge, toggledBy, evalPass, slot, seen, edge,
                 value, beaten>>

ClearEdge(e) ==
  /\ pc[e] = "clearEdge" /\ Goto(e, "gate")
  /\ highEdge' = None
  /\ value' = [value EXCEPT ![e] = "off"]
  /\ UNCHANGED <<pad, toggle, needsFreshPress, toggledBy, evalPass, slot,
                 seen, edge, beaten>>

CheckFresh(e) ==
  /\ pc[e] = "true" /\ Goto(e, IF needsFreshPress THEN "return" ELSE "mark")
  /\ UNCHANGED <<pad, seq, evalPass, slot, seen, edge, value, beaten>>

Mark(e) ==
  /\ pc[e] = "mark" /\ Goto(e, "return")
  /\ highEdge' = IF highEdge = None THEN [age |-> 0, press |-> seen[e]]
                 ELSE highEdge
  /\ UNCHANGED <<pad, toggle, needsFreshPress, toggledBy, evalPass, slot,
                 seen, edge, value, beaten>>

Released(e) ==
  /\ pc[e] = "false" /\ Goto(e, "take")
  /\ needsFreshPress' = FALSE
  /\ UNCHANGED <<pad, toggle, highEdge, toggledBy, evalPass, slot, seen,
                 edge, value, beaten>>

TakeEdge(e) ==
  /\ pc[e] = "take" /\ Goto(e, IF highEdge = None THEN "return" ELSE "clear")
  /\ edge' = [edge EXCEPT ![e] = highEdge]
  /\ UNCHANGED <<pad, seq, evalPass, slot, seen, value, beaten>>

\* The marker is cleared and the press judged by its length.
Judge(e) ==
  /\ pc[e] = "clear"
  /\ highEdge' = None
  /\ Goto(e, IF edge[e].age \in MinHold .. MaxHold THEN "next" ELSE "return")
  /\ UNCHANGED <<pad, toggle, needsFreshPress, toggledBy, evalPass, slot,
                 seen, edge, value, beaten>>

\* An index that is advanced without the modulus.
NextValueUnwrapped(e) ==
  /\ pc[e] = "next" /\ Goto(e, "gate")
  /\ toggle' = toggle + 1 /\ toggledBy' = edge[e].press
  /\ value' = [value EXCEPT ![e] = OutputValue(toggle + 1)]
  /\ UNCHANGED <<pad, needsFreshPress, highEdge, evalPass, slot, seen, edge,
                 beaten>>

\* NextValue with two output values, under the node's mutex.
NextValue(e) ==
  /\ pc[e] = "next" /\ Goto(e, "gate")
  /\ toggle' = 1 - toggle /\ toggledBy' = edge[e].press
  /\ value' = [value EXCEPT ![e] = OutputValue(1 - toggle)]
  /\ UNCHANGED <<pad, needsFreshPress, highEdge, evalPass, slot, seen, edge,
                 beaten>>

ReadValue(e) ==
  /\ pc[e] = "return" /\ Goto(e, "gate")
  /\ value' = [value EXCEPT ![e] = OutputValue(toggle)]
  /\ UNCHANGED <<pad, seq, evalPass, slot, seen, edge, beaten>>

(* InputAnd over the toggle and the probe, and InputChannel.               *)

\* A falsy left side ends the gate; a true one leaves it to the probe, whose
\* nan makes the gate nan.
GateResult(e) ==
  IF value[e] = "off" \/ attached THEN value[e] ELSE "nan"

Done(e) ==
  /\ Goto(e, "idle")
  /\ seen' = [seen EXCEPT ![e] = 0]
  /\ edge' = [edge EXCEPT ![e] = None]
  /\ value' = [value EXCEPT ![e] = "off"]

Gate(e) ==
  /\ pc[e] = "gate"
  /\ \/ evalPass' = IF GateResult(e) = "nan" THEN "failed" ELSE "resolved"
     \/ e \in Viewers /\ UNCHANGED evalPass
  /\ \/ /\ e = Loop /\ Goto(e, "write")
        /\ value' = [value EXCEPT ![e] = GateResult(e)]
        /\ UNCHANGED <<seen, edge>>
     \/ e \in Viewers /\ Done(e)
  /\ UNCHANGED <<pad, seq, slot, beaten>>

\* The slot: the result if it is a number and the channel node resolved this
\* pass, its failsafe, which is off, otherwise.
Write(e) ==
  /\ pc[e] = "write"
  /\ slot' = IF value[e] # "nan" /\ evalPass = "resolved" THEN value[e] ELSE "off"
  /\ beaten' = TRUE
  /\ Done(e)
  /\ UNCHANGED <<pad, seq, evalPass>>

-----------------------------------------------------------------------------
Evaluate(e) ==
  \/ Start(e)    \/ Read(e)     \/ Reset(e) \/ ClearEdge(e) \/ CheckFresh(e)
  \/ Mark(e)     \/ Released(e) \/ TakeEdge(e) \/ Judge(e)  \/ NextValue(e)
  \/ ReadValue(e) \/ Gate(e)    \/ Write(e)

Next ==
  \/ Press \/ Release \/ Detach \/ Attach \/ Tick
  \/ \E e \in Evaluators : Evaluate(e)

ArmSpec == Init /\ [][Next]_vars

-----------------------------------------------------------------------------
(* Properties.                                                             *)

\* Types; the toggle never leaves its two values, and an edge is of a press
\* that happened.
ArmTypeOK ==
  /\ attached \in BOOLEAN /\ down \in BOOLEAN /\ moved \in BOOLEAN
  /\ press \in 0 .. MaxPresses /\ barrier \in 0 .. press
  /\ toggle \in 0 .. 1 /\ needsFreshPress \in BOOLEAN
  /\ highEdge \in Edges \cup {None}
  /\ toggledBy \in 0 .. press
  /\ evalPass \in {"notEvaluated", "resolved", "failed"}
  /\ slot \in {"off", "on"}
  /\ pc \in [Evaluators -> {"idle", "read", "nan", "clearEdge", "true", "mark",
                            "false", "take", "clear", "next", "return", "gate",
                            "write"}]
  /\ seen \in [Evaluators -> 0 .. press]
  /\ edge \in [Evaluators -> Edges \cup {None}]
  /\ value \in [Evaluators -> {"off", "on", "nan"}]
  /\ outage \in 0 .. Outage /\ beaten \in BOOLEAN

\* After a loss of the gamepad the car is armed only once the button has been
\* pressed anew: a press held through the loss, or cut by it, never arms,
\* whatever evaluations of the handlers run between the loop's.
FreshArm == [][slot = "off" /\ slot' = "on" => press > barrier]_vars

\* One press moves the toggle once.
OneTogglePerPress ==
  [][\A e \in Evaluators : NextValue(e) => edge[e].press > toggledBy]_vars
=============================================================================
