------------------------- MODULE DeviceCommandProofs -------------------------
(***************************************************************************)
(* Proofs about DeviceCommand, for any number of calls, presses, openings, *)
(* requests and frames: types, that a press starts the device at most      *)
(* once, that one thing at a time drives the component on, and that the    *)
(* device is idle when the component says so.                              *)
(***************************************************************************)
EXTENDS DeviceCommand, SequenceTheorems, FiniteSetTheorems, TLAPS

\* What an effect leaves: a call is made only for the press that ordered it.
LEMMA EffectType ==
  ASSUME CommandTypeOK, presses' \in Nat, NEW s \in Steps, Effect(s)
  PROVE  /\ want' \in Answers \cup {"QUERY", None}
         /\ popup' \in {"closed", "executing", "confirm"}
         /\ calls' \in [Slots -> CallType \cup {None}]
         /\ timers' \in [Slots -> Nat \cup {None}]
         /\ timeoutId' \in Slots \cup {None}
<1> USE DEF CommandTypeOK, Steps, Answers, Orders
<1>1. CASE s = "QUERY" /\ Query
  BY <1>1 DEF Query
<1>2. CASE s = "IDLE" /\ Idle
  BY <1>2 DEF Idle
<1>3. CASE s = "EXECUTING" /\ Executing
  BY <1>3 DEF Executing
<1>4. CASE s = "ASK_CONFIRM" /\ AskConfirm
  BY <1>4 DEF AskConfirm
<1>5. CASE s \in Orders /\ Ordered(s)
  <2>1. PICK c \in Slots : Call(c, s, presses', opened)
    BY <1>5 DEF Ordered
  <2>2. calls' \in [Slots -> CallType \cup {None}]
    BY <1>5, <2>1 DEF Call, CallType
  <2> QED
    BY <1>5, <2>2 DEF Ordered
<1> QED
  BY <1>1, <1>2, <1>3, <1>4, <1>5 DEF Effect

LEMMA WritesType ==
  ASSUME CommandTypeOK, NEW f \in FrameType, Writes(f)
  PROVE  up' \in Seq(FrameType)
BY AppendProperties DEF CommandTypeOK, Writes

LEMMA ReopenLate == ASSUME Reopen PROVE late' \in BOOLEAN
BY DEF Reopen

LEMMA CommandTypeStep == CommandTypeOK /\ [Next]_vars => CommandTypeOK'
<1> SUFFICES ASSUME CommandTypeOK, [Next]_vars PROVE CommandTypeOK'
  OBVIOUS
<1> USE DEF CommandTypeOK, ui, line, device
<1>1. CASE Render
  <2>1. want \in Steps
    BY <1>1 DEF Render, Steps
  <2> QED
    BY <1>1, <2>1, EffectType DEF Render
<1>2. ASSUME NEW s \in Orders, Press(s) PROVE CommandTypeOK'
  <2>1. s \in Steps /\ presses' \in Nat
    BY <1>2 DEF Press, Steps
  <2> QED
    BY <1>2, <2>1, EffectType DEF Press
<1>3. CASE HandleClick \/ HandleCloseExecuting \/ HandleCloseConfirm
  BY <1>2, <1>3 DEF HandleClick, HandleCloseExecuting, HandleCloseConfirm, Orders
<1>4. CASE Reopen
  <2>1. late' \in BOOLEAN
    BY <1>4, ReopenLate
  <2> QED
    <3>1. /\ step' = "IDLE" /\ want' = None /\ popup' = popup /\ opened' = opened + 1
          /\ overlapped' = FALSE
          /\ UNCHANGED <<calls, timers, timeoutId, up, down, dev, started, presses>>
      BY <1>4 DEF Reopen
    <3>2. step' \in Steps /\ want' \in Answers \cup {"QUERY", None} /\ opened' \in Nat
      BY <3>1 DEF Steps, Answers
    <3>3. overlapped' \in BOOLEAN
      BY <3>1
    <3> QED
      BY <2>1, <3>1, <3>2, <3>3
<1>5. ASSUME NEW s \in Slots, TimerFires(s) PROVE CommandTypeOK'
  <2>1. PICK c \in Slots : Call(c, "QUERY", 0, timers[s])
    BY <1>5 DEF TimerFires
  <2>2. calls' \in [Slots -> CallType \cup {None}]
    BY <1>5, <2>1 DEF TimerFires, Call, CallType
  <2> QED
    BY <1>5, <2>2 DEF TimerFires
<1>6. ASSUME NEW s \in Slots, RunCRSFCommand(s) PROVE CommandTypeOK'
  <2>1. calls' \in [Slots -> CallType \cup {None}]
    <3>1. calls[s] \in CallType
      BY <1>6 DEF RunCRSFCommand
    <3>2. [calls[s] EXCEPT !.at = "server", !.requests = 1] \in CallType
      BY <3>1 DEF CallType
    <3> QED
      BY <1>6, <3>2 DEF RunCRSFCommand
  <2>2. up' \in Seq(FrameType)
    BY <1>6, WritesType DEF RunCRSFCommand, CallType, FrameType
  <2> QED
    BY <1>6, <2>1, <2>2 DEF RunCRSFCommand, Elsewhere
<1>7. ASSUME NEW s \in Slots, Request(s) PROVE CommandTypeOK'
  <2>1. calls' \in [Slots -> CallType \cup {None}]
    BY <1>7 DEF Request, Waiting, CallType
  <2>2. up' \in Seq(FrameType)
    BY <1>7, WritesType DEF Request, FrameType
  <2> QED
    BY <1>7, <2>1, <2>2 DEF Request, Elsewhere
<1>8. ASSUME NEW s \in Slots, GiveUp(s) PROVE CommandTypeOK'
  BY <1>8 DEF GiveUp, Waiting, CallType, Elsewhere, Answers
<1>9. ASSUME NEW s \in Slots, Returns(s) PROVE CommandTypeOK'
  BY <1>9 DEF Returns, CallType
<1>10. CASE Delivered
  <2>1. Head(down) \in Answers /\ down' \in Seq(Answers)
    BY <1>10, HeadTailProperties DEF Delivered
  <2>2. calls' \in [Slots -> CallType \cup {None}]
    <3>1. \A r \in Waiting : [calls[r] EXCEPT !.at = Head(down)] \in CallType
      BY <2>1 DEF Waiting, CallType
    <3> QED
      BY <1>10, <3>1 DEF Delivered
  <2> QED
    BY <1>10, <2>1, <2>2 DEF Delivered
<1>11. CASE AnswerLost
  BY <1>11, HeadTailProperties DEF AnswerLost
<1>12. CASE DeviceTakes
  <2>1. Head(up) \in FrameType /\ up' \in Seq(FrameType)
    BY <1>12, HeadTailProperties DEF DeviceTakes
  <2>2. dev' \in Answers /\ started' \subseteq started \cup {Head(up).press}
    BY <1>12 DEF DeviceTakes, Takes, Answers
  <2>3. down' \in Seq(Answers)
    BY <1>12, <2>2, AppendProperties DEF DeviceTakes
  <2> QED
    BY <1>12, <2>1, <2>2, <2>3 DEF DeviceTakes, FrameType
<1>13. CASE DeviceIgnores
  BY <1>13, HeadTailProperties DEF DeviceIgnores
<1>14. CASE DeviceFinishes
  BY <1>14 DEF DeviceFinishes, Answers
<1>15. CASE UNCHANGED vars
  BY <1>15 DEF vars
<1> QED
  BY <1>1, <1>3, <1>4, <1>5, <1>6, <1>7, <1>8, <1>9, <1>10, <1>11, <1>12, <1>13, <1>14,
     <1>15 DEF Next

\* The type invariant.
THEOREM CommandTypeCorrect == CommandSpec => []CommandTypeOK
<1>1. Init => CommandTypeOK
  <2> SUFFICES ASSUME Init PROVE CommandTypeOK
    OBVIOUS
  <2>1. up \in Seq(FrameType) /\ down \in Seq(Answers)
    BY EmptySeq DEF Init
  <2> QED
    BY <2>1 DEF Init, CommandTypeOK, Steps, Answers
<1> QED
  BY <1>1, CommandTypeStep, PTL DEF CommandSpec
-----------------------------------------------------------------------------
(* The orders on their way: calls the server has not taken up, and frames.     *)
(* Each is of a press of its own, which has started nothing yet.             *)

OrderCalls  == {s \in Slots : calls[s] # None /\ calls[s].at = "sent" /\ calls[s].kind \in Orders}
OrderFrames == {i \in DOMAIN up : up[i].step \in Orders}

Pending(p) == p \in 1 .. presses \ started

OrdersFresh ==
  /\ started \subseteq 1 .. presses
  /\ \A s \in OrderCalls : Pending(calls[s].press)
  /\ \A i \in OrderFrames : Pending(up[i].press)

OrdersApart ==
  /\ \A s, r \in OrderCalls : calls[s].press = calls[r].press => s = r
  /\ \A i, j \in OrderFrames : up[i].press = up[j].press => i = j
  /\ \A s \in OrderCalls, i \in OrderFrames : calls[s].press # up[i].press

OnePressEach == OrdersFresh /\ OrdersApart

\* A step that only removes orders, and starts nothing, keeps them apart.
LEMMA FewerOrders ==
  ASSUME CommandTypeOK, OnePressEach, presses' = presses, started' = started,
         \A s \in OrderCalls' : s \in OrderCalls /\ calls'[s].press = calls[s].press,
         UNCHANGED up
  PROVE  OnePressEach'
BY DEF OnePressEach, OrdersFresh, OrdersApart, OrderFrames, Pending

\* So does the loss of the first frame.
LEMMA FirstFrameGone ==
  ASSUME CommandTypeOK, OnePressEach, up # << >>, up' = Tail(up), UNCHANGED calls,
         presses' = presses, started \subseteq started',
         started' \subseteq started \cup
           (IF Head(up).step \in Orders THEN {Head(up).press} ELSE {})
  PROVE  OnePressEach'
<1>1. \A i \in DOMAIN up' : i + 1 \in DOMAIN up /\ i + 1 # 1 /\ up'[i] = up[i + 1]
  BY HeadTailProperties DEF CommandTypeOK
<1>2. 1 \in DOMAIN up /\ Head(up) = up[1]
  BY DEF CommandTypeOK
<1>3. \A i \in OrderFrames' : i + 1 \in OrderFrames /\ up'[i].press = up[i + 1].press
  BY <1>1 DEF OrderFrames
<1>4. OrderCalls' = OrderCalls
  BY DEF OrderCalls
<1>5. started' = started \/ (1 \in OrderFrames /\ started' = started \cup {up[1].press})
  BY <1>2 DEF OrderFrames
<1>6. OrdersFresh'
  <2>1. \A i \in OrderFrames' : up'[i].press \notin started'
    BY <1>1, <1>3, <1>5 DEF OnePressEach, OrdersFresh, OrdersApart, Pending, OrderFrames
  <2>2. \A s \in OrderCalls : calls[s].press \notin started'
    BY <1>5 DEF OnePressEach, OrdersFresh, OrdersApart, Pending
  <2> QED
    BY <1>3, <1>4, <1>5, <2>1, <2>2 DEF OnePressEach, OrdersFresh, Pending
<1>7. OrdersApart'
  <2>1. \A i \in OrderFrames' : i \in Nat
    BY HeadTailProperties DEF OrderFrames, CommandTypeOK
  <2> QED
    <3>1. \A s, r \in OrderCalls' : calls'[s].press = calls'[r].press => s = r
      BY <1>4 DEF OnePressEach, OrdersApart
    <3>2. \A i, j \in OrderFrames' : up'[i].press = up'[j].press => i = j
      <4> SUFFICES ASSUME NEW i \in OrderFrames', NEW j \in OrderFrames',
                          up'[i].press = up'[j].press
                   PROVE  i = j
        OBVIOUS
      <4>1. i + 1 \in OrderFrames /\ j + 1 \in OrderFrames /\ i \in Nat /\ j \in Nat
        BY <1>3, <2>1
      <4>2. up[i + 1].press = up[j + 1].press
        BY <1>3
      <4>3. i + 1 = j + 1
        BY <4>1, <4>2 DEF OnePressEach, OrdersApart
      <4> QED
        BY <4>1, <4>3
    <3>3. \A s \in OrderCalls', i \in OrderFrames' : calls'[s].press # up'[i].press
      <4> SUFFICES ASSUME NEW s \in OrderCalls', NEW i \in OrderFrames'
                   PROVE  calls'[s].press # up'[i].press
        OBVIOUS
      <4>1. s \in OrderCalls /\ i + 1 \in OrderFrames /\ up'[i].press = up[i + 1].press
        BY <1>3, <1>4
      <4> QED
        BY <4>1 DEF OnePressEach, OrdersApart
    <3> QED
      BY <3>1, <3>2, <3>3 DEF OrdersApart
<1> QED
  BY <1>6, <1>7 DEF OnePressEach

\* An effect makes a call only of a step that is an order, for the last press.
LEMMA EffectOrders ==
  ASSUME CommandTypeOK, OnePressEach, NEW s \in Steps, Effect(s), UNCHANGED <<up, started>>,
         presses' = IF s \in Orders THEN presses + 1 ELSE presses
  PROVE  OnePressEach'
<1>1. CASE s \notin Orders
  <2>1. UNCHANGED <<calls, presses>>
    BY <1>1 DEF Effect, Query, Idle, Executing, AskConfirm
  <2> QED
    BY <2>1, FewerOrders DEF OrderCalls
<1>2. CASE s \in Orders
  <2>1. PICK c \in Slots : Call(c, s, presses', opened)
    BY <1>2 DEF Effect, Ordered, Orders
  <2>2. /\ calls[c] = None /\ calls'[c].press = presses + 1
        /\ \A r \in Slots \ {c} : calls'[r] = calls[r]
    BY <1>2, <2>1 DEF Call, Free, CommandTypeOK
  <2>3. OrderCalls' \subseteq OrderCalls \cup {c} /\ c \notin OrderCalls
    BY <2>2 DEF OrderCalls
  <2>4. \A r \in OrderCalls : r # c /\ calls'[r].press = calls[r].press
    BY <2>2, <2>3 DEF OrderCalls
  <2>5. OrderFrames' = OrderFrames
    BY DEF OrderFrames
  <2>6. presses' = presses + 1 /\ presses \in Nat
    BY <1>2 DEF CommandTypeOK
  <2>7. OrdersFresh'
    <3>1. \A p : Pending(p) => Pending(p)'
      BY <2>6 DEF Pending
    <3>2. presses + 1 \in 1 .. presses' \ started'
      BY <2>6 DEF Pending, OnePressEach, OrdersFresh
    <3> QED
      BY <2>2, <2>3, <2>4, <2>5, <2>6, <3>1, <3>2 DEF OnePressEach, OrdersFresh, Pending
  <2>8. OrdersApart'
    <3>1. \A p : Pending(p) => p # presses + 1
      BY <2>6 DEF Pending
    <3> QED
      BY <2>2, <2>3, <2>4, <2>5, <3>1 DEF OnePressEach, OrdersFresh, OrdersApart
  <2> QED
    BY <2>7, <2>8 DEF OnePressEach
<1> QED
  BY <1>1, <1>2

\* The orders on the line after a write.
LEMMA FramesWritten ==
  ASSUME CommandTypeOK, NEW f \in FrameType, Writes(f)
  PROVE  \A i \in OrderFrames' :
           \/ i \in OrderFrames /\ up'[i] = up[i]
           \/ i = Len(up) + 1 /\ up'[i] = f /\ f.step \in Orders
<1>1. up \in Seq(FrameType) /\ up' = Append(up, f)
  BY DEF CommandTypeOK, Writes
<1>2. up' \in Seq(FrameType) /\ Len(up') = Len(up) + 1
  BY <1>1, AppendProperties
<1>3. \A i \in 1 .. Len(up) : up'[i] = up[i]
  BY <1>1, AppendProperties
<1>4. up'[Len(up) + 1] = f
  BY <1>1, AppendProperties
<1> QED
  BY <1>1, <1>2, <1>3, <1>4 DEF OrderFrames

LEMMA OrdersStep ==
  ASSUME CommandTypeOK, OnePressEach, [Next]_vars PROVE OnePressEach'
<1> USE DEF ui, line, device
<1>1. CASE Render
  <2>1. want \in Steps \ Orders
    BY <1>1 DEF Render, Steps, CommandTypeOK, Answers, Orders
  <2>2. CASE want = step
    BY <1>1, <2>2, FewerOrders DEF Render, OrderCalls
  <2>3. CASE want # step
    BY <1>1, <2>1, <2>3, EffectOrders DEF Render
  <2> QED
    BY <2>2, <2>3
<1>2. ASSUME NEW s \in Orders, Press(s) PROVE OnePressEach'
  <2>1. CASE s = step
    <3>1. UNCHANGED <<calls, up, started>> /\ presses' = presses + 1 /\ presses \in Nat
      BY <1>2, <2>1 DEF Press, CommandTypeOK
    <3>2. \A p : Pending(p) => Pending(p)'
      BY <3>1 DEF Pending
    <3> QED
      BY <3>1, <3>2 DEF OnePressEach, OrdersFresh, OrdersApart, OrderCalls, OrderFrames
  <2>2. CASE s # step
    BY <1>2, <2>2, EffectOrders DEF Press, Steps
  <2> QED
    BY <2>1, <2>2
<1>3. CASE HandleClick \/ HandleCloseExecuting \/ HandleCloseConfirm
  BY <1>2, <1>3 DEF HandleClick, HandleCloseExecuting, HandleCloseConfirm, Orders
<1>4. CASE Reopen \/ AnswerLost \/ DeviceFinishes \/ UNCHANGED vars
  BY <1>4, FewerOrders DEF Reopen, AnswerLost, DeviceFinishes, vars, OrderCalls
<1>5. ASSUME NEW s \in Slots, TimerFires(s) PROVE OnePressEach'
  <2>1. PICK c \in Slots : Call(c, "QUERY", 0, timers[s])
    BY <1>5 DEF TimerFires
  <2>2. calls'[c].kind = "QUERY" /\ \A r \in Slots \ {c} : calls'[r] = calls[r]
    BY <1>5, <2>1 DEF TimerFires, Call, CommandTypeOK
  <2> QED
    BY <1>5, <2>2, FewerOrders DEF TimerFires, OrderCalls, Orders
<1>6. ASSUME NEW s \in Slots, RunCRSFCommand(s) PROVE OnePressEach'
  <2> DEFINE f == [step |-> calls[s].kind, press |-> calls[s].press]
  <2>1. f \in FrameType /\ Writes(f)
    BY <1>6 DEF RunCRSFCommand, CommandTypeOK, CallType, FrameType
  <2>2. UNCHANGED <<presses, started>>
    BY <1>6 DEF RunCRSFCommand, Elsewhere
  <2>3. calls'[s].at = "server" /\ \A r \in Slots \ {s} : calls'[r] = calls[r]
    BY <1>6 DEF RunCRSFCommand, CommandTypeOK, CallType
  <2>4. \A r \in OrderCalls' : r \in OrderCalls \ {s} /\ calls'[r] = calls[r]
    BY <2>3 DEF OrderCalls
  <2>5. f.step \in Orders => s \in OrderCalls
    BY <1>6 DEF RunCRSFCommand, OrderCalls
  <2>6. \A i \in OrderFrames' :
          \/ i \in OrderFrames /\ up'[i] = up[i]
          \/ i = Len(up) + 1 /\ up'[i].press = calls[s].press /\ s \in OrderCalls
    BY <2>1, <2>5, FramesWritten
  <2> QED
    BY <2>2, <2>4, <2>6 DEF OnePressEach, OrdersFresh, OrdersApart, Pending
<1>7. ASSUME NEW s \in Slots, Request(s) PROVE OnePressEach'
  <2> DEFINE f == [step |-> "QUERY", press |-> 0]
  <2>1. f \in FrameType /\ Writes(f) /\ f.step \notin Orders
    BY <1>7 DEF Request, FrameType, Orders
  <2>2. UNCHANGED <<presses, started>>
    BY <1>7 DEF Request, Elsewhere
  <2>3. calls'[s].at = calls[s].at /\ \A r \in Slots \ {s} : calls'[r] = calls[r]
    BY <1>7 DEF Request, Waiting, CommandTypeOK, CallType
  <2>4. \A r \in OrderCalls' : r \in OrderCalls /\ calls'[r] = calls[r]
    BY <1>7, <2>3 DEF OrderCalls, Request, Waiting
  <2>5. \A i \in OrderFrames' : i \in OrderFrames /\ up'[i] = up[i]
    BY <2>1, FramesWritten
  <2> QED
    BY <2>2, <2>4, <2>5 DEF OnePressEach, OrdersFresh, OrdersApart, Pending
<1>8. ASSUME NEW s \in Slots, GiveUp(s) PROVE OnePressEach'
  <2>1. calls'[s].at = "IDLE" /\ \A r \in Slots \ {s} : calls'[r] = calls[r]
    BY <1>8 DEF GiveUp, CommandTypeOK, Waiting, CallType
  <2> QED
    BY <1>8, <2>1, FewerOrders DEF GiveUp, Elsewhere, OrderCalls
<1>9. ASSUME NEW s \in Slots, Returns(s) PROVE OnePressEach'
  <2>1. calls'[s] = None /\ \A r \in Slots \ {s} : calls'[r] = calls[r]
    BY <1>9 DEF Returns, CommandTypeOK
  <2> QED
    BY <1>9, <2>1, FewerOrders DEF Returns, OrderCalls
<1>10. CASE Delivered
  <2>1. Head(down) \in Answers
    BY <1>10, HeadTailProperties DEF Delivered, CommandTypeOK
  <2>2. \A r \in Waiting : calls'[r].at \in Answers
    BY <1>10, <2>1 DEF Delivered, Waiting, CommandTypeOK, CallType
  <2>3. \A r \in Slots \ Waiting : calls'[r] = calls[r]
    BY <1>10 DEF Delivered
  <2> QED
    BY <1>10, <2>2, <2>3, FewerOrders DEF Delivered, OrderCalls, Answers
<1>12. CASE DeviceTakes
  BY <1>12, FirstFrameGone DEF DeviceTakes, Takes, Orders
<1>13. CASE DeviceIgnores
  BY <1>13, FirstFrameGone DEF DeviceIgnores
<1> QED
  BY <1>1, <1>3, <1>4, <1>5, <1>6, <1>7, <1>8, <1>9, <1>10, <1>12, <1>13 DEF Next

\* Each time the device asks or executes, it is for a press that has not made it
\* do so before, however the frames are lost, repeated or overtaken.
THEOREM PressStartsOnce == CommandSpec => OncePerPress
<1>1. Init => OnePressEach
  BY EmptySeq DEF Init, OnePressEach, OrdersFresh, OrdersApart, OrderCalls, OrderFrames, Pending
<1>2. ASSUME CommandTypeOK, OnePressEach, [Next]_vars
      PROVE  [dev' # dev /\ dev' # "IDLE"
                => \E p \in 1 .. presses \ started : started' = started \cup {p}]_vars
  <2> USE DEF line, device
  <2>1. CASE DeviceTakes
    <3>1. 1 \in DOMAIN up /\ Head(up) = up[1]
      BY <1>2, <2>1 DEF DeviceTakes, CommandTypeOK
    <3>2. Head(up).step \in Orders => Pending(Head(up).press)
      BY <1>2, <3>1 DEF OnePressEach, OrdersFresh, OrderFrames
    <3>3. dev' # dev /\ dev' # "IDLE" =>
            Head(up).step \in Orders /\ started' = started \cup {Head(up).press}
      <4>1. Takes(Head(up))
        BY <2>1 DEF DeviceTakes
      <4> QED
        BY <4>1 DEF Takes, Orders
    <3> QED
      BY <3>2, <3>3 DEF Pending
  <2>2. CASE DeviceFinishes
    BY <2>2 DEF DeviceFinishes
  <2>3. CASE ~DeviceTakes /\ ~DeviceFinishes
    <3>1. CASE Render \/ HandleClick \/ HandleCloseExecuting \/ HandleCloseConfirm \/ Reopen
      BY <3>1 DEF Render, HandleClick, HandleCloseExecuting, HandleCloseConfirm, Press, Reopen
    <3>2. CASE \E s \in Slots : \/ TimerFires(s) \/ RunCRSFCommand(s) \/ Request(s)
                               \/ GiveUp(s) \/ Returns(s)
      BY <3>2 DEF TimerFires, RunCRSFCommand, Request, GiveUp, Returns, Elsewhere
    <3>3. CASE Delivered \/ AnswerLost \/ DeviceIgnores \/ UNCHANGED vars
      BY <3>3 DEF Delivered, AnswerLost, DeviceIgnores, vars
    <3> QED
      BY <1>2, <2>3, <3>1, <3>2, <3>3 DEF Next
  <2> QED
    BY <2>1, <2>2, <2>3
<1> QED
  BY <1>1, <1>2, OrdersStep, CommandTypeCorrect, PTL DEF CommandSpec, OncePerPress
-----------------------------------------------------------------------------
(* What drives the component, as long as no press overlaps an answer.          *)

\* No call or timer is of an opening that is yet to come.
Numbered ==
  \A s \in Slots : /\ calls[s] # None => calls[s].for <= opened
                   /\ timers[s] # None => timers[s] <= opened

\* A step to be rendered, a call and a timer exclude one another, and the step
\* shown says which of them it can be.
Driven == ~overlapped =>
  /\ want # None => /\ Mine = {} /\ MyTimers = {} /\ want # step
                    /\ want = "QUERY" => step = "EXECUTING"
  /\ Mine # {} => MyTimers = {} /\ step \in Orders \cup {"QUERY"}
  /\ MyTimers # {} => step = "QUERY" /\ MyTimers \subseteq {timeoutId}
  /\ \A s, r \in Mine : s = r
  /\ step \notin {"IDLE", "ASK_CONFIRM"} => want # None \/ Mine # {} \/ MyTimers # {}

\* The popup covers the button, and the close of the settings.
Covered == ~overlapped =>
  /\ step \in {"QUERY", "EXECUTING"} => popup = "executing"
  /\ step = "ASK_CONFIRM" => popup = "confirm"

DriverInv == Numbered /\ Driven /\ Covered

LEMMA NoneApart ==
  None \notin Nat /\ None \notin Steps /\ None \notin CallType /\ None # "IDLE"
BY CommandAssumption DEF CommandAssumption, Steps, Answers

LEMMA RenderDrives == ASSUME CommandTypeOK, DriverInv, Render PROVE DriverInv'
<1> USE NoneApart DEF CommandTypeOK, DriverInv, line, device
<1>0. UNCHANGED <<opened, overlapped>> /\ want # None
  BY DEF Render
<1>1. SUFFICES ASSUME want # step PROVE DriverInv'
  <2>1. CASE overlapped /\ want = step
    BY <1>0, <2>1 DEF Render, Numbered, Driven, Covered
  <2>2. CASE ~overlapped
    BY <1>0, <1>1, <2>2 DEF Driven
  <2> QED
    BY <1>1, <2>1, <2>2
<1>2. step' = want /\ Effect(want) /\ want \notin Orders
  BY <1>0, <1>1 DEF Render, Orders, Answers
<1>3. calls' = calls /\ Mine' = Mine
  <2>1. calls' = calls
    BY <1>2 DEF Effect, Query, Idle, Executing, AskConfirm
  <2> QED
    BY <1>0, <2>1 DEF Mine
<1>4. CASE want = "QUERY" /\ Query
  <2>1. PICK s \in Slots : Free(timers, s) /\ timers' = [timers EXCEPT ![s] = opened] /\ timeoutId' = s
    BY <1>4 DEF Query
  <2>2. want' = None /\ popup' = popup
    BY <1>4 DEF Query
  <2>3. Numbered'
    BY <1>0, <1>3, <2>1 DEF Numbered
  <2>4. ~overlapped => MyTimers' = {s} /\ Mine' = {}
    BY <1>0, <1>3, <2>1 DEF Driven, MyTimers
  <2>5. Driven'
    BY <1>0, <1>2, <1>4, <2>1, <2>2, <2>4 DEF Driven, Orders
  <2> QED
    BY <1>0, <1>2, <1>4, <2>2, <2>3, <2>5 DEF Driven, Covered
<1>5. CASE want # "QUERY"
  <2>1. timers' = timers /\ timeoutId' = timeoutId /\ MyTimers' = MyTimers
    <3>1. timers' = timers /\ timeoutId' = timeoutId
      BY <1>2, <1>5 DEF Effect, Idle, Executing, AskConfirm
    <3> QED
      BY <1>0, <3>1 DEF MyTimers
  <2>2. Numbered'
    BY <1>0, <1>3, <2>1 DEF Numbered
  <2>3. \/ want = "IDLE" /\ want' = None
        \/ want = "EXECUTING" /\ want' = "QUERY" /\ popup' = "executing"
        \/ want = "ASK_CONFIRM" /\ want' = None /\ popup' = "confirm"
    BY <1>2, <1>5 DEF Effect, Idle, Executing, AskConfirm
  <2>4. Driven'
    BY <1>0, <1>2, <1>3, <2>1, <2>3 DEF Driven, Steps, Answers
  <2>5. Covered'
    BY <1>2, <2>3 DEF Covered
  <2> QED
    BY <2>2, <2>4, <2>5
<1> QED
  BY <1>2, <1>4, <1>5 DEF Effect

LEMMA PressDrives ==
  ASSUME CommandTypeOK, DriverInv, NEW s \in Orders, Press(s),
         \/ s = "CLICK" /\ popup = "closed"
         \/ s = "CANCEL" /\ popup \in {"executing", "confirm"}
         \/ s = "CONFIRMED" /\ popup = "confirm"
  PROVE  DriverInv'
<1> USE NoneApart DEF CommandTypeOK, DriverInv, line, device
<1>0. /\ opened' = opened /\ overlapped' = (overlapped \/ Outstanding)
      /\ presses' = presses + 1
  BY DEF Press
<1>1. CASE s = step
  <2>1. UNCHANGED <<step, popup, calls, timers, timeoutId>>
    BY <1>1 DEF Press
  <2>2. Numbered'
    BY <1>0, <2>1 DEF Numbered
  <2>3. overlapped'
    BY <1>0, <1>1 DEF Driven, Orders, Outstanding
  <2> QED
    BY <2>2, <2>3 DEF Driven, Covered
<1>2. CASE s # step
  <2>1. step' = s /\ Ordered(s)
    BY <1>2 DEF Press, Effect, Orders
  <2>2. PICK c \in Slots : Call(c, s, presses', opened)
    BY <2>1 DEF Ordered
  <2>3. /\ calls[c] = None /\ calls'[c] # None /\ calls'[c].for = opened
        /\ \A r \in Slots \ {c} : calls'[r] = calls[r]
    <3>1. [kind |-> s, press |-> presses', for |-> opened, at |-> "sent", requests |-> 0] \in CallType
      BY <1>0 DEF CallType
    <3> QED
      BY <2>2, <3>1 DEF Call, Free
  <2>4. \A r \in Slots : timers'[r] \in {timers[r], None}
    BY <2>1 DEF Ordered
  <2>5. Numbered'
    BY <1>0, <2>3, <2>4 DEF Numbered
  <2>6. ASSUME ~overlapped' PROVE MyTimers' = {}
    <3>1. ~overlapped /\ Mine = {} /\ want = None
      BY <1>0, <2>6 DEF Outstanding
    <3>2. CASE MyTimers = {}
      BY <1>0, <2>4, <3>2 DEF MyTimers
    <3>3. CASE MyTimers # {}
      <4>1. step = "QUERY" /\ MyTimers = {timeoutId} /\ s = "CANCEL"
        BY <3>1, <3>3 DEF Driven, Covered
      <4>2. timeoutId \in Slots /\ timers' = [timers EXCEPT ![timeoutId] = None]
        <5>1. timeoutId \in Slots
          BY <4>1 DEF MyTimers
        <5>2. timeoutId # None
          BY <5>1, CommandAssumption DEF CommandAssumption
        <5> QED
          BY <2>1, <4>1, <5>1, <5>2 DEF Ordered
      <4> QED
        BY <1>0, <4>1, <4>2 DEF MyTimers
    <3> QED
      BY <3>2, <3>3
  <2>7. ASSUME ~overlapped' PROVE Mine' = {c}
    <3>1. Mine = {}
      BY <1>0, <2>7 DEF Outstanding
    <3> QED
      BY <1>0, <2>3, <3>1 DEF Mine
  <2>8. want' = None
    BY <2>1 DEF Ordered
  <2>9. Driven'
    BY <2>1, <2>6, <2>7, <2>8 DEF Driven, Orders
  <2>10. Covered'
    BY <2>1 DEF Covered, Orders
  <2> QED
    BY <2>5, <2>9, <2>10
<1> QED
  BY <1>1, <1>2

LEMMA ReopenDrives == ASSUME CommandTypeOK, DriverInv, Reopen PROVE DriverInv'
<1> USE NoneApart DEF CommandTypeOK, DriverInv
<1>1. /\ opened' = opened + 1 /\ step' = "IDLE" /\ want' = None
      /\ UNCHANGED <<popup, calls, timers, timeoutId>>
  BY DEF Reopen
<1>2. Numbered'
  BY <1>1 DEF Numbered, CallType
<1>3. Mine' = {} /\ MyTimers' = {}
  BY <1>1 DEF Numbered, Mine, MyTimers, CallType
<1> QED
  BY <1>1, <1>2, <1>3 DEF Driven, Covered

\* A step that changes neither the component's state nor who drives it.
LEMMA SameDrivers ==
  ASSUME CommandTypeOK, DriverInv, UNCHANGED <<step, want, popup, opened, timers, timeoutId, overlapped>>,
         \A s \in Slots : /\ calls'[s] = None <=> calls[s] = None
                          /\ calls[s] # None => calls'[s].for = calls[s].for
  PROVE  DriverInv'
<1>1. Mine' = Mine /\ MyTimers' = MyTimers
  BY DEF Mine, MyTimers
<1> QED
  BY <1>1 DEF DriverInv, Numbered, Driven, Covered

LEMMA DriverStep == ASSUME CommandTypeOK, DriverInv, [Next]_vars PROVE DriverInv'
<1> USE NoneApart DEF ui, line, device
<1>1. CASE Render
  BY <1>1, RenderDrives
<1>2. CASE HandleClick
  BY <1>2, PressDrives DEF HandleClick, Orders
<1>3. CASE HandleCloseExecuting
  BY <1>3, PressDrives DEF HandleCloseExecuting, Orders
<1>4. CASE HandleCloseConfirm
  BY <1>4, PressDrives DEF HandleCloseConfirm, Orders
<1>5. CASE Reopen
  BY <1>5, ReopenDrives
<1>6. ASSUME NEW s \in Slots, TimerFires(s) PROVE DriverInv'
  <2>1. PICK c \in Slots : Call(c, "QUERY", 0, timers[s])
    BY <1>6 DEF TimerFires
  <2>2. timers[s] \in Nat /\ timers[s] # None /\ timers' = [timers EXCEPT ![s] = None]
    BY <1>6 DEF TimerFires, CommandTypeOK
  <2>3. /\ calls[c] = None /\ calls'[c] # None /\ calls'[c].for = timers[s]
        /\ \A r \in Slots \ {c} : calls'[r] = calls[r]
    <3>1. [kind |-> "QUERY", press |-> 0, for |-> timers[s], at |-> "sent", requests |-> 0] \in CallType
      BY <2>2 DEF CallType
    <3> QED
      BY <2>1, <3>1 DEF Call, Free, CommandTypeOK
  <2>4. UNCHANGED <<step, want, popup, opened, timeoutId, overlapped>>
    BY <1>6 DEF TimerFires
  <2>5. Numbered'
    BY <2>2, <2>3, <2>4 DEF DriverInv, Numbered, CommandTypeOK
  <2>6. Covered'
    BY <2>4 DEF DriverInv, Covered
  <2>7. CASE timers[s] = opened
    <3>1. s \in MyTimers
      BY <2>7 DEF MyTimers
    <3>2. Mine' = Mine \cup {c} /\ MyTimers' = MyTimers \ {s}
      BY <2>2, <2>3, <2>4, <2>7 DEF Mine, MyTimers, CommandTypeOK
    <3> QED
      BY <2>4, <2>5, <2>6, <3>1, <3>2 DEF DriverInv, Driven
  <2>8. CASE timers[s] # opened
    <3>1. Mine' = Mine /\ MyTimers' = MyTimers
      BY <2>2, <2>3, <2>4, <2>8 DEF Mine, MyTimers, CommandTypeOK
    <3> QED
      BY <2>4, <2>5, <2>6, <3>1 DEF DriverInv, Driven
  <2> QED
    BY <2>7, <2>8
<1>7. ASSUME NEW s \in Slots, RunCRSFCommand(s) \/ Request(s) \/ GiveUp(s) PROVE DriverInv'
  <2>1. /\ calls'[s] \in CallType /\ calls'[s].for = calls[s].for /\ calls[s] # None
        /\ \A r \in Slots \ {s} : calls'[r] = calls[r]
    <3>1. calls[s] \in CallType
      BY <1>7 DEF RunCRSFCommand, Request, GiveUp, Waiting, CommandTypeOK
    <3>2. CASE RunCRSFCommand(s)
      BY <3>1, <3>2 DEF RunCRSFCommand, CallType, CommandTypeOK
    <3>3. CASE Request(s)
      <4>1. /\ calls[s] # None
            /\ calls' = [calls EXCEPT ![s] = [calls[s] EXCEPT !.requests = @ + 1]]
        BY <3>1, <3>3 DEF Request, Waiting
      <4>2. [calls[s] EXCEPT !.requests = @ + 1] \in CallType
        BY <3>1 DEF CallType
      <4> QED
        BY <4>1, <4>2 DEF CommandTypeOK, CallType
    <3>4. CASE GiveUp(s)
      BY <3>1, <3>4 DEF GiveUp, CallType, CommandTypeOK, Answers
    <3> QED
      BY <1>7, <3>1, <3>2, <3>3, <3>4
  <2>2. UNCHANGED <<step, want, popup, opened, timers, timeoutId, overlapped>>
    BY <1>7 DEF RunCRSFCommand, Request, GiveUp, Elsewhere
  <2> QED
    BY <2>1, <2>2, SameDrivers
<1>8. ASSUME NEW s \in Slots, Returns(s) PROVE DriverInv'
  <2>1. calls[s] \in CallType /\ calls[s].at \in Answers
    BY <1>8 DEF Returns, CommandTypeOK
  <2>2. /\ calls'[s] = None /\ \A r \in Slots \ {s} : calls'[r] = calls[r]
        /\ UNCHANGED <<step, popup, opened, timers, timeoutId, overlapped>>
    BY <1>8 DEF Returns, CommandTypeOK
  <2>3. Numbered' /\ Covered' /\ MyTimers' = MyTimers
    BY <2>2 DEF DriverInv, Numbered, Covered, MyTimers
  <2>4. CASE calls[s].for = opened
    <3>1. s \in Mine /\ Mine' = Mine \ {s} /\ want' = calls[s].at
      BY <1>8, <2>1, <2>2, <2>4 DEF Mine, Returns
    <3>2. ~overlapped => Mine' = {}
      BY <3>1 DEF DriverInv, Driven
    <3> QED
      BY <2>1, <2>2, <2>3, <3>1, <3>2 DEF DriverInv, Driven, Answers, Orders, Steps
  <2>5. CASE calls[s].for # opened
    <3>1. Mine' = Mine /\ want' = want
      BY <1>8, <2>2, <2>5 DEF Mine, Returns
    <3> QED
      BY <2>2, <2>3, <3>1 DEF DriverInv, Driven
  <2> QED
    BY <2>4, <2>5
<1>9. CASE Delivered
  <2>1. Head(down) \in Answers
    BY <1>9, HeadTailProperties DEF Delivered, CommandTypeOK
  <2>2. \A r \in Waiting : calls[r] \in CallType /\ calls'[r] \in CallType /\ calls'[r].for = calls[r].for
    BY <1>9, <2>1 DEF Delivered, Waiting, CommandTypeOK, CallType
  <2>3. \A r \in Slots \ Waiting : calls'[r] = calls[r]
    BY <1>9 DEF Delivered
  <2>4. UNCHANGED <<step, want, popup, opened, timers, timeoutId, overlapped>>
    BY <1>9 DEF Delivered
  <2> QED
    BY <2>2, <2>3, <2>4, SameDrivers
<1>10. CASE AnswerLost \/ DeviceTakes \/ DeviceIgnores \/ DeviceFinishes \/ UNCHANGED vars
  <2>1. UNCHANGED <<step, want, popup, opened, timers, timeoutId, overlapped, calls>>
    BY <1>10 DEF AnswerLost, DeviceTakes, DeviceIgnores, DeviceFinishes, vars
  <2> QED
    BY <2>1, SameDrivers
<1> QED
  BY <1>1, <1>2, <1>3, <1>4, <1>5, <1>6, <1>7, <1>8, <1>9, <1>10 DEF Next

LEMMA DriverInvariant == CommandSpec => []DriverInv
<1>1. Init => DriverInv
  BY NoneApart, CommandAssumption DEF Init, DriverInv, Numbered, Driven, Covered, Mine, MyTimers
<1> QED
  BY <1>1, DriverStep, CommandTypeCorrect, PTL DEF CommandSpec

\* As long as no press overlaps an answer, the component is driven by one thing
\* at a time and never by none when the user cannot go on: the timer, the call and the
\* step set hand over to one another (CRSFDeviceViewerCommand's effects).
THEOREM OneThingDrives == CommandSpec => []OneDriver
<1>1. DriverInv => OneDriver
  <2> SUFFICES ASSUME DriverInv, ~overlapped PROVE
       /\ Cardinality(Mine) + Cardinality(MyTimers) + (IF want = None THEN 0 ELSE 1)
            = IF step \in {"IDLE", "ASK_CONFIRM"} /\ want = None THEN 0 ELSE 1
       /\ MyTimers \subseteq {timeoutId}
    BY DEF OneDriver
  <2>1. Mine = {} \/ \E s \in Mine : Mine = {s}
    BY DEF DriverInv, Driven
  <2>2. MyTimers = {} \/ MyTimers = {timeoutId}
    BY DEF DriverInv, Driven
  <2>3. (Mine = {} /\ Cardinality(Mine) = 0) \/ (Mine # {} /\ Cardinality(Mine) = 1)
    <3>1. CASE Mine = {}
      BY <3>1, FS_EmptySet
    <3>2. ASSUME NEW s \in Mine, Mine = {s} PROVE Mine # {} /\ Cardinality(Mine) = 1
      BY <3>2, FS_Singleton
    <3> QED
      BY <2>1, <3>1, <3>2
  <2>4. (MyTimers = {} /\ Cardinality(MyTimers) = 0) \/ (MyTimers # {} /\ Cardinality(MyTimers) = 1)
    <3>1. CASE MyTimers = {}
      BY <3>1, FS_EmptySet
    <3>2. CASE MyTimers = {timeoutId}
      BY <3>2, FS_Singleton
    <3> QED
      BY <2>2, <3>1, <3>2
  <2> QED
    BY <2>2, <2>3, <2>4, NoneApart DEF DriverInv, Driven, Orders
<1> QED
  BY <1>1, DriverInvariant, PTL
-----------------------------------------------------------------------------
(* The line, as long as no answer is late and no press overlaps another.       *)

Calm == ~overlapped /\ ~late

\* One frame at most is under way, and one call waits for it.
Quiet == Calm =>
  /\ \A s \in Slots : /\ calls[s] # None => calls[s].for = opened
                      /\ timers[s] # None => timers[s] = opened
  /\ Waiting = {} => up = << >> /\ down = << >>
  /\ Len(up) + Len(down) <= 1

\* An answer that says that the device is idle is true until it is shown.
Truthful == Calm =>
  /\ down # << >> /\ Head(down) = "IDLE" => dev = "IDLE"
  /\ \A s \in Slots : calls[s] # None /\ calls[s].at = "IDLE" => dev = "IDLE"
  /\ want = "IDLE" \/ (step = "IDLE" /\ want = None) => dev = "IDLE"

LineInv == Quiet /\ Truthful

LEMMA OneCall ==
  ASSUME CommandTypeOK, DriverInv, LineInv, Calm
  PROVE  /\ Mine = {s \in Slots : calls[s] # None}
         /\ MyTimers = {s \in Slots : timers[s] # None}
         /\ \A s \in Mine : Mine = {s} /\ want = None /\ MyTimers = {} /\ step \notin {"IDLE", "ASK_CONFIRM"}
         /\ Waiting \subseteq Mine
<1>1. Mine = {s \in Slots : calls[s] # None}
  BY DEF LineInv, Quiet, Calm, Mine
<1>2. MyTimers = {s \in Slots : timers[s] # None}
  BY NoneApart DEF LineInv, Quiet, Calm, MyTimers, CommandTypeOK
<1> QED
  BY <1>1, <1>2 DEF DriverInv, Driven, Calm, Waiting, Orders

LEMMA LineLength ==
  ASSUME CommandTypeOK
  PROVE  /\ Len(up) \in Nat /\ Len(down) \in Nat
         /\ up # << >> => Len(up) > 0
         /\ down # << >> => Len(down) > 0
         /\ Len(up) = 0 => up = << >>
         /\ Len(down) = 0 => down = << >>
BY EmptySeq, LenProperties DEF CommandTypeOK

LEMMA LastGone ==
  ASSUME NEW S, NEW q \in Seq(S), q # << >>, Len(q) <= 1 PROVE Tail(q) = << >>
<1>1. Tail(q) \in Seq(S) /\ Len(Tail(q)) = Len(q) - 1
  BY HeadTailProperties
<1>2. Len(q) \in Nat /\ Len(Tail(q)) \in Nat
  BY <1>1, LenProperties
<1>3. Len(Tail(q)) = 0
  BY <1>1, <1>2
<1> QED
  BY <1>1, <1>3, EmptySeq

LEMMA OneMore ==
  ASSUME NEW x PROVE Len(Append(<< >>, x)) = 1 /\ Head(Append(<< >>, x)) = x /\ Len(<< >>) = 0
<1>1. << >> \in Seq({x}) /\ Len(<< >>) = 0
  BY EmptySeq
<1>2. /\ Append(<< >>, x) \in Seq({x})
      /\ Len(Append(<< >>, x)) = 1
      /\ Append(<< >>, x)[1] = x
  BY <1>1, AppendProperties
<1> QED
  BY <1>1, <1>2

LEMMA LineStep ==
  ASSUME CommandTypeOK, CommandTypeOK', DriverInv, DriverInv', LineInv, [Next]_vars PROVE LineInv'
<1> SUFFICES ASSUME Calm' PROVE LineInv'
  BY DEF LineInv, Quiet, Truthful
<1> USE NoneApart DEF ui, line, device
<1>1. CASE Render
  <2>1. UNCHANGED <<up, down, dev, opened, overlapped, late>> /\ Calm
    BY <1>1 DEF Render, Calm
  <2>2. want # None /\ want # step
    BY <1>1, <2>1 DEF Render, DriverInv, Driven, Calm
  <2>3. step' = want /\ Effect(want) /\ want \notin Orders
    BY <1>1, <2>2 DEF Render, CommandTypeOK, Orders, Answers
  <2>4. calls' = calls
    BY <2>3 DEF Effect, Query, Idle, Executing, AskConfirm
  <2>5. want' \in {None, "QUERY"}
    BY <2>3 DEF Effect, Query, Idle, Executing, AskConfirm
  <2>6. \A s \in Slots : timers'[s] # None => timers'[s] = opened
    <3>1. \A s \in Slots : timers[s] # None => timers[s] = opened
      BY <2>1 DEF LineInv, Quiet
    <3>2. timers' = timers \/ \E s \in Slots : timers' = [timers EXCEPT ![s] = opened]
      BY <2>3 DEF Effect, Query, Idle, Executing, AskConfirm
    <3> QED
      BY <3>1, <3>2 DEF CommandTypeOK
  <2>7. Quiet'
    BY <2>1, <2>4, <2>6 DEF LineInv, Quiet, Waiting
  <2>8. Truthful'
    BY <2>1, <2>2, <2>3, <2>4, <2>5 DEF LineInv, Truthful
  <2> QED
    BY <2>7, <2>8 DEF LineInv
<1>2. ASSUME NEW s \in Orders, Press(s) PROVE LineInv'
  <2>1. /\ Calm /\ want = None /\ Mine = {} /\ UNCHANGED <<up, down, dev, opened>>
    BY <1>2 DEF Press, Calm, Outstanding
  <2>2. \A r \in Slots : calls[r] = None
    BY <2>1, OneCall
  <2>3. up = << >> /\ down = << >>
    BY <2>1, <2>2 DEF LineInv, Quiet, Waiting
  <2>4. s # step
    BY <2>1 DEF DriverInv, Driven, Calm, Orders
  <2>5. step' = s /\ Ordered(s)
    BY <1>2, <2>4 DEF Press, Effect, Orders
  <2>6. PICK c \in Slots : Call(c, s, presses', opened)
    BY <2>5 DEF Ordered
  <2>7. calls'[c].at = "sent" /\ calls'[c].for = opened /\ \A r \in Slots \ {c} : calls'[r] = None
    BY <2>2, <2>6 DEF Call, CommandTypeOK
  <2>8. \A r \in Slots : timers'[r] \in {timers[r], None}
    BY <2>5 DEF Ordered, CommandTypeOK
  <2>9. Quiet'
    <3>1. Waiting' = {}
      BY <2>7 DEF Waiting
    <3> QED
      BY <2>1, <2>3, <2>7, <2>8, <3>1, OneMore DEF LineInv, Quiet
  <2>10. Truthful'
    BY <2>1, <2>3, <2>5, <2>7 DEF Truthful, Ordered, Orders
  <2> QED
    BY <2>9, <2>10 DEF LineInv
<1>3. CASE HandleClick \/ HandleCloseExecuting \/ HandleCloseConfirm
  BY <1>2, <1>3 DEF HandleClick, HandleCloseExecuting, HandleCloseConfirm, Orders
<1>4. CASE Reopen
  <2>1. /\ Calm /\ want = None /\ Mine = {} /\ popup = "closed"
        /\ UNCHANGED <<up, down, dev, calls, timers>> /\ step' = "IDLE" /\ want' = None
    BY <1>4 DEF Reopen, Calm, Outstanding
  <2>2. \A r \in Slots : calls[r] = None
    BY <2>1, OneCall
  <2>3. MyTimers = {}
    BY <2>1 DEF DriverInv, Driven, Covered, Calm
  <2>4. \A r \in Slots : timers[r] = None
    BY <2>1, <2>3, OneCall
  <2>5. step = "IDLE"
    BY <2>1, <2>3 DEF DriverInv, Driven, Covered, Calm
  <2>6. dev = "IDLE"
    BY <2>1, <2>5 DEF LineInv, Truthful
  <2>7. Quiet'
    BY <2>1, <2>2, <2>4 DEF LineInv, Quiet, Waiting
  <2>8. Truthful'
    BY <2>1, <2>2, <2>6 DEF Truthful
  <2> QED
    BY <2>7, <2>8 DEF LineInv
<1>5. ASSUME NEW s \in Slots, TimerFires(s) PROVE LineInv'
  <2>1. /\ Calm /\ timers[s] # None /\ timers' = [timers EXCEPT ![s] = None]
        /\ UNCHANGED <<up, down, dev, step, want, opened>>
    BY <1>5 DEF TimerFires, Calm
  <2>2. timers[s] = opened
    BY <2>1 DEF LineInv, Quiet
  <2>3. PICK c \in Slots : Call(c, "QUERY", 0, opened)
    BY <1>5, <2>2 DEF TimerFires
  <2>4. /\ calls[c] = None /\ calls'[c].at = "sent" /\ calls'[c].for = opened
        /\ \A r \in Slots \ {c} : calls'[r] = calls[r]
    BY <2>3 DEF Call, Free, CommandTypeOK
  <2>5. Waiting' = Waiting
    BY <2>4 DEF Waiting
  <2>6. Quiet'
    BY <2>1, <2>4, <2>5 DEF LineInv, Quiet, CommandTypeOK
  <2>7. Truthful'
    BY <2>1, <2>4 DEF LineInv, Truthful
  <2> QED
    BY <2>6, <2>7 DEF LineInv
<1>6. ASSUME NEW s \in Slots, RunCRSFCommand(s) PROVE LineInv'
  <2> DEFINE f == [step |-> calls[s].kind, press |-> calls[s].press]
  <2>1. /\ Calm /\ calls[s] \in CallType /\ calls[s].at = "sent" /\ up' = Append(up, f)
        /\ calls' = [calls EXCEPT ![s].at = "server", ![s].requests = 1]
        /\ UNCHANGED <<down, dev, step, want, opened, timers>>
    BY <1>6 DEF RunCRSFCommand, Writes, Elsewhere, Calm, CommandTypeOK
  <2>2. Mine = {s}
    BY <2>1, OneCall
  <2>3. Waiting = {}
    BY <2>1, <2>2, OneCall DEF Waiting
  <2>4. up = << >> /\ down = << >>
    BY <2>1, <2>3 DEF LineInv, Quiet
  <2>5. Len(up') = 1 /\ Len(down') = 0
    BY <2>1, <2>4, OneMore
  <2>6. calls'[s] \in CallType /\ calls'[s].at = "server" /\ calls'[s].for = calls[s].for
    BY <2>1 DEF CallType, CommandTypeOK
  <2>7. \A r \in Slots \ {s} : calls'[r] = calls[r]
    BY <2>1 DEF CommandTypeOK
  <2>8. s \in Waiting'
    BY <2>6 DEF Waiting
  <2>9. Quiet'
    <3>1. \A r \in Slots : calls'[r] # None => calls'[r].for = opened'
      BY <2>1, <2>6, <2>7 DEF LineInv, Quiet
    <3>2. \A r \in Slots : timers'[r] # None => timers'[r] = opened'
      BY <2>1 DEF LineInv, Quiet
    <3> QED
      BY <2>5, <2>8, <3>1, <3>2 DEF Quiet
  <2>10. Truthful'
    BY <2>1, <2>4, <2>6, <2>7 DEF LineInv, Truthful
  <2> QED
    BY <2>9, <2>10 DEF LineInv
<1>7. ASSUME NEW s \in Slots, Request(s) PROVE LineInv'
  <2> DEFINE f == [step |-> "QUERY", press |-> 0]
  <2>1. /\ Calm /\ ~(Len(up) + Len(down) > 0) /\ s \in Waiting /\ up' = Append(up, f)
        /\ calls' = [calls EXCEPT ![s].requests = @ + 1]
        /\ UNCHANGED <<down, dev, step, want, opened, timers>>
    BY <1>7 DEF Request, Writes, Elsewhere, Calm
  <2>2. up = << >> /\ down = << >>
    BY <2>1, LineLength
  <2>3. Len(up') = 1 /\ Len(down') = 0
    BY <2>1, <2>2, OneMore
  <2>4. calls[s] \in CallType /\ calls[s].at = "server"
    BY <2>1 DEF Waiting, CommandTypeOK
  <2>5. calls'[s] \in CallType /\ calls'[s].at = "server" /\ calls'[s].for = calls[s].for
    BY <2>1, <2>4 DEF CallType, CommandTypeOK
  <2>6. \A r \in Slots \ {s} : calls'[r] = calls[r]
    BY <2>1 DEF CommandTypeOK
  <2>7. s \in Waiting'
    BY <2>1, <2>5 DEF Waiting
  <2>8. Quiet'
    BY <2>1, <2>3, <2>4, <2>5, <2>6, <2>7 DEF LineInv, Quiet
  <2>9. Truthful'
    BY <2>1, <2>2, <2>4, <2>5, <2>6 DEF LineInv, Truthful
  <2> QED
    BY <2>8, <2>9 DEF LineInv
<1>8. ASSUME NEW s \in Slots, GiveUp(s) PROVE LineInv'
  BY <1>8 DEF GiveUp, Calm
<1>9. ASSUME NEW s \in Slots, Returns(s) PROVE LineInv'
  <2>1. /\ Calm /\ calls[s] # None /\ calls[s].at \in Answers
        /\ calls' = [calls EXCEPT ![s] = None]
        /\ UNCHANGED <<up, down, dev, step, opened, timers>>
    BY <1>9 DEF Returns, Calm
  <2>2. Mine = {s} /\ step # "IDLE" /\ \A r \in Slots \ {s} : calls[r] = None
    BY <2>1, OneCall
  <2>3. want' = calls[s].at
    BY <1>9, <2>1 DEF Returns, LineInv, Quiet
  <2>4. \A r \in Slots : calls'[r] = None
    BY <2>1, <2>2 DEF CommandTypeOK
  <2>5. Waiting = {}
    BY <2>1, <2>2 DEF Waiting, Answers
  <2>6. Quiet'
    BY <2>1, <2>4, <2>5 DEF LineInv, Quiet
  <2>7. Truthful'
    BY <2>1, <2>2, <2>3, <2>4 DEF LineInv, Truthful
  <2> QED
    BY <2>6, <2>7 DEF LineInv
<1>10. CASE Delivered
  <2>1. /\ Calm /\ down # << >> /\ down' = Tail(down)
        /\ UNCHANGED <<up, dev, step, want, opened, timers>>
    BY <1>10 DEF Delivered, Calm
  <2>2. up = << >> /\ Len(down) <= 1
    BY <2>1, LineLength DEF LineInv, Quiet
  <2>3. down' = << >>
    BY <2>1, <2>2, LastGone DEF CommandTypeOK
  <2>4. Head(down) \in Answers /\ \A r \in Waiting : calls[r] \in CallType
    BY <2>1, HeadTailProperties DEF CommandTypeOK, Waiting
  <2>5. \A r \in Waiting : calls'[r] \in CallType /\ calls'[r].at = Head(down) /\ calls'[r].for = calls[r].for
    BY <1>10, <2>4 DEF Delivered, CallType, Waiting
  <2>6. \A r \in Slots \ Waiting : calls'[r] = calls[r]
    BY <1>10 DEF Delivered
  <2>7. Len(up') + Len(down') <= 1
    BY <2>1, <2>2, <2>3, EmptySeq, LineLength
  <2>8. Quiet'
    <3>1. \A r \in Slots : calls'[r] # None => calls'[r].for = opened
      BY <2>1, <2>5, <2>6 DEF LineInv, Quiet, Waiting
    <3> QED
      BY <2>1, <2>2, <2>3, <2>7, <3>1 DEF LineInv, Quiet
  <2>9. Truthful'
    BY <2>1, <2>3, <2>5, <2>6 DEF LineInv, Truthful
  <2> QED
    BY <2>8, <2>9 DEF LineInv
<1>11. CASE AnswerLost
  <2>1. /\ Calm /\ down # << >> /\ down' = Tail(down)
        /\ UNCHANGED <<calls, up, dev, step, want, opened, timers>>
    BY <1>11 DEF AnswerLost, Calm
  <2>2. up = << >> /\ Len(down) <= 1 /\ Waiting # {} /\ Waiting' = Waiting
    BY <2>1, LineLength DEF LineInv, Quiet, Waiting
  <2>3. down' = << >>
    BY <2>1, <2>2, LastGone DEF CommandTypeOK
  <2>4. Len(up') + Len(down') <= 1
    BY <2>1, <2>2, <2>3, EmptySeq, LineLength
  <2> QED
    BY <2>1, <2>2, <2>3, <2>4 DEF LineInv, Quiet, Truthful
<1>12. CASE DeviceTakes
  <2>1. /\ Calm /\ up # << >> /\ up' = Tail(up) /\ down' = Append(down, dev')
        /\ UNCHANGED <<calls, step, want, opened, timers>>
    BY <1>12 DEF DeviceTakes, Calm
  <2>2. down = << >> /\ Len(up) <= 1 /\ Waiting # {} /\ Waiting' = Waiting
    BY <2>1, LineLength DEF LineInv, Quiet, Waiting
  <2>3. up' = << >>
    BY <2>1, <2>2, LastGone DEF CommandTypeOK
  <2>4. dev' \in Answers
    BY DEF CommandTypeOK
  <2>5. Len(down') = 1 /\ Head(down') = dev'
    BY <2>1, <2>2, <2>4, OneMore
  <2>6. Len(up') = 0
    BY <2>3, EmptySeq
  <2>7. Quiet'
    BY <2>1, <2>2, <2>5, <2>6 DEF LineInv, Quiet
  <2>8. \A r \in Slots : calls[r] # None => calls[r].at = "server"
    BY <2>1, <2>2, OneCall DEF Waiting
  <2>9. want = None /\ step # "IDLE"
    BY <2>1, <2>2, OneCall
  <2>10. Truthful'
    BY <2>1, <2>5, <2>8, <2>9 DEF Truthful
  <2> QED
    BY <2>7, <2>10 DEF LineInv
<1>13. CASE DeviceIgnores
  <2>1. /\ Calm /\ up # << >> /\ up' = Tail(up)
        /\ UNCHANGED <<calls, down, dev, step, want, opened, timers>>
    BY <1>13 DEF DeviceIgnores, Calm
  <2>2. down = << >> /\ Len(up) <= 1 /\ Waiting # {} /\ Waiting' = Waiting
    BY <2>1, LineLength DEF LineInv, Quiet, Waiting
  <2>3. up' = << >>
    BY <2>1, <2>2, LastGone DEF CommandTypeOK
  <2>4. Len(up') + Len(down') <= 1
    BY <2>1, <2>2, <2>3, EmptySeq, LineLength
  <2> QED
    BY <2>1, <2>2, <2>3, <2>4 DEF LineInv, Quiet, Truthful
<1>14. CASE DeviceFinishes
  BY <1>14 DEF DeviceFinishes, LineInv, Quiet, Truthful, Waiting, Calm
<1>15. CASE UNCHANGED vars
  BY <1>15 DEF vars, LineInv, Quiet, Truthful, Waiting, Calm
<1> QED
  BY <1>1, <1>3, <1>4, <1>5, <1>6, <1>7, <1>8, <1>9, <1>10, <1>11, <1>12, <1>13, <1>14,
     <1>15 DEF Next

\* What the component shows as over is over: with no press overlapping an answer and no
\* answer late, an IDLE on the line, in a call or about to be rendered is the device's.
THEOREM IdleIsTrue == CommandSpec => []IdleShown
<1>1. Init => LineInv
  <2> SUFFICES ASSUME Init PROVE LineInv
    OBVIOUS
  <2>1. up = << >> /\ down = << >> /\ Len(up) = 0 /\ Len(down) = 0
    BY EmptySeq DEF Init
  <2> QED
    BY <2>1, NoneApart DEF Init, LineInv, Quiet, Truthful
<1>2. LineInv => IdleShown
  BY DEF LineInv, Truthful, Calm, IdleShown
<1> QED
  BY <1>1, <1>2, LineStep, DriverInvariant, CommandTypeCorrect, PTL DEF CommandSpec
=============================================================================
