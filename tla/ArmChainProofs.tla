--------------------------- MODULE ArmChainProofs ---------------------------
(***************************************************************************)
(* Proofs about ArmChain, for any number of viewers and presses and any    *)
(* window of activation: types, and that a press held through a loss of    *)
(* the gamepad does not arm.                                               *)
(***************************************************************************)
EXTENDS ArmChain, TLAPS

\* An edge, while it is shared and while it is judged, is of a press of the past.
EdgePast ==
  /\ highEdge # None => highEdge.press \in 0 .. press
  /\ \A e \in Evaluators :
       pc[e] \in {"clear", "next"} => edge[e] \in Edges /\ edge[e].press \in 0 .. press

ArmInv == ArmTypeOK /\ EdgePast

LEMMA EvaluateType ==
  ASSUME ArmInv, NEW e \in Evaluators, Evaluate(e) PROVE ArmInv'
<1> USE ArmAssumption DEF ArmInv, ArmTypeOK, EdgePast, pad, seq, Goto
<1>1. CASE Start(e)
  BY <1>1 DEF Start
<1>2. CASE Read(e)
  BY <1>2 DEF Read
<1>3. CASE Reset(e) \/ Released(e)
  <2>1. needsFreshPress' \in BOOLEAN
    BY <1>3 DEF Reset, Released
  <2> QED
    BY <1>3, <2>1 DEF Reset, Released
<1>10. CASE ClearEdge(e)
  BY <1>10 DEF ClearEdge
<1>11. CASE CheckFresh(e)
  BY <1>11 DEF CheckFresh
<1>4. CASE Mark(e)
  <2>1. seen[e] \in 0 .. press /\ [age |-> 0, press |-> seen[e]] \in Edges
    BY DEF Edges
  <2> QED
    BY <1>4, <2>1 DEF Mark
<1>5. CASE TakeEdge(e)
  BY <1>5 DEF TakeEdge
<1>6. CASE Judge(e)
  BY <1>6 DEF Judge
<1>7. CASE NextValue(e) \/ ReadValue(e)
  BY <1>7 DEF NextValue, ReadValue, OutputValue
<1>8. CASE Gate(e)
  BY <1>8 DEF Gate, GateResult, Done
<1>9. CASE Write(e)
  BY <1>9 DEF Write, Done
<1> QED
  BY <1>1, <1>2, <1>3, <1>4, <1>5, <1>6, <1>7, <1>8, <1>9, <1>10, <1>11
  DEF Evaluate

LEMMA ArmTypeStep == ArmInv /\ [Next]_vars => ArmInv'
<1> SUFFICES ASSUME ArmInv, [Next]_vars PROVE ArmInv'
  OBVIOUS
<1> USE ArmAssumption DEF ArmInv, ArmTypeOK, EdgePast, pad, seq, local
<1>1. CASE Press
  <2>1. press' = press + 1 /\ press' \in 0 .. MaxPresses /\ 0 .. press \subseteq 0 .. press'
    BY <1>1 DEF Press
  <2> QED
    BY <1>1, <2>1 DEF Press
<1>2. CASE Release
  BY <1>2 DEF Release
<1>3. CASE Detach
  <2>1. attached' \in BOOLEAN
    BY <1>3 DEF Detach
  <2> QED
    BY <1>3, <2>1 DEF Detach, Outage
<1>6. CASE Attach
  BY <1>6 DEF Attach
<1>4. CASE Tick
  <2>1. highEdge' \in Edges \cup {None}
        /\ (highEdge' # None => highEdge # None /\ highEdge'.press = highEdge.press)
    BY <1>4 DEF Tick, Edges
  <2>2. outage' \in 0 .. Outage
    BY <1>4 DEF Tick, Outage
  <2> QED
    BY <1>4, <2>1, <2>2 DEF Tick
<1>5. CASE UNCHANGED vars
  BY <1>5 DEF vars
<1> QED
  BY <1>1, <1>2, <1>3, <1>4, <1>5, <1>6, EvaluateType DEF Next

\* The inductive invariant.
LEMMA ArmInvariant == ArmSpec => []ArmInv
<1>1. Init => ArmInv
  <2> SUFFICES ASSUME Init PROVE ArmInv
    OBVIOUS
  <2>1. 0 \in 0 .. press /\ press \in 0 .. MaxPresses /\ 0 \in 0 .. Outage
    BY ArmAssumption DEF Init, Outage
  <2> QED
    <3>1. ArmTypeOK
      <4>1. /\ attached \in BOOLEAN /\ down \in BOOLEAN /\ moved \in BOOLEAN
            /\ needsFreshPress \in BOOLEAN /\ beaten \in BOOLEAN
        BY DEF Init
      <4> QED
        BY <2>1, <4>1 DEF Init, ArmTypeOK
    <3>2. EdgePast
      BY DEF Init, EdgePast
    <3> QED
      BY <3>1, <3>2 DEF ArmInv
<1> QED
  BY <1>1, ArmTypeStep, PTL DEF ArmSpec
-----------------------------------------------------------------------------
(* A fresh press.  The loop evaluates in every tick, and a loss lasts two:   *)
(* from the second on the chain is disarmed and waits for a fresh press.     *)
(* Until the button goes down again, the only edge that can still be marked  *)
(* is one of a button seen down and released within the same tick.  It is    *)
(* judged in the next tick, at an age of 1.                                *)

Places ==
  \A e \in Evaluators : /\ pc[e] = "write" => e = Loop
                        /\ pc[e] = "idle" => value[e] = "off"

\* Evaluations that found the button, rather than nan.
Found == {"true", "mark", "false", "take", "clear", "next", "return"}

Disarmed == toggle = 0 /\ needsFreshPress = TRUE /\ highEdge = None

LossSeen ==
  ~attached /\ outage >= 1 =>
    /\ \A e \in Evaluators : pc[e] \notin Found /\ value[e] # "on"
    /\ pc[Loop] = "clearEdge" => toggle = 0 /\ needsFreshPress = TRUE
    /\ beaten \/ outage = Outage \/ pc[Loop] \in {"gate", "write"} => Disarmed

\* The edge of a button released in this tick, or in the one before and not yet
\* taken by the loop.
LastTickEdge ==
  \/ highEdge.age = 0 /\ moved
  \/ /\ highEdge.age = 1 /\ ~moved /\ ~beaten
     /\ pc[Loop] \in {"idle", "read", "nan", "clearEdge", "false", "take", "clear"}

HeldThrough ==
  press = barrier =>
    /\ toggle = 0 /\ (needsFreshPress = TRUE \/ ~down)
    /\ highEdge # None => ~down /\ LastTickEdge
    /\ \A e \in Evaluators :
         /\ value[e] # "on" /\ pc[e] # "next"
         /\ pc[e] = "true" => down \/ moved
         /\ pc[e] = "mark" => ~down /\ moved
         /\ pc[e] = "false" => ~down
         /\ pc[e] = "clear" => edge[e].age <= 1

FreshInv == Places /\ LossSeen /\ HeldThrough

LEMMA LoopEvaluates == Loop \in Evaluators
BY DEF Evaluators

LEMMA EvaluateFresh ==
  ASSUME ArmInv, FreshInv, MinHold >= 2, NEW e \in Evaluators, Evaluate(e) PROVE FreshInv'
<1> USE ArmAssumption, LoopEvaluates
    DEF ArmInv, ArmTypeOK, EdgePast, pad, seq, Goto, FreshInv, Places, LossSeen,
        HeldThrough, Found, Disarmed, LastTickEdge, Outage
<1>1. CASE Start(e)
  BY <1>1 DEF Start
<1>2. CASE Read(e)
  BY <1>2 DEF Read
<1>3. CASE Reset(e)
  BY <1>3 DEF Reset
<1>4. CASE ClearEdge(e)
  BY <1>4 DEF ClearEdge
<1>5. CASE CheckFresh(e)
  BY <1>5 DEF CheckFresh
<1>6. CASE Mark(e)
  BY <1>6 DEF Mark, Edges
<1>7. CASE Released(e)
  BY <1>7 DEF Released
<1>8. CASE TakeEdge(e)
  BY <1>8 DEF TakeEdge
<1>9. CASE Judge(e)
  BY <1>9 DEF Judge
<1>10. CASE NextValue(e)
  BY <1>10 DEF NextValue
<1>11. CASE ReadValue(e)
  BY <1>11 DEF ReadValue, OutputValue
<1>12. CASE Gate(e)
  <2>1. UNCHANGED <<attached, down, moved, press, outage, barrier, toggle, needsFreshPress,
                    highEdge, beaten>>
    BY <1>12 DEF Gate
  <2>2. value' \in [Evaluators -> {"off", "on", "nan"}] /\ value'[e] \in {"off", value[e], "nan"}
        /\ \A d \in Evaluators \ {e} : value'[d] = value[d] /\ pc'[d] = pc[d] /\ edge'[d] = edge[d]
    BY <1>12 DEF Gate, GateResult, Done
  <2>3. \/ e = Loop /\ pc'[e] = "write"
        \/ e # Loop /\ pc'[e] = "idle" /\ value'[e] = "off"
    BY <1>12 DEF Gate, Done
  <2>4. pc[e] = "gate"
    BY <1>12 DEF Gate
  <2>5. Places'
    BY <2>2, <2>3
  <2>6. LossSeen'
    <3>1. Disarmed' = Disarmed
      BY <2>1
    <3>2. ~attached /\ outage >= 1 => \A d \in Evaluators : pc'[d] \notin Found /\ value'[d] # "on"
      BY <2>2, <2>3
    <3> QED
      BY <2>1, <2>2, <2>3, <2>4, <3>1, <3>2
  <2>7. HeldThrough'
    <3>1. highEdge # None /\ LastTickEdge => LastTickEdge'
      BY <2>1, <2>2, <2>3, <2>4
    <3>2. press = barrier => \A d \in Evaluators : value'[d] # "on"
      BY <2>2
    <3> QED
      BY <2>1, <2>2, <2>3, <2>4, <3>1, <3>2
  <2> QED
    BY <2>5, <2>6, <2>7
<1>13. CASE Write(e)
  BY <1>13 DEF Write, Done
<1> QED
  BY <1>1, <1>2, <1>3, <1>4, <1>5, <1>6, <1>7, <1>8, <1>9, <1>10, <1>11, <1>12, <1>13
  DEF Evaluate

LEMMA FreshStep ==
  ASSUME ArmInv, FreshInv, MinHold >= 2, [Next]_vars PROVE FreshInv'
<1> USE ArmAssumption, LoopEvaluates
    DEF ArmInv, ArmTypeOK, EdgePast, pad, seq, local, FreshInv, Places, LossSeen,
        HeldThrough, Found, Disarmed, LastTickEdge, Outage
<1>1. CASE Press
  BY <1>1 DEF Press
<1>2. CASE Release
  BY <1>2 DEF Release
<1>3. CASE Detach
  BY <1>3 DEF Detach
<1>4. CASE Attach
  BY <1>4 DEF Attach
<1>5. CASE Tick
  <2>1. /\ beaten /\ ~beaten' /\ ~moved'
        /\ \A e \in Evaluators : pc[e] = "idle" /\ value[e] = "off"
        /\ UNCHANGED <<attached, down, press, barrier, toggle, needsFreshPress, pc, value, edge>>
    BY <1>5 DEF Tick
  <2>2. Places'
    BY <2>1
  <2>3. highEdge = None => highEdge' = None
    BY <1>5 DEF Tick
  <2>4. LossSeen'
    <3>1. outage' = Outage /\ ~attached => outage \in {1, Outage}
      BY <1>5 DEF Tick
    <3>2. outage' = Outage /\ ~attached => Disarmed'
      BY <2>1, <2>3, <3>1
    <3> QED
      BY <2>1, <3>2
  <2>5. CASE press = barrier /\ highEdge # None
    <3>1. highEdge.age = 0 /\ ~down
      BY <2>1, <2>5
    <3>2. highEdge'.age = 1
      BY <1>5, <2>5, <3>1 DEF Tick, Edges
    <3>3. LastTickEdge'
      BY <2>1, <3>2
    <3>4. HeldThrough'
      BY <2>1, <2>5, <3>1, <3>3
    <3> QED
      BY <2>2, <2>4, <3>4
  <2> QED
    BY <2>1, <2>2, <2>3, <2>4, <2>5
<1>6. CASE UNCHANGED vars
  BY <1>6 DEF vars
<1> QED
  BY <1>1, <1>2, <1>3, <1>4, <1>5, <1>6, EvaluateFresh DEF Next

\* The toggle's index, edge and marks, and the slot it drives, stay within their types,
\* whichever of the evaluators move them.
THEOREM ArmTypeCorrect == ArmSpec => []ArmTypeOK
<1>1. ArmInv => ArmTypeOK
  BY DEF ArmInv
<1> QED
  BY <1>1, ArmInvariant, PTL

\* After a loss the car is armed only by a press that began after it, provided
\* the shortest press that counts is of two ticks: with one, a press held through
\* the loss, released within a tick and marked late, does arm.
THEOREM ArmedAfresh == ASSUME MinHold >= 2 PROVE ArmSpec => FreshArm
<1>1. Init => FreshInv
  BY ArmAssumption DEF Init, FreshInv, Places, LossSeen, HeldThrough, Outage, Found
<1>2. ASSUME ArmInv, FreshInv, [Next]_vars
      PROVE  [slot = "off" /\ slot' = "on" => press > barrier]_vars
  <2> SUFFICES ASSUME slot # slot' PROVE slot' = "on" => press > barrier
    OBVIOUS
  <2>1. PICK e \in Evaluators : Write(e)
    BY <1>2 DEF Next, Press, Release, Detach, Attach, Tick, Evaluate, Start, Read, Reset, ClearEdge,
       CheckFresh, Mark, Released, TakeEdge, Judge, NextValue, ReadValue, Gate, Done, vars
  <2>2. slot' = "on" => value[e] = "on"
    BY <2>1 DEF Write
  <2>3. press # barrier => press > barrier
    BY <1>2, ArmAssumption DEF ArmInv, ArmTypeOK
  <2> QED
    BY <1>2, <2>2, <2>3 DEF FreshInv, HeldThrough
<1> QED
  BY <1>1, <1>2, FreshStep, ArmInvariant, PTL DEF ArmSpec, FreshArm
=============================================================================
