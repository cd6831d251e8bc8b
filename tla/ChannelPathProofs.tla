-------------------------- MODULE ChannelPathProofs --------------------------
(***************************************************************************)
(* Proofs about ChannelPath, for any set of calls, any window and any      *)
(* bound of the clock: types, the refinement of ChannelWire, and what the  *)
(* frames may carry.                                                       *)
(***************************************************************************)
EXTENDS ChannelPath, ConfigAdoptionProofs

\* Every step of the path is a step of the config layer, or leaves it alone.
LEMMA PathAdoptionStep == [PathNext]_pathVars => [AdoptionNext]_adoptionVars
BY DEF PathNext, pathVars, ConfigStep, SendNext, SendBody, SendTick, SendObserve,
   SendSuppressed, SendAllowed, SendWrite, SendExit, SendRestart, Elapse

LEMMA EvalPortContents ==
  ASSUME NEW c \in Calls, kind[c] \in AllKinds
  PROVE  EvalPort(c) \in Contents \ {"centered"}
<1>1. kind[c] = "absent" => EvalPort(c) = "none"
  BY DEF EvalPort
<1>2. kind[c] = "truncated" => EvalPort(c) = "partial"
  BY DEF EvalPort
<1>3. kind[c] = "sound" => EvalPort(c) \in {"driven", "failsafe"}
  BY DEF EvalPort
<1> QED
  BY <1>1, <1>2, <1>3 DEF AllKinds, Contents

\* A write only ever follows a decision not to suppress, so there is a map.
WriteHasMap == sendPc = "write" => gateCurrent # None

\* The type invariant of the composition.
THEOREM PathTypeCorrect == PathSpec => [](PathTypeOK /\ WriteHasMap)
<1>1. PathInit => PathTypeOK /\ WriteHasMap
  <2> SUFFICES ASSUME PathInit PROVE PathTypeOK /\ WriteHasMap
    OBVIOUS
  <2>1. AdoptionTypeOK
    BY AdoptionAssumption DEF PathInit, AdoptionInit, AdoptionTypeOK, NoneOrCall, CallSteps,
       Outcomes, LoopSteps, Adopting, Contents, AllKinds
  <2> QED
    BY <2>1, PathAssumption DEF PathInit, PathTypeOK, WriteHasMap, SendSteps, NoneOrCall, Contents
<1>2. PathTypeOK /\ WriteHasMap /\ [PathNext]_pathVars => (PathTypeOK /\ WriteHasMap)'
  <2> SUFFICES ASSUME PathTypeOK, WriteHasMap, [PathNext]_pathVars
               PROVE  PathTypeOK' /\ WriteHasMap'
    OBVIOUS
  <2>1. AdoptionTypeOK'
    BY PathAdoptionStep, AdoptionTypeStep DEF PathTypeOK
  <2> USE PathAssumption DEF PathTypeOK, WriteHasMap, SendSteps, NoneOrCall
  <2>2. CASE ConfigStep
    BY <2>1, <2>2 DEF ConfigStep, sendVars
  <2>3. CASE SendTick
    BY <2>1, <2>3 DEF SendTick, SendStep, frameVars
  <2>4. CASE SendObserve
    BY <2>1, <2>4 DEF SendObserve, SendStep, frameVars, AdoptionTypeOK
  <2>5. CASE SendSuppressed \/ SendAllowed
    BY <2>1, <2>5 DEF SendSuppressed, SendAllowed, Suppressed, Resolves, SendStep, frameVars
  <2>6. CASE SendWrite
    <3>1. gateCurrent \in Calls
      BY <2>6 DEF SendWrite, SendStep
    <3>2. array[gateCurrent] \in Contents
      BY <3>1 DEF AdoptionTypeOK
    <3> QED
      BY <2>1, <2>6, <3>1, <3>2 DEF SendWrite, SendStep
  <2>7. CASE SendExit \/ SendRestart
    BY <2>1, <2>7 DEF SendExit, SendRestart, SendStep, frameVars
  <2>8. CASE Elapse
    BY <2>1, <2>8 DEF Elapse, sendVars, frameVars
  <2>9. CASE UNCHANGED pathVars
    BY <2>1, <2>9 DEF pathVars, sendVars, frameVars
  <2> QED
    BY <2>2, <2>3, <2>4, <2>5, <2>6, <2>7, <2>8, <2>9 DEF PathNext, SendNext, SendBody
<1> QED
  BY <1>1, <1>2, PTL DEF PathSpec
-----------------------------------------------------------------------------
(* The window.  A tick reads the clock after the last frame was written,   *)
(* so the window a new map opens is counted from then or later; and until  *)
(* the gate's own config is on the wire the window covers the last frame.  *)

ClockOrder ==
  /\ sentAt <= clock
  /\ tickNow <= clock
  /\ sendPc \in {"observe", "decide", "write"} => sentAt <= tickNow

WindowCovers ==
  /\ gateCurrent # None =>
       source \in {None, gateCurrent} \/ sentAt + Window <= gateUntil
  /\ sendPc = "write" => gateUntil <= tickNow

LEMMA WindowStep ==
  ASSUME PathTypeOK, PathTypeOK', WriteHasMap, ClockOrder, WindowCovers,
         [PathNext]_pathVars
  PROVE  (ClockOrder /\ WindowCovers)'
<1> USE PathAssumption DEF ClockOrder, WindowCovers, PathTypeOK
<1>1. CASE ConfigStep
  BY <1>1 DEF ConfigStep, sendVars
<1>2. CASE SendTick
  BY <1>2 DEF SendTick, SendStep, frameVars
<1>3. CASE SendObserve
  BY <1>3 DEF SendObserve, SendStep, frameVars
<1>4. CASE SendSuppressed
  BY <1>4 DEF SendSuppressed, SendStep, frameVars
<1>5. CASE SendAllowed
  <2>1. gateUntil <= tickNow
    BY <1>5 DEF SendAllowed, Suppressed, Resolves, HoldOff
  <2> QED
    BY <1>5, <2>1 DEF SendAllowed, SendStep, frameVars
<1>6. CASE SendWrite
  BY <1>6 DEF SendWrite, SendStep
<1>7. CASE SendExit \/ SendRestart
  BY <1>7 DEF SendExit, SendRestart, SendStep, frameVars
<1>8. CASE Elapse
  BY <1>8 DEF Elapse, sendVars, frameVars
<1>9. CASE UNCHANGED pathVars
  BY <1>9 DEF pathVars, sendVars, frameVars
<1> QED
  BY <1>1, <1>2, <1>3, <1>4, <1>5, <1>6, <1>7, <1>8, <1>9
  DEF PathNext, SendNext, SendBody

LEMMA WindowInvariant ==
  PathSpec => [](PathTypeOK /\ WriteHasMap /\ ClockOrder /\ WindowCovers)
<1>1. PathInit => ClockOrder /\ WindowCovers
  BY PathAssumption DEF PathInit, ClockOrder, WindowCovers
<1> QED
  BY <1>1, WindowStep, PathTypeCorrect, PTL DEF PathSpec

\* The path implements ChannelWire: a write is a Frame of the gate's config,
\* and everything else is Silence or invisible on the wire.
THEOREM PathKeepsQuiet == PathSpec => QuietSwap
<1>1. PathInit => Wire!Init
  BY DEF PathInit, Wire!Init
<1>2. ASSUME PathTypeOK, WriteHasMap, ClockOrder, WindowCovers, [PathNext]_pathVars
      PROVE  [Wire!Next]_(Wire!wireVars)
  <2>1. CASE SendWrite
    <3>1. gateCurrent \in Calls
      BY <1>2, <2>1 DEF SendWrite, SendStep, WriteHasMap, PathTypeOK, NoneOrCall
    <3>2. source \in {None, gateCurrent} \/ clock - sentAt >= Window
      BY <1>2, <2>1, PathAssumption
      DEF SendWrite, SendStep, WriteHasMap, PathTypeOK, ClockOrder, WindowCovers
    <3>3. Wire!Frame(gateCurrent)
      BY <2>1, <3>2 DEF SendWrite, Wire!Frame
    <3> QED
      BY <3>1, <3>3 DEF Wire!Next
  <2>2. CASE Elapse
    BY <2>2 DEF Elapse, frameVars, Wire!Silence, Wire!Next
  <2>3. CASE ConfigStep
    BY <2>3 DEF ConfigStep, Wire!wireVars
  <2>4. CASE SendTick \/ SendObserve \/ SendSuppressed \/ SendAllowed \/ SendExit
             \/ SendRestart \/ UNCHANGED pathVars
    BY <2>4 DEF SendTick, SendObserve, SendSuppressed, SendAllowed, SendExit,
       SendRestart, frameVars, pathVars, Wire!wireVars
  <2> QED
    BY <1>2, <2>1, <2>2, <2>3, <2>4 DEF PathNext, SendNext, SendBody
<1> QED
  BY <1>1, <1>2, WindowInvariant, PTL DEF PathSpec, QuietSwap, Wire!Spec
-----------------------------------------------------------------------------
(* The one stale frame: after it, the next tick observes the new map.      *)

GateFollows == gateCurrent # None => evalDataMap # None

StaleOnce ==
  \/ stale = 0
  \/ /\ stale = 1
     /\ evalDataMap # None
     /\ gateCurrent = evalDataMap \/ sendPc \in {"select", "observe", "gone"}

\* A published map is never withdrawn.
LEMMA MapStaysPublished ==
  ASSUME AdoptionTypeOK, [AdoptionNext]_adoptionVars, evalDataMap # None
  PROVE  evalDataMap' # None
<1> USE AdoptionAssumption DEF AdoptionTypeOK, Adopting
<1>1. CASE SwapData
  BY <1>1 DEF SwapData, LoopStep
<1>2. CASE ~SwapData
  BY <1>2 DEF AdoptionNext, SetConfigPublish, CallStep, SetConfigCheck, Deliver,
     DeliverTimeout, AwaitTimeout, AwaitDone, WaitDying, TakeConfig, LoopBody,
     ApplyConfig, SwapUnresolved, Adopted, DeviceEvent, Heartbeat, EvalTransmitters,
     EvalLoopExit, InputChange, Quit, loopVars, adoptionVars
<1> QED
  BY <1>1, <1>2

LEMMA StaleStep ==
  ASSUME PathTypeOK, WriteHasMap, GateFollows, StaleOnce, [PathNext]_pathVars
  PROVE  (GateFollows /\ StaleOnce)'
<1> USE DEF GateFollows, StaleOnce
<1>1. CASE ConfigStep
  <2>1. evalDataMap # None => evalDataMap' # None
    BY PathAdoptionStep, MapStaysPublished DEF PathTypeOK
  <2> QED
    BY <1>1, <2>1 DEF ConfigStep, sendVars
<1>2. CASE ~ConfigStep
  <2>1. UNCHANGED evalDataMap
    BY <1>2 DEF PathNext, SendNext, SendBody, SendTick, SendObserve, SendSuppressed,
       SendAllowed, SendWrite, SendExit, SendRestart, Elapse, pathVars, adoptionVars, loopVars
  <2>2. CASE SendWrite
    BY <2>1, <2>2 DEF SendWrite, SendStep, WriteHasMap
  <2>3. CASE SendObserve
    BY <2>1, <2>3 DEF SendObserve, SendStep, frameVars
  <2>4. CASE SendTick \/ SendSuppressed \/ SendAllowed \/ SendExit \/ SendRestart
    BY <2>1, <2>4 DEF SendTick, SendSuppressed, SendAllowed, SendExit, SendRestart,
       SendStep, frameVars
  <2>5. CASE Elapse \/ UNCHANGED pathVars
    BY <2>1, <2>5 DEF Elapse, pathVars, sendVars, frameVars
  <2> QED
    BY <1>2, <2>2, <2>3, <2>4, <2>5 DEF PathNext, SendNext, SendBody
<1> QED
  BY <1>1, <1>2

\* A config that has been replaced gets at most one more frame.
THEOREM StaleFrameBound == PathSpec => []AtMostOneStaleFrame
<1>1. PathInit => GateFollows /\ StaleOnce
  BY DEF PathInit, GateFollows, StaleOnce
<1>2. StaleOnce => AtMostOneStaleFrame
  BY DEF StaleOnce, AtMostOneStaleFrame
<1> QED
  BY <1>1, <1>2, StaleStep, PathTypeCorrect, PTL DEF PathSpec
-----------------------------------------------------------------------------
(* Every array the send loop can reach has been evaluated.                 *)

Evaluated ==
  /\ evalPc \in {"swapData", "swapUnresolved", "adopt"} => array[config] # "centered"
  /\ evalDataMap # None => array[evalDataMap] # "centered"
  /\ gateCurrent # None => array[gateCurrent] # "centered"
  /\ content # "centered"

LEMMA EvaluatedStep ==
  ASSUME PathTypeOK, PathTypeOK', WriteHasMap, Evaluated, [PathNext]_pathVars
  PROVE  Evaluated'
<1> USE AdoptionAssumption DEF Evaluated, PathTypeOK, NoneOrCall
<1>0. /\ AdoptionTypeOK /\ AdoptionTypeOK'
      /\ [AdoptionNext]_adoptionVars
  BY PathAdoptionStep
<1>1. \A d \in Calls : array[d] # "centered" => array'[d] # "centered"
  <2>1. \A d \in Calls : EvalPort(d) # "centered"
    BY <1>0, EvalPortContents DEF AdoptionTypeOK
  <2>2. CASE ApplyConfig \/ Heartbeat \/ DeviceEvent
    BY <1>0, <2>1, <2>2 DEF ApplyConfig, Heartbeat, DeviceEvent, EvalTransmitters, AdoptionTypeOK
  <2>3. CASE ~(ApplyConfig \/ Heartbeat \/ DeviceEvent)
    <3>1. UNCHANGED array
      BY <1>0, <2>3 DEF AdoptionNext, SetConfigPublish, CallStep, SetConfigCheck, Deliver,
         DeliverTimeout, AwaitTimeout, AwaitDone, WaitDying, TakeConfig, LoopBody,
         SwapData, SwapUnresolved, Adopted, EvalLoopExit, InputChange, Quit, loopVars,
         adoptionVars
    <3> QED
      BY <3>1
  <2> QED
    BY <2>2, <2>3
<1>2. CASE ConfigStep
  <2>1. UNCHANGED <<gateCurrent, content>>
    BY <1>2 DEF ConfigStep, sendVars
  <2>2. (gateCurrent # None => array[gateCurrent] # "centered")'
    BY <1>1, <2>1
  <2>3. (evalPc \in {"swapData", "swapUnresolved", "adopt"} => array[config] # "centered")'
    <3>1. CASE ApplyConfig
      <4>1. config \in Calls /\ EvalPort(config) # "centered"
        BY <1>0, <3>1, EvalPortContents DEF ApplyConfig, LoopStep, AdoptionTypeOK, Adopting
      <4> QED
        BY <1>0, <3>1, <4>1 DEF ApplyConfig, AdoptionTypeOK
    <3>2. CASE ~ApplyConfig
      <4>1. \/ evalPc' \notin {"swapData", "swapUnresolved", "adopt"}
            \/ /\ evalPc \in {"swapData", "swapUnresolved", "adopt"}
               /\ config' = config
        BY <1>0, <3>2 DEF AdoptionNext, SetConfigPublish, CallStep, SetConfigCheck, Deliver,
           DeliverTimeout, AwaitTimeout, AwaitDone, WaitDying, TakeConfig, LoopBody,
           SwapData, SwapUnresolved, Adopted, DeviceEvent, Heartbeat, EvalTransmitters,
           EvalLoopExit, InputChange, Quit, LoopStep, loopVars, adoptionVars
      <4>2. evalPc \in {"swapData", "swapUnresolved", "adopt"} => config \in Calls
        BY <1>0 DEF AdoptionTypeOK, Adopting
      <4> QED
        BY <1>1, <4>1, <4>2
    <3> QED
      BY <3>1, <3>2
  <2>4. (evalDataMap # None => array[evalDataMap] # "centered")'
    <3>1. CASE SwapData
      <4>1. config \in Calls /\ evalPc = "swapData" /\ evalDataMap' = config
        BY <1>0, <3>1 DEF SwapData, LoopStep, AdoptionTypeOK, Adopting
      <4> QED
        BY <1>1, <4>1
    <3>2. CASE ~SwapData
      <4>1. UNCHANGED evalDataMap
        BY <1>0, <3>2 DEF AdoptionNext, SetConfigPublish, CallStep, SetConfigCheck, Deliver,
           DeliverTimeout, AwaitTimeout, AwaitDone, WaitDying, TakeConfig, LoopBody,
           ApplyConfig, SwapUnresolved, Adopted, DeviceEvent, Heartbeat, EvalTransmitters,
           EvalLoopExit, InputChange, Quit, loopVars, adoptionVars
      <4>2. evalDataMap \in Calls \cup {None}
        BY <1>0 DEF AdoptionTypeOK
      <4> QED
        BY <1>1, <4>1, <4>2
    <3> QED
      BY <3>1, <3>2
  <2> QED
    BY <2>1, <2>2, <2>3, <2>4
<1>3. CASE ~ConfigStep
  <2>1. UNCHANGED <<evalPc, config, array, evalDataMap>>
    BY <1>3 DEF PathNext, SendNext, SendBody, SendTick, SendObserve, SendSuppressed,
       SendAllowed, SendWrite, SendExit, SendRestart, Elapse, pathVars, adoptionVars, loopVars
  <2>2. CASE SendWrite
    BY <2>1, <2>2 DEF SendWrite, SendStep, WriteHasMap
  <2>3. CASE SendObserve
    BY <2>1, <2>3 DEF SendObserve, frameVars
  <2>4. CASE SendTick \/ SendSuppressed \/ SendAllowed \/ SendExit \/ SendRestart
             \/ Elapse \/ UNCHANGED pathVars
    BY <2>1, <2>4 DEF SendTick, SendSuppressed, SendAllowed, SendExit, SendRestart,
       Elapse, pathVars, sendVars, frameVars
  <2> QED
    BY <1>3, <2>2, <2>3, <2>4 DEF PathNext, SendNext, SendBody
<1> QED
  BY <1>2, <1>3

\* No frame carries a freshly seeded array.
THEOREM FramesAreEvaluated == PathSpec => []NeverFreshlySeeded
<1>1. PathInit => Evaluated
  BY DEF PathInit, AdoptionInit, Evaluated
<1>2. Evaluated => NeverFreshlySeeded
  BY DEF Evaluated, NeverFreshlySeeded
<1> QED
  BY <1>1, <1>2, EvaluatedStep, PathTypeCorrect, PTL DEF PathSpec
=============================================================================
