------------------------ MODULE ConfigAdoptionProofs ------------------------
(***************************************************************************)
(* Proofs about ConfigAdoption, for any set of calls and any channel       *)
(* capacity: types, the truth of what SetConfig reports, and the real-time *)
(* order of applies.                                                       *)
(***************************************************************************)
EXTENDS ConfigAdoption, SequenceTheorems, TLAPS

LEMMA AdoptionTypeStep ==
  ASSUME AdoptionTypeOK, [AdoptionNext]_adoptionVars
  PROVE  AdoptionTypeOK'
<1> USE AdoptionAssumption DEF AdoptionTypeOK, NoneOrCall, CallSteps, Outcomes,
        LoopSteps, Adopting, Contents, AllKinds
<1>1. CASE \E c \in Calls, k \in Kinds : SetConfigPublish(c, k)
  BY <1>1 DEF SetConfigPublish, loopVars
<1>2. CASE \E c \in Calls : SetConfigCheck(c)
  BY <1>2 DEF SetConfigCheck, Return, loopVars
<1>3. CASE \E c \in Calls : Deliver(c)
  <2> PICK c \in Calls : Deliver(c)
    BY <1>3
  <2>1. Append(configEventChan, c) \in Seq(Calls)
        /\ Len(Append(configEventChan, c)) <= ChanCap
    BY DEF Deliver
  <2> QED
    BY <2>1 DEF Deliver, loopVars
<1>4. CASE \E c \in Calls : DeliverTimeout(c) \/ AwaitTimeout(c)
  BY <1>4 DEF DeliverTimeout, AwaitTimeout, Return, loopVars
<1>5. CASE \E c \in Calls : AwaitDone(c) \/ WaitDying(c)
  BY <1>5 DEF AwaitDone, WaitDying, Return, loopVars
<1>6. CASE TakeConfig
  <2>1. Head(configEventChan) \in Calls /\ Tail(configEventChan) \in Seq(Calls)
        /\ Len(Tail(configEventChan)) = Len(configEventChan) - 1
    BY <1>6, HeadTailProperties DEF TakeConfig
  <2> QED
    BY <1>6, <2>1 DEF TakeConfig, LoopStep, callVars
<1>7. CASE ApplyConfig \/ Heartbeat \/ DeviceEvent
  <2>1. \A d \in Calls : EvalPort(d) \in Contents
    BY DEF EvalPort
  <2> QED
    BY <1>7, <2>1 DEF ApplyConfig, Heartbeat, DeviceEvent, EvalTransmitters,
       LoopStep, callVars
<1>8. CASE SwapData \/ SwapUnresolved \/ Adopted
  BY <1>8 DEF SwapData, SwapUnresolved, Adopted, LoopStep, callVars
<1>9. CASE EvalLoopExit \/ InputChange \/ Quit
  BY <1>9 DEF EvalLoopExit, InputChange, Quit, LoopStep, callVars, loopVars
<1>10. CASE UNCHANGED adoptionVars
  BY <1>10 DEF adoptionVars, callVars, loopVars
<1> QED
  BY <1>1, <1>2, <1>3, <1>4, <1>5, <1>6, <1>7, <1>8, <1>9, <1>10
  DEF AdoptionNext, CallStep, LoopBody

\* The type invariant: every variable keeps its type, and the event channel
\* never holds more than its capacity.
THEOREM AdoptionTypeCorrect == AdoptionSpec => []AdoptionTypeOK
<1>1. AdoptionInit => AdoptionTypeOK
  BY AdoptionAssumption DEF AdoptionInit, AdoptionTypeOK, NoneOrCall, CallSteps,
     Outcomes, LoopSteps, Adopting, Contents, AllKinds
<1> QED
  BY <1>1, AdoptionTypeStep, PTL DEF AdoptionSpec
-----------------------------------------------------------------------------
(* What makes the two order properties inductive: where a config can be.   *)

InChannel(c) == \E i \in 1..Len(configEventChan) : configEventChan[i] = c
InAdoption(c) == evalPc \in Adopting /\ config = c

\* A config moves from the channel through one adoption to served, and is in
\* one of these places at a time.
Placement ==
  /\ \A i, j \in 1..Len(configEventChan) :
       configEventChan[i] = configEventChan[j] => i = j
  /\ \A c \in Calls : InChannel(c) => c \notin served /\ ~InAdoption(c)
  /\ evalPc \in {"apply", "swapData", "swapUnresolved"} => config \notin served
  /\ evalPc = "adopt" => config \in served
  /\ evalPc \notin Adopting => config \in served \cup {None}

\* The maps only ever name configs the loop has taken, and the loop never
\* closes the Done of a config it has not swapped in.
MapsNameTaken ==
  /\ \/ evalDataMap \in served \cup {None}
     \/ evalPc = "swapUnresolved" /\ evalDataMap = config
  /\ evalUnresolvedMap \in served \cup {None}
  /\ evalPc = "swapUnresolved" => evalDataMap = config
  /\ done \subseteq served

\* Only a call that delivered its config has it anywhere downstream.
CallsAccounted ==
  /\ \A c \in Calls : pc[c] # "returned" => outcome[c] = "none"
  /\ \A c \in Calls : (InChannel(c) \/ InAdoption(c) \/ c \in served) =>
       /\ pc[c] \in {"await", "returned"}
       /\ outcome[c] \notin {"bare", "untaken"}
  /\ \A c \in Calls : outcome[c] = "adopted" => c \in done

\* A call that had returned when another began is ahead of it, or nowhere.
EarlierIsAhead ==
  \A c \in Calls : \A d \in before[c] :
    /\ d # c
    /\ pc[d] = "returned" /\ pc[c] # "idle"
    /\ \A i, j \in 1..Len(configEventChan) :
         configEventChan[i] = c /\ configEventChan[j] = d => j < i
    /\ (InAdoption(c) \/ c \in served) => ~InChannel(d)
    /\ c \in served => config # d

AdoptionOrder ==
  /\ Placement
  /\ MapsNameTaken
  /\ CallsAccounted
  /\ EarlierIsAhead
  /\ RealTimeOrder


\* Steps that leave the channel, the loop and the pipeline alone.
LEMMA PlacementFrame ==
  ASSUME UNCHANGED <<configEventChan, evalPc, config, served>>
  PROVE  /\ Placement => Placement'
         /\ \A c : InChannel(c)' = InChannel(c) /\ InAdoption(c)' = InAdoption(c)
BY DEF Placement, InChannel, InAdoption

\* A delivery adds its config, and nothing else, to the channel.
LEMMA DeliverChannel ==
  ASSUME AdoptionTypeOK, NEW c \in Calls, Deliver(c)
  PROVE  /\ Len(configEventChan') = Len(configEventChan) + 1
         /\ \A i \in 1..Len(configEventChan) : configEventChan'[i] = configEventChan[i]
         /\ configEventChan'[Len(configEventChan) + 1] = c
BY DEF AdoptionTypeOK, Deliver

\* Taking the head shifts the rest by one.
LEMMA TakeChannel ==
  ASSUME AdoptionTypeOK, TakeConfig
  PROVE  /\ Len(configEventChan) >= 1
         /\ config' = configEventChan[1]
         /\ Len(configEventChan') = Len(configEventChan) - 1
         /\ \A i \in 1..Len(configEventChan') :
              configEventChan'[i] = configEventChan[i + 1]
BY HeadTailProperties DEF AdoptionTypeOK, TakeConfig

LEMMA AdoptionOrderStep ==
  AdoptionTypeOK /\ AdoptionTypeOK' /\ AdoptionOrder /\ [AdoptionNext]_adoptionVars
    => AdoptionOrder'
<1> SUFFICES ASSUME AdoptionTypeOK, AdoptionTypeOK', AdoptionOrder,
                    [AdoptionNext]_adoptionVars
             PROVE  AdoptionOrder'
  OBVIOUS
<1> USE AdoptionAssumption
<1>1. ASSUME NEW c \in Calls, NEW k \in Kinds, SetConfigPublish(c, k)
      PROVE  AdoptionOrder'
  <2>1. UNCHANGED <<configEventChan, evalPc, config, served>>
    BY <1>1 DEF SetConfigPublish, loopVars
  <2>2. Placement' /\ MapsNameTaken'
    BY <1>1, <2>1, PlacementFrame
    DEF AdoptionOrder, MapsNameTaken, SetConfigPublish, loopVars
  <2>3. ~InChannel(c) /\ ~InAdoption(c) /\ c \notin served
    BY <1>1 DEF AdoptionOrder, CallsAccounted, SetConfigPublish
  <2>4. CallsAccounted'
    BY <1>1, <2>1, <2>3, PlacementFrame
    DEF AdoptionOrder, CallsAccounted, SetConfigPublish, loopVars, AdoptionTypeOK
  <2>5. EarlierIsAhead'
    <3> SUFFICES ASSUME NEW e \in Calls, NEW d \in before'[e]
                 PROVE  /\ d # e
                        /\ pc'[d] = "returned" /\ pc'[e] # "idle"
                        /\ \A i, j \in 1..Len(configEventChan') :
                             configEventChan'[i] = e /\ configEventChan'[j] = d => j < i
                        /\ (InAdoption(e)' \/ e \in served') => ~InChannel(d)'
                        /\ e \in served' => config' # d
      BY DEF EarlierIsAhead
    <3>1. CASE e = c
      BY <1>1, <2>1, <2>3, <3>1, PlacementFrame
      DEF SetConfigPublish, InChannel, AdoptionTypeOK
    <3>2. CASE e # c
      BY <1>1, <2>1, <3>2, PlacementFrame
      DEF SetConfigPublish, AdoptionOrder, EarlierIsAhead, AdoptionTypeOK
    <3> QED BY <3>1, <3>2
  <2>6. RealTimeOrder'
    BY <1>1, <2>1, <2>3
    DEF AdoptionOrder, RealTimeOrder, SetConfigPublish, loopVars, AdoptionTypeOK
  <2> QED
    BY <2>2, <2>4, <2>5, <2>6 DEF AdoptionOrder
<1>2. ASSUME NEW c \in Calls,
             SetConfigCheck(c) \/ DeliverTimeout(c) \/ AwaitDone(c)
               \/ AwaitTimeout(c) \/ WaitDying(c)
      PROVE  AdoptionOrder'
  <2> USE <1>2 DEF SetConfigCheck, DeliverTimeout, AwaitDone, AwaitTimeout, WaitDying,
                   Return, loopVars
  <2>1. UNCHANGED <<configEventChan, evalPc, config, served, evalDataMap,
                    evalUnresolvedMap, done, before>>
    OBVIOUS
  <2>2. Placement' /\ MapsNameTaken' /\ RealTimeOrder'
    BY <2>1, PlacementFrame DEF AdoptionOrder, MapsNameTaken, RealTimeOrder
  <2>3. CallsAccounted'
    BY <2>1, PlacementFrame DEF AdoptionOrder, CallsAccounted, AdoptionTypeOK
  <2>4. /\ \A d \in Calls : pc[d] = "returned" => pc'[d] = "returned"
        /\ \A d \in Calls : pc[d] # "idle" => pc'[d] # "idle"
    BY DEF AdoptionTypeOK
  <2>5. EarlierIsAhead'
    BY <2>1, <2>4, PlacementFrame DEF AdoptionOrder, EarlierIsAhead, AdoptionTypeOK
  <2> QED
    BY <2>2, <2>3, <2>5 DEF AdoptionOrder
<1>3. ASSUME NEW c \in Calls, Deliver(c)
      PROVE  AdoptionOrder'
  <2>1. UNCHANGED <<evalPc, config, served, evalDataMap, evalUnresolvedMap, done,
                    before, outcome>>
    BY <1>3 DEF Deliver, loopVars
  <2>2. ~InChannel(c) /\ ~InAdoption(c) /\ c \notin served
    BY <1>3 DEF AdoptionOrder, CallsAccounted, Deliver
  <2> DEFINE n == Len(configEventChan)
  <2>c. /\ n \in Nat /\ Len(configEventChan') = n + 1
        /\ \A i \in 1..n + 1 : configEventChan'[i] = IF i = n + 1 THEN c ELSE configEventChan[i]
        /\ \A i \in 1..n + 1 : i # n + 1 => i \in 1..n
        /\ \A i \in 1..n : configEventChan[i] # c
    BY <1>3, <2>2, DeliverChannel DEF AdoptionTypeOK, InChannel
  <2>3. \A d : InChannel(d)' <=> InChannel(d) \/ d = c
    <3> HIDE DEF n
    <3>1. \A i \in 1..n : i \in 1..n + 1 /\ i # n + 1
      BY <2>c
    <3>2. n + 1 \in 1..n + 1
      BY <2>c
    <3> QED
      BY <2>c, <3>1, <3>2 DEF InChannel, n
  <2>i. \A i, j \in 1..Len(configEventChan') :
          configEventChan'[i] = configEventChan'[j] => i = j
    <3>1. \A i, j \in 1..n : configEventChan[i] = configEventChan[j] => i = j
      BY DEF AdoptionOrder, Placement
    <3> HIDE DEF n
    <3> QED
      BY <2>c, <3>1
  <2>4. Placement'
    BY <2>1, <2>2, <2>3, <2>i DEF AdoptionOrder, Placement, InAdoption
  <2>5. MapsNameTaken' /\ RealTimeOrder'
    BY <2>1 DEF AdoptionOrder, MapsNameTaken, RealTimeOrder
  <2>6. CallsAccounted'
    BY <1>3, <2>1, <2>2, <2>3
    DEF AdoptionOrder, CallsAccounted, Deliver, InAdoption, AdoptionTypeOK
  <2>7. \A e \in Calls : c \notin before[e]
    BY <1>3 DEF AdoptionOrder, EarlierIsAhead, Deliver
  <2>8. EarlierIsAhead'
    BY <1>3, <2>1, <2>2, <2>3, <2>7, DeliverChannel
    DEF AdoptionOrder, EarlierIsAhead, Deliver, InChannel, InAdoption, AdoptionTypeOK
  <2> QED
    BY <2>4, <2>5, <2>6, <2>8 DEF AdoptionOrder
<1>4. ASSUME TakeConfig
      PROVE  AdoptionOrder'
  <2>1. /\ UNCHANGED <<served, evalDataMap, evalUnresolvedMap, done, before, outcome, pc>>
        /\ evalPc = "select" /\ evalPc' = "apply"
    BY <1>4 DEF TakeConfig, LoopStep, callVars
  <2>2. InChannel(config') /\ config' \in Calls
    BY <1>4, TakeChannel DEF InChannel, AdoptionTypeOK
  <2> DEFINE n == Len(configEventChan)
  <2>c. /\ n \in Nat /\ Len(configEventChan') = n - 1
        /\ config' = configEventChan[1] /\ 1 \in 1..n
        /\ \A i \in 1..n - 1 : i + 1 \in 1..n /\ configEventChan'[i] = configEventChan[i + 1]
        /\ \A i \in 1..n : i # 1 => i - 1 \in 1..n - 1 /\ configEventChan'[i - 1] = configEventChan[i]
    <3>1. /\ n \in Nat /\ n >= 1 /\ Len(configEventChan') = n - 1
          /\ config' = configEventChan[1]
      BY <1>4, TakeChannel DEF AdoptionTypeOK
    <3>2. \A i \in 1..n - 1 : configEventChan'[i] = configEventChan[i + 1]
      BY <1>4, <3>1, TakeChannel
    <3> HIDE DEF n
    <3>3. \A i \in 1..n : i # 1 => i - 1 \in 1..n - 1 /\ (i - 1) + 1 = i
      BY <3>1
    <3> QED
      BY <3>1, <3>2, <3>3
  <2>u. \A i, j \in 1..n : configEventChan[i] = configEventChan[j] => i = j
    BY DEF AdoptionOrder, Placement
  <2>3. \A d : InChannel(d)' <=> InChannel(d) /\ d # config'
    <3> SUFFICES ASSUME NEW d
                 PROVE  (\E i \in 1..n - 1 : configEventChan'[i] = d)
                          <=> (\E i \in 1..n : configEventChan[i] = d) /\ d # config'
      BY <2>c DEF InChannel
    <3> HIDE DEF n
    <3>1. ASSUME NEW i \in 1..n - 1, configEventChan'[i] = d
          PROVE  (\E j \in 1..n : configEventChan[j] = d) /\ d # config'
      BY <2>c, <2>u, <3>1
    <3>2. ASSUME NEW i \in 1..n, configEventChan[i] = d, d # config'
          PROVE  \E j \in 1..n - 1 : configEventChan'[j] = d
      BY <2>c, <3>2
    <3> QED
      BY <3>1, <3>2
  <2>i. \A i, j \in 1..Len(configEventChan') :
          configEventChan'[i] = configEventChan'[j] => i = j
    <3> HIDE DEF n
    <3> QED
      BY <2>c, <2>u
  <2>4. Placement'
    <3>1. ~InAdoption(config') /\ config' \notin served
      BY <2>2, TakeConfig DEF AdoptionOrder, Placement, InChannel
    <3> QED
      BY <2>1, <2>2, <2>3, <2>i DEF AdoptionOrder, Placement, InAdoption, Adopting
  <2>5. MapsNameTaken' /\ RealTimeOrder'
    BY <2>1 DEF AdoptionOrder, MapsNameTaken, RealTimeOrder
  <2>6. CallsAccounted'
    BY <2>1, <2>2, <2>3 DEF AdoptionOrder, CallsAccounted, InAdoption
  <2>7. EarlierIsAhead'
    <3> SUFFICES ASSUME NEW e \in Calls, NEW d \in before[e]
                 PROVE  /\ d # e
                        /\ pc[d] = "returned" /\ pc[e] # "idle"
                        /\ \A i, j \in 1..n - 1 :
                             configEventChan'[i] = e /\ configEventChan'[j] = d => j < i
                        /\ (InAdoption(e)' \/ e \in served) => ~InChannel(d)'
                        /\ e \in served => config' # d
      BY <2>1, <2>c DEF EarlierIsAhead
    <3>1. /\ d # e
          /\ pc[d] = "returned" /\ pc[e] # "idle"
          /\ \A i, j \in 1..n :
               configEventChan[i] = e /\ configEventChan[j] = d => j < i
          /\ e \in served => ~InChannel(d)
      BY DEF AdoptionOrder, EarlierIsAhead
    <3>2. \A i, j \in 1..n - 1 :
            configEventChan'[i] = e /\ configEventChan'[j] = d => j < i
      <4> SUFFICES ASSUME NEW i \in 1..n - 1, NEW j \in 1..n - 1,
                          configEventChan'[i] = e, configEventChan'[j] = d
                   PROVE  j < i
        OBVIOUS
      <4>1. /\ i + 1 \in 1..n /\ configEventChan[i + 1] = e
            /\ j + 1 \in 1..n /\ configEventChan[j + 1] = d
        BY <2>c
      <4>2. j + 1 < i + 1
        BY <3>1, <4>1
      <4> HIDE DEF n
      <4> QED
        BY <2>c, <4>2
    <3>3. e \in served => ~InChannel(d)' /\ config' # d
      BY <2>2, <2>3, <3>1 DEF InChannel
    <3>4. InAdoption(e)' => ~InChannel(d)'
      <4>1. SUFFICES ASSUME config' = e, InChannel(d) PROVE FALSE
        BY <2>3 DEF InAdoption
      <4>2. PICK j \in 1..n : configEventChan[j] = d
        BY <4>1 DEF InChannel
      <4>3. 1 \in 1..n /\ configEventChan[1] = e
        BY <2>c, <4>1
      <4>4. j < 1
        BY <3>1, <4>2, <4>3
      <4> HIDE DEF n
      <4> QED
        BY <2>c, <4>4
    <3> QED
      BY <3>1, <3>2, <3>3, <3>4
  <2> QED
    BY <2>4, <2>5, <2>6, <2>7 DEF AdoptionOrder
<1>5. ASSUME ApplyConfig \/ Heartbeat \/ DeviceEvent \/ EvalLoopExit
               \/ InputChange \/ Quit \/ UNCHANGED adoptionVars
      PROVE  AdoptionOrder'
  <2>1. UNCHANGED <<served, evalDataMap, evalUnresolvedMap, done, before, outcome, pc,
                    configEventChan, config>>
    BY <1>5 DEF ApplyConfig, Heartbeat, DeviceEvent, EvalTransmitters, EvalLoopExit,
       InputChange, Quit, callVars, loopVars, adoptionVars
  <2>2. \/ evalPc = "apply" /\ evalPc' = "swapData"
        \/ evalPc' = evalPc
        \/ evalPc \notin Adopting /\ evalPc' \notin Adopting
    BY <1>5 DEF ApplyConfig, Heartbeat, DeviceEvent, EvalTransmitters, EvalLoopExit,
       InputChange, Quit, callVars, loopVars, adoptionVars, LoopStep, Adopting
  <2>3. \A c : InChannel(c)' = InChannel(c) /\ (InAdoption(c)' <=> InAdoption(c))
    BY <2>1, <2>2 DEF InChannel, InAdoption, Adopting
  <2>4. Placement'
    BY <2>1, <2>2, <2>3 DEF AdoptionOrder, Placement, Adopting
  <2>5. MapsNameTaken' /\ RealTimeOrder'
    BY <2>1, <2>2 DEF AdoptionOrder, MapsNameTaken, RealTimeOrder, Adopting
  <2>6. CallsAccounted' /\ EarlierIsAhead'
    BY <2>1, <2>3 DEF AdoptionOrder, CallsAccounted, EarlierIsAhead
  <2> QED
    BY <2>4, <2>5, <2>6 DEF AdoptionOrder
<1>6. ASSUME SwapData
      PROVE  AdoptionOrder'
  <2>1. /\ UNCHANGED <<served, evalUnresolvedMap, done, before, outcome, pc,
                       configEventChan, config>>
        /\ evalPc = "swapData" /\ evalPc' = "swapUnresolved"
        /\ evalDataMap' = config
    BY <1>6 DEF SwapData, LoopStep, callVars
  <2>2. \A c : InChannel(c)' = InChannel(c) /\ (InAdoption(c)' <=> InAdoption(c))
    BY <2>1 DEF InChannel, InAdoption, Adopting
  <2>3. Placement' /\ MapsNameTaken'
    BY <2>1, <2>2 DEF AdoptionOrder, Placement, MapsNameTaken, Adopting
  <2>4. CallsAccounted' /\ EarlierIsAhead'
    BY <2>1, <2>2 DEF AdoptionOrder, CallsAccounted, EarlierIsAhead
  <2>5. RealTimeOrder'
    BY <2>1 DEF AdoptionOrder, RealTimeOrder, EarlierIsAhead
  <2> QED
    BY <2>3, <2>4, <2>5 DEF AdoptionOrder
<1>7. ASSUME SwapUnresolved
      PROVE  AdoptionOrder'
  <2>1. /\ UNCHANGED <<evalDataMap, done, before, outcome, pc, configEventChan, config>>
        /\ evalPc = "swapUnresolved" /\ evalPc' = "adopt"
        /\ evalUnresolvedMap' = config /\ served' = served \cup {config}
        /\ config \in Calls
    BY <1>7 DEF SwapUnresolved, LoopStep, callVars, AdoptionTypeOK, Adopting
  <2>2. /\ \A c : InChannel(c)' = InChannel(c) /\ (InAdoption(c)' <=> InAdoption(c))
        /\ InAdoption(config)
    BY <2>1 DEF InChannel, InAdoption, Adopting
  <2>3. Placement' /\ MapsNameTaken'
    BY <2>1, <2>2 DEF AdoptionOrder, Placement, MapsNameTaken, Adopting
  <2>4. CallsAccounted'
    BY <2>1, <2>2 DEF AdoptionOrder, CallsAccounted
  <2>5. EarlierIsAhead'
    BY <2>1, <2>2 DEF AdoptionOrder, EarlierIsAhead
  <2>6. RealTimeOrder'
    BY <2>1 DEF AdoptionOrder, RealTimeOrder, EarlierIsAhead, MapsNameTaken
  <2> QED
    BY <2>3, <2>4, <2>5, <2>6 DEF AdoptionOrder
<1>8. ASSUME Adopted
      PROVE  AdoptionOrder'
  <2>1. /\ UNCHANGED <<evalDataMap, evalUnresolvedMap, served, before, outcome, pc,
                       configEventChan, config>>
        /\ evalPc = "adopt" /\ evalPc' = "select"
        /\ done' = done \cup {config}
    BY <1>8 DEF Adopted, LoopStep, callVars
  <2>2. /\ \A c : InChannel(c)' = InChannel(c)
        /\ \A c : InAdoption(c)' => InAdoption(c)
    BY <2>1 DEF InChannel, InAdoption, Adopting
  <2>3. Placement' /\ MapsNameTaken'
    BY <2>1, <2>2 DEF AdoptionOrder, Placement, MapsNameTaken, Adopting
  <2>4. CallsAccounted' /\ EarlierIsAhead' /\ RealTimeOrder'
    BY <2>1, <2>2 DEF AdoptionOrder, CallsAccounted, EarlierIsAhead, RealTimeOrder
  <2> QED
    BY <2>3, <2>4 DEF AdoptionOrder
<1> QED
  BY <1>1, <1>2, <1>3, <1>4, <1>5, <1>6, <1>7, <1>8
  DEF AdoptionNext, CallStep, LoopBody

LEMMA AdoptionOrderInvariant == AdoptionSpec => []AdoptionOrder
<1>1. AdoptionInit => AdoptionOrder
  BY DEF AdoptionInit, AdoptionOrder, Placement, MapsNameTaken, CallsAccounted,
     EarlierIsAhead, RealTimeOrder, InChannel, InAdoption, Adopting
<1> QED
  BY <1>1, AdoptionOrderStep, AdoptionTypeCorrect, PTL DEF AdoptionSpec

\* SetConfig tells the truth about its config, whatever the interleaving of
\* callers, timers and the eval loop.
THEOREM SetConfigTruthful == AdoptionSpec => []OutcomeTruthful
<1>1. AdoptionTypeOK /\ AdoptionOrder => OutcomeTruthful
  BY AdoptionAssumption DEF AdoptionTypeOK, AdoptionOrder, OutcomeTruthful, MapsNameTaken, CallsAccounted,
     InAdoption, Adopting
<1> QED
  BY <1>1, AdoptionOrderInvariant, AdoptionTypeCorrect, PTL

\* Applies take effect in real-time order: an earlier apply never displaces a
\* later one that has been adopted.
THEOREM AppliesInRealTimeOrder == AdoptionSpec => []RealTimeOrder
<1>1. AdoptionOrder => RealTimeOrder
  BY DEF AdoptionOrder
<1> QED
  BY <1>1, AdoptionOrderInvariant, PTL
=============================================================================
