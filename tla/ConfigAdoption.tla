--------------------------- MODULE ConfigAdoption ---------------------------
(***************************************************************************)
(* How a configuration becomes the one that drives the car.                *)
(*                                                                         *)
(* SetConfig runs on one gRPC handler goroutine per call: it publishes the *)
(* config for GetConfig, hands it to the eval loop on a channel, and waits *)
(* until the loop has adopted it.  The eval loop is the only adopter: it   *)
(* evaluates the config, then swaps in the two maps the send loop reads    *)
(* (EvalDataMap, then EvalUnresolvedMap), then closes the Done channel the *)
(* config arrived with.  Between adoptions a heartbeat re-evaluates the    *)
(* published transmitter, because device alerts may be lost.               *)
(*                                                                         *)
(* One call carries one config, so a config is named by its call.  The     *)
(* model follows the one serial port a link transmits on.                  *)
(***************************************************************************)
EXTENDS Naturals, Sequences, FiniteSets

CONSTANTS
  Calls,     \* the SetConfig calls, each with the *Config it decoded
  Kinds,     \* what a config may be for the port, see AllKinds
  ChanCap,   \* capacity of ConfigEventChan
  None       \* the nil map, the nil config

AllKinds == {"absent", "truncated", "sound"}

ASSUME AdoptionAssumption ==
  /\ Kinds \subseteq AllKinds
  /\ ChanCap \in Nat \ {0}
  /\ None \notin Calls

VARIABLES
  pc,                \* where each SetConfig call is
  outcome,           \* how each call returned
  kind,              \* what each config is for the port
  live,              \* Controller.Config, what GetConfig answers
  configEventChan,   \* events delivered and not yet taken
  evalPc,            \* where the eval loop is
  config,            \* the loop's config, whose transmitter it re-evaluates
  array,             \* what each config's published array holds
  evalDataMap,       \* the config whose arrays EvalDataMap points at
  evalUnresolvedMap, \* the config whose flags EvalUnresolvedMap points at
  done,              \* the calls whose Done channel is closed
  evalTomb,          \* the eval loop's tomb
  input,             \* the gamepad the configs read: attached or not
  served,            \* history: configs that have been on both maps
  before             \* history: the calls that had returned when a call began

callVars == <<pc, outcome, kind, live, before>>
loopVars == <<evalPc, config, array, evalDataMap, evalUnresolvedMap, done, served>>
adoptionVars == <<callVars, configEventChan, loopVars, evalTomb, input>>

NoneOrCall == Calls \cup {None}
CallSteps  == {"idle", "check", "deliver", "await", "returned"}
Outcomes   == {"none", "bare", "dying", "untaken", "unadopted", "adopted"}
LoopSteps  == {"select", "alerted", "apply", "swapData", "swapUnresolved",
               "adopt", "gone"}
Adopting   == {"apply", "swapData", "swapUnresolved", "adopt"}
Contents   == {"centered", "driven", "failsafe", "partial", "none"}

AdoptionTypeOK ==
  /\ pc \in [Calls -> CallSteps]
  /\ outcome \in [Calls -> Outcomes]
  /\ kind \in [Calls -> AllKinds]
  /\ live \in NoneOrCall
  /\ configEventChan \in Seq(Calls)
  /\ Len(configEventChan) <= ChanCap
  /\ evalPc \in LoopSteps
  /\ config \in NoneOrCall
  /\ evalPc \in Adopting => config \in Calls
  /\ array \in [Calls -> Contents]
  /\ evalDataMap \in NoneOrCall
  /\ evalUnresolvedMap \in NoneOrCall
  /\ done \subseteq Calls
  /\ evalTomb \in {"alive", "dying"}
  /\ input \in {"up", "down"}
  /\ served \subseteq Calls
  /\ before \in [Calls -> SUBSET Calls]

-----------------------------------------------------------------------------
(* Values: what one evaluation of a config's transmitter leaves in its     *)
(* array.  A config without a transmitter for the port has no array; one   *)
(* whose owner walk is cut off by the depth bound leaves channels it       *)
(* cannot neutralise; a sound one drives every channel, or puts it on its  *)
(* failsafe when the input does not resolve.                               *)

EvalPort(c) ==
  CASE kind[c] = "absent"    -> "none"
    [] kind[c] = "truncated" -> "partial"
    [] kind[c] = "sound"     -> IF input = "up" THEN "driven" ELSE "failsafe"

Alive == evalTomb = "alive"

Return(c, how) ==
  /\ pc' = [pc EXCEPT ![c] = "returned"]
  /\ outcome' = [outcome EXCEPT ![c] = how]
  /\ UNCHANGED <<kind, live, before>>

-----------------------------------------------------------------------------
AdoptionInit ==
  /\ pc = [c \in Calls |-> "idle"]
  /\ outcome = [c \in Calls |-> "none"]
  /\ kind = [c \in Calls |-> "absent"]
  /\ live = None
  /\ configEventChan = <<>>
  /\ evalPc = "select"
  /\ config = None
  /\ array = [c \in Calls |-> "centered"]
  /\ evalDataMap = None
  /\ evalUnresolvedMap = None
  /\ done = {}
  /\ evalTomb = "alive"
  /\ input = "up"
  /\ served = {}
  /\ before = [c \in Calls |-> {}]

-----------------------------------------------------------------------------
(* SetConfig, one action per step of the calling goroutine.                *)

\* publishConfig: GetConfig answers the new config from here on, whatever
\* happens to its delivery.
SetConfigPublish(c, k) ==
  /\ pc[c] = "idle"
  /\ pc' = [pc EXCEPT ![c] = "check"]
  /\ kind' = [kind EXCEPT ![c] = k]
  /\ live' = c
  /\ before' = [before EXCEPT ![c] = {d \in Calls : pc[d] = "returned"}]
  /\ UNCHANGED <<outcome, configEventChan, loopVars, evalTomb, input>>

\* No running loop can adopt anything: set the field and return.
SetConfigCheck(c) ==
  /\ pc[c] = "check"
  /\ \/ /\ Alive
        /\ pc' = [pc EXCEPT ![c] = "deliver"]
        /\ UNCHANGED <<outcome, kind, live, before>>
     \/ /\ ~Alive
        /\ Return(c, "bare")
  /\ UNCHANGED <<configEventChan, loopVars, evalTomb, input>>

\* Mutant: a send that does not wait for room in the channel.
DeliverUnbounded(c) ==
  /\ pc[c] = "deliver"
  /\ configEventChan' = Append(configEventChan, c)
  /\ pc' = [pc EXCEPT ![c] = "await"]
  /\ UNCHANGED <<outcome, kind, live, before, loopVars, evalTomb, input>>

\* Mutant: a helper goroutine sends, and outlives the call's timeout.
DeliverLate(c) ==
  /\ Len(configEventChan) < ChanCap
  /\ configEventChan' = Append(configEventChan, c)
  /\ \/ /\ pc[c] = "deliver"
        /\ pc' = [pc EXCEPT ![c] = "await"]
        /\ UNCHANGED outcome
     \/ /\ outcome[c] = "untaken"
        /\ outcome' = [outcome EXCEPT ![c] = "unadopted"]
        /\ UNCHANGED pc
  /\ UNCHANGED <<kind, live, before, loopVars, evalTomb, input>>

Deliver(c) ==
  /\ pc[c] = "deliver"
  /\ Len(configEventChan) < ChanCap
  /\ configEventChan' = Append(configEventChan, c)
  /\ pc' = [pc EXCEPT ![c] = "await"]
  /\ UNCHANGED <<outcome, kind, live, before, loopVars, evalTomb, input>>

\* The first wait's timer: the loop did not take the config.
DeliverTimeout(c) ==
  /\ pc[c] = "deliver"
  /\ Return(c, "untaken")
  /\ UNCHANGED <<configEventChan, loopVars, evalTomb, input>>

AwaitDone(c) ==
  /\ pc[c] = "await"
  /\ c \in done
  /\ Return(c, "adopted")
  /\ UNCHANGED <<configEventChan, loopVars, evalTomb, input>>

\* The second wait's timer: delivered, and its event may still be adopted.
AwaitTimeout(c) ==
  /\ pc[c] = "await"
  /\ Return(c, "unadopted")
  /\ UNCHANGED <<configEventChan, loopVars, evalTomb, input>>

\* Mutant: only the second wait watches the tomb.
AwaitDying(c) ==
  /\ pc[c] = "await"
  /\ ~Alive
  /\ Return(c, "dying")
  /\ UNCHANGED <<configEventChan, loopVars, evalTomb, input>>

\* Either wait ends when the eval loop's tomb is dying.
WaitDying(c) ==
  /\ pc[c] \in {"deliver", "await"}
  /\ ~Alive
  /\ Return(c, "dying")
  /\ UNCHANGED <<configEventChan, loopVars, evalTomb, input>>

-----------------------------------------------------------------------------
(* The eval loop.                                                          *)

LoopStep(from, to) == evalPc = from /\ evalPc' = to

TakeConfig ==
  /\ LoopStep("select", "apply")
  /\ configEventChan # <<>>
  /\ config' = Head(configEventChan)
  /\ configEventChan' = Tail(configEventChan)
  /\ UNCHANGED <<callVars, array, evalDataMap, evalUnresolvedMap, done, served,
                 evalTomb, input>>

\* Mutant: the maps get the seeded array, the first heartbeat evaluates it.
ApplyConfigSeeded ==
  /\ LoopStep("apply", "swapData")
  /\ UNCHANGED <<callVars, configEventChan, config, array, evalDataMap,
                 evalUnresolvedMap, done, served, evalTomb, input>>

\* applyConfig: a fresh array is evaluated before anything is published.
ApplyConfig ==
  /\ LoopStep("apply", "swapData")
  /\ array' = [array EXCEPT ![config] = EvalPort(config)]
  /\ UNCHANGED <<callVars, configEventChan, config, evalDataMap, evalUnresolvedMap,
                 done, served, evalTomb, input>>

SwapData ==
  /\ LoopStep("swapData", "swapUnresolved")
  /\ evalDataMap' = config
  /\ UNCHANGED <<callVars, configEventChan, config, array, evalUnresolvedMap,
                 done, served, evalTomb, input>>

SwapUnresolved ==
  /\ LoopStep("swapUnresolved", "adopt")
  /\ evalUnresolvedMap' = config
  /\ served' = served \cup {config}
  /\ UNCHANGED <<callVars, configEventChan, config, array, evalDataMap, done,
                 evalTomb, input>>

\* Mutant: one barrier shared by every call that waits.
AdoptedShared ==
  /\ LoopStep("adopt", "select")
  /\ done' = done \cup {config} \cup {c \in Calls : pc[c] \in {"deliver", "await"}}
  /\ UNCHANGED <<callVars, configEventChan, config, array, evalDataMap,
                 evalUnresolvedMap, served, evalTomb, input>>

\* event.adopted(): closes the Done that came with the event.
Adopted ==
  /\ LoopStep("adopt", "select")
  /\ done' = done \cup {config}
  /\ UNCHANGED <<callVars, configEventChan, config, array, evalDataMap,
                 evalUnresolvedMap, served, evalTomb, input>>

\* The body the heartbeat and the device event share.
EvalTransmitters ==
  /\ array' = IF config = None THEN array
              ELSE [array EXCEPT ![config] = EvalPort(config)]
  /\ UNCHANGED <<callVars, configEventChan, config, evalDataMap, evalUnresolvedMap,
                 done, served, evalTomb, input>>

\* Mutant: the ticker only wakes the streams.
HeartbeatIdle == LoopStep("select", "select") /\ UNCHANGED adoptionVars

Heartbeat   == LoopStep("select", "select")  /\ EvalTransmitters
DeviceEvent == LoopStep("alerted", "select") /\ EvalTransmitters

EvalLoopExit ==
  /\ LoopStep("select", "gone")
  /\ ~Alive
  /\ UNCHANGED <<callVars, configEventChan, config, array, evalDataMap,
                 evalUnresolvedMap, done, served, evalTomb, input>>

-----------------------------------------------------------------------------
(* The surroundings: the gamepad and the controller's Quit.                *)

\* The alert is a non-blocking send on an unbuffered channel with competing
\* receivers: it reaches the loop only if the loop is at its select, and
\* even then another receiver may take it.
InputChange ==
  /\ input' = IF input = "up" THEN "down" ELSE "up"
  /\ \/ LoopStep("select", "alerted")
     \/ UNCHANGED evalPc
  /\ UNCHANGED <<callVars, configEventChan, config, array, evalDataMap,
                 evalUnresolvedMap, done, served, evalTomb>>

Quit ==
  /\ Alive
  /\ evalTomb' = "dying"
  /\ UNCHANGED <<callVars, configEventChan, loopVars, input>>

-----------------------------------------------------------------------------
\* What a SetConfig call does without the help of a timer.
CallStep(c) ==
  \/ SetConfigCheck(c)
  \/ Deliver(c)
  \/ AwaitDone(c)
  \/ WaitDying(c)

\* The eval loop past its select: nothing there waits for anyone.
LoopBody ==
  \/ ApplyConfig
  \/ SwapData
  \/ SwapUnresolved
  \/ Adopted
  \/ DeviceEvent

AdoptionNext ==
  \/ \E c \in Calls, k \in Kinds : SetConfigPublish(c, k)
  \/ \E c \in Calls : CallStep(c) \/ DeliverTimeout(c) \/ AwaitTimeout(c)
  \/ TakeConfig
  \/ LoopBody
  \/ Heartbeat
  \/ EvalLoopExit
  \/ InputChange
  \/ Quit

AdoptionSpec == AdoptionInit /\ [][AdoptionNext]_adoptionVars

\* The goroutines run and the 25 ms ticker ticks.  Go's select picks at random
\* among the ready cases, so a case ready at infinitely many of the loop's
\* selects is taken: strong fairness.  The 2 s timers of SetConfig owe nothing.
AdoptionFairness ==
  /\ SF_adoptionVars(TakeConfig)
  /\ SF_adoptionVars(Heartbeat)
  /\ SF_adoptionVars(EvalLoopExit)
  /\ WF_adoptionVars(LoopBody)
  /\ \A c \in Calls : WF_adoptionVars(CallStep(c))

FairAdoptionSpec == AdoptionSpec /\ AdoptionFairness

-----------------------------------------------------------------------------
(* Properties.                                                             *)

\* What SetConfig reports is true for good: a call released by its Done had
\* its own config on both maps, and a call that gave up delivering ("it is
\* NOT live") never gets its config onto either.
OutcomeTruthful ==
  \A c \in Calls :
    /\ outcome[c] = "adopted" => c \in served
    /\ outcome[c] \in {"bare", "untaken"} =>
         c \notin served /\ evalDataMap # c /\ evalUnresolvedMap # c

\* Applies take effect in the order the operator made them, timeouts
\* included: once a config has been adopted, the config of a call that had
\* already returned when this one began is never on either map again.
RealTimeOrder ==
  \A c \in Calls : \A d \in before[c] :
    c \in served => evalDataMap # d /\ evalUnresolvedMap # d

\* Every SetConfig returns even if no timer ever fires: the 2 s timeouts are
\* only needed for a wedged loop.
EveryApplierReturns ==
  \A c \in Calls : pc[c] = "check" ~> pc[c] = "returned"

\* A gamepad's death reaches the published array whatever happens to its
\* alert, as long as the eval loop is not told to quit.
DeathNeutralised ==
  \A c \in Calls :
    (input = "down" /\ evalDataMap = c /\ kind[c] = "sound")
      ~> (array[c] = "failsafe" \/ input = "up" \/ evalDataMap # c \/ ~Alive)

\* What controller.go says of Config, "the live config", and of SetConfig,
\* which "makes config the live config and returns once the eval loop has
\* ADOPTED it": with every call told its config was adopted and nothing in
\* flight, GetConfig answers the config that drives the car.
ShownIsDriven ==
  (\A c \in Calls : pc[c] = "returned" /\ outcome[c] = "adopted")
    => live = evalDataMap
=============================================================================
