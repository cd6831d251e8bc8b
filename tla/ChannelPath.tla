---------------------------- MODULE ChannelPath ----------------------------
(***************************************************************************)
(* From an applied config to the serial port: ConfigAdoption composed with *)
(* the send loop of pkg/link that transmits what it published.             *)
(*                                                                         *)
(* The send loop runs on its own goroutine and reads the two published     *)
(* maps without a lock, EvalDataMap first and EvalUnresolvedMap later in   *)
(* the same tick, so the eval loop's two assignments may fall in between.  *)
(* A tick takes its time once, at its start; the write may come later.     *)
(* When a write fails, or the link is stopped, the loop exits and a new    *)
(* one starts with a fresh gate.                                           *)
(***************************************************************************)
EXTENDS ConfigAdoption

CONSTANTS
  Window,    \* configSwapFailsafeWindow
  MaxClock   \* bound on the clock

ASSUME PathAssumption ==
  /\ Window \in Nat \ {0}
  /\ MaxClock \in Nat

VARIABLES
  clock,        \* time, in units of which Window is a few
  sendPc,       \* where the send loop is in its tick
  tickNow,      \* the tick's one reading of the time
  gateCurrent,  \* configSwapGate.current; None while it has adopted nothing
  gateUntil,    \* configSwapGate.until
  source,       \* the config of the last channel frame written
  sentAt,       \* when that frame was written
  content,      \* what that frame carried
  stale         \* history: frames of a replaced config since the last swap

sendVars == <<sendPc, tickNow, gateCurrent, gateUntil>>
frameVars == <<source, sentAt, content, stale>>
pathVars == <<adoptionVars, clock, sendVars, frameVars>>

SendSteps == {"select", "observe", "decide", "write", "gone"}

PathTypeOK ==
  /\ AdoptionTypeOK
  /\ clock \in 0..MaxClock
  /\ sendPc \in SendSteps
  /\ tickNow \in Nat
  /\ gateCurrent \in NoneOrCall
  /\ gateUntil \in Nat
  /\ source \in NoneOrCall
  /\ sentAt \in Nat
  /\ content \in Contents
  /\ stale \in Nat

PathInit ==
  /\ AdoptionInit
  /\ clock = 0
  /\ sendPc = "select"
  /\ tickNow = 0
  /\ gateCurrent = None
  /\ gateUntil = 0
  /\ source = None
  /\ sentAt = 0
  /\ content = "none"
  /\ stale = 0

-----------------------------------------------------------------------------
(* The gate and the three causes of suppression.                           *)

\* resolveChannels: does the map of config m have an array for the port?
Resolves(m) == m # None /\ kind[m] # "absent"

\* portUnresolved: a nil map or a missing flag is not unresolved.
PortUnresolved(m) == m # None /\ kind[m] = "truncated"

\* Mutant: no window.
NoHoldOff == FALSE

HoldOff == gateCurrent # None /\ tickNow < gateUntil

Suppressed ==
  \/ ~Resolves(gateCurrent)
  \/ HoldOff
  \/ PortUnresolved(evalUnresolvedMap)

SendStep(from, to) == sendPc = from /\ sendPc' = to

-----------------------------------------------------------------------------
(* One tick of SendLoop: read the clock, observe EvalDataMap, decide with  *)
(* EvalUnresolvedMap, write.                                               *)

SendTick ==
  /\ SendStep("select", "observe")
  /\ tickNow' = clock
  /\ UNCHANGED <<adoptionVars, clock, gateCurrent, gateUntil, frameVars>>

\* Mutant: the window's sign is wrong.
SendObserveBackwards ==
  /\ SendStep("observe", "decide")
  /\ gateCurrent' = evalDataMap
  /\ gateUntil' = tickNow - Window
  /\ UNCHANGED <<adoptionVars, clock, tickNow, frameVars>>

\* Mutant: only the first map is adopted.
SendObserveFirst ==
  /\ SendStep("observe", "decide")
  /\ \/ /\ evalDataMap = None \/ gateCurrent # None
        /\ UNCHANGED <<gateCurrent, gateUntil>>
     \/ /\ evalDataMap # None /\ gateCurrent = None
        /\ gateCurrent' = evalDataMap
        /\ gateUntil' = tickNow + Window
  /\ UNCHANGED <<adoptionVars, clock, tickNow, frameVars>>

\* Mutant: every tick opens the window again.
SendObserveAlways ==
  /\ SendStep("observe", "decide")
  /\ \/ /\ evalDataMap = None
        /\ UNCHANGED <<gateCurrent, gateUntil>>
     \/ /\ evalDataMap # None
        /\ gateCurrent' = evalDataMap
        /\ gateUntil' = tickNow + Window
  /\ UNCHANGED <<adoptionVars, clock, tickNow, frameVars>>

SendObserve ==
  /\ SendStep("observe", "decide")
  /\ \/ /\ evalDataMap \in {None, gateCurrent}
        /\ UNCHANGED <<gateCurrent, gateUntil>>
     \/ /\ evalDataMap \notin {None, gateCurrent}
        /\ gateCurrent' = evalDataMap
        /\ gateUntil' = tickNow + Window
  /\ UNCHANGED <<adoptionVars, clock, tickNow, frameVars>>

SendSuppressed ==
  /\ SendStep("decide", "select")
  /\ Suppressed
  /\ UNCHANGED <<adoptionVars, clock, tickNow, gateCurrent, gateUntil, frameVars>>

SendAllowed ==
  /\ SendStep("decide", "write")
  /\ ~Suppressed
  /\ UNCHANGED <<adoptionVars, clock, tickNow, gateCurrent, gateUntil, frameVars>>

\* The array is packed as it is now: the eval loop updates it in place.
SendWrite ==
  /\ SendStep("write", "select")
  /\ source' = gateCurrent
  /\ sentAt' = clock
  /\ content' = array[gateCurrent]
  /\ stale' = IF gateCurrent = evalDataMap THEN stale ELSE stale + 1
  /\ UNCHANGED <<adoptionVars, clock, tickNow, gateCurrent, gateUntil>>

\* The channel write failed, the model-id write between ticks failed, or the
\* tomb is dying.
SendExit ==
  /\ sendPc \in {"select", "write"}
  /\ sendPc' = "gone"
  /\ UNCHANGED <<adoptionVars, clock, tickNow, gateCurrent, gateUntil, frameVars>>

\* The supervisor reconnects: a new SendLoop, with a gate of its own.
SendRestart ==
  /\ SendStep("gone", "select")
  /\ gateCurrent' = None
  /\ gateUntil' = 0
  /\ UNCHANGED <<adoptionVars, clock, tickNow, frameVars>>

Elapse ==
  /\ clock < MaxClock
  /\ clock' = clock + 1
  /\ UNCHANGED <<adoptionVars, sendVars, frameVars>>

-----------------------------------------------------------------------------
SendBody == SendTick \/ SendObserve \/ SendSuppressed \/ SendAllowed \/ SendWrite

SendNext == SendBody \/ SendExit \/ SendRestart

\* A step of the config layer, seen from the wire: a swap starts a new count.
ConfigStep ==
  /\ AdoptionNext
  /\ stale' = IF evalDataMap' = evalDataMap THEN stale ELSE 0
  /\ UNCHANGED <<clock, sendVars, source, sentAt, content>>

PathNext == ConfigStep \/ SendNext \/ Elapse

PathSpec == PathInit /\ [][PathNext]_pathVars

\* The send loop's ticker ticks and time passes.
FairPathSpec ==
  /\ PathSpec
  /\ WF_pathVars(SendBody)
  /\ WF_pathVars(Elapse)

-----------------------------------------------------------------------------
(* Properties.                                                             *)

\* The path keeps the promise of ChannelWire, for whatever interleaving of
\* applies, swaps, ticks, write errors and restarts.
Wire == INSTANCE ChannelWire WITH Configs <- Calls

QuietSwap == Wire!Spec

\* A config that has been replaced gets at most one more frame: the one whose
\* tick had observed the old map before the swap.
AtMostOneStaleFrame == stale <= 1

\* No frame carries a freshly seeded array, all channels at centre: every
\* array is evaluated before it is published.
NeverFreshlySeeded == content # "centered"

\* A sound config that stays published is transmitted once its window is
\* over: suppression does not latch (within the bound of the clock).
SoundConfigTransmits ==
  \A c \in Calls :
    (gateCurrent = c /\ kind[c] = "sound" /\ gateUntil <= MaxClock)
      ~> \/ source = c /\ sentAt >= gateUntil
         \/ gateCurrent # c
         \/ sendPc = "gone"
         \/ evalDataMap # c

\* What controller.go says of the flag: "The send loop suppresses that port's
\* channel frames while it is set".
NoUnresolvedFrame == source # None => kind[source] # "truncated"
=============================================================================
