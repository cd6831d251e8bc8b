---------------------------- MODULE ChannelWire ----------------------------
(***************************************************************************)
(* What the transmitting path promises the receiver, and nothing else:     *)
(* channel frames come from one configuration at a time, and before the    *)
(* first frame of another configuration the wire has been quiet for at     *)
(* least Window, so that a link-loss failsafe shorter than Window has      *)
(* fired and no switch stays latched on a command nobody drives any more.  *)
(***************************************************************************)
EXTENDS Naturals

CONSTANTS
  Configs,  \* the configurations
  None,     \* no frame yet
  Window    \* the silence between two configurations

VARIABLES
  clock,   \* time
  source,  \* the configuration of the last channel frame
  sentAt   \* when that frame was written

wireVars == <<clock, source, sentAt>>

Init ==
  /\ clock = 0
  /\ source = None
  /\ sentAt = 0

\* Time passes with nothing on the wire.
Silence ==
  /\ clock' = clock + 1
  /\ UNCHANGED <<source, sentAt>>

Frame(c) ==
  /\ source \in {None, c} \/ clock - sentAt >= Window
  /\ source' = c
  /\ sentAt' = clock
  /\ UNCHANGED clock

Next == Silence \/ \E c \in Configs : Frame(c)

Spec == Init /\ [][Next]_wireVars
=============================================================================
