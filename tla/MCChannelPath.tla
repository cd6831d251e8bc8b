--------------------------- MODULE MCChannelPath ---------------------------
(* Instances of ChannelPath for TLC.                                       *)
EXTENDS ChannelPath, TLC

CallSymmetry == Permutations(Calls)

\* Bound of the safety run: no SetConfig timer fires and the loop is not told
\* to quit.  How a call returns is MCConfigAdoption's question.
PatientCalls == Alive /\ \A c \in Calls : outcome[c] \in {"none", "adopted"}

\* No goroutine stalls: time passes neither between the eval loop's two map
\* assignments nor within a tick of the send loop.  A stall of a whole window
\* in either place would put unresolved frames on the wire more easily.
NoStall ==
  evalPc = "swapUnresolved" \/ sendPc \in {"observe", "decide", "write"} =>
    clock' = clock
=============================================================================
