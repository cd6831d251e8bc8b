---------------------------- MODULE LinkSupervisor ----------------------------
(* The life cycle of the RF link: the supervisor goroutine, the port, send   *)
(* and receive loops it starts and stops, the StartLink and StopLink calls,  *)
(* the CRSF parameter requests that share the send channel, and the          *)
(* transmitter that is plugged in and pulled out.                            *)
(*                                                                         *)
(* A goroutine run under a tomb is named by that tomb.  The names come from  *)
(* finite pools and are reused once nothing refers to them; what the code    *)
(* refers to by field (c.supervisorTomb, c.portLoopTomb, ...) is "field",    *)
(* and what a select captured when it was entered is "watch": the code       *)
(* re-reads the field at every select.                                       *)
EXTENDS Naturals, Sequences

CONSTANTS Sups, Ports, Sends, Recvs,  \* pools of goroutines
          Operators,                  \* concurrent StartLink / StopLink calls
          SendCap,                    \* sendChanBuffer
          None

Loops == Sups \cup Ports \cup Sends \cup Recvs

ASSUME LinkAssumption ==
  /\ Sups \cap (Ports \cup Sends \cup Recvs) = {} /\ Ports \cap (Sends \cup Recvs) = {}
  /\ Sends \cap Recvs = {} /\ None \notin Loops
  /\ SendCap \in Nat

VARIABLES
  tomb,             \* none, alive, dying (killed) or dead (goroutine returned)
  field,            \* the controller's four tomb fields
  pc,               \* where each goroutine is
  owner,            \* the supervisor whose port and channels a loop was given
  watch,            \* tombs whose Dying or Dead channel a goroutine waits for
  leaving,          \* the supervisor has left its outer loop
  handle,           \* each supervisor's serial.Port: closed, good, or stale
  sendBuf,          \* each supervisor's sendChan
  chanField,        \* c.sendChan
  supervisorState, portState,
  plugged,          \* the transmitter is connected
  op,               \* the StartLink and StopLink calls
  wanted,           \* history: the link was started, and not stopped since
  overtaken         \* history: a start went ahead of a call still under way

goroutines == <<tomb, pc, watch>>
lifecycle  == <<field, owner, leaving, chanField, supervisorState, portState>>
calls      == <<op, wanted, overtaken>>
vars == <<tomb, field, pc, owner, watch, leaving, handle, sendBuf, chanField,
          supervisorState, portState, plugged, op, wanted, overtaken>>

-----------------------------------------------------------------------------
(* Tombs (gopkg.in/tomb.v2).                                               *)

Alive(t) == t # None /\ tomb[t] = "alive"
Killed(t) == IF tomb[t] = "alive" THEN "dying" ELSE tomb[t]
Dying(t) == tomb[t] \in {"dying", "dead"}

Live(g) == pc[g] # "off"

\* The goroutine returns: its tomb dies with it.
Return(g) ==
  /\ tomb' = [tomb EXCEPT ![g] = "dead"]
  /\ pc' = [pc EXCEPT ![g] = "off"]
  /\ watch' = [watch EXCEPT ![g] = {}]

\* A send loop takes from this supervisor's channel.
Read(s) == \E g \in Sends : Live(g) /\ owner[g] = s

\* Nothing can tell a new goroutine of this name from a fresh one.
Free(g) ==
  /\ pc[g] = "off" /\ tomb[g] \in {"none", "dead"}
  /\ \A h \in Loops : g \notin watch[h]
  /\ \A o \in Operators : op[o].sup # g
  /\ chanField # g
  /\ \A h \in Loops \ Sups : pc[h] # "off" => owner[h] # g

Unused(pool) == {g \in pool : Free(g)}

Init ==
  /\ tomb = [g \in Loops |-> "none"]
  /\ field = [sup |-> None, port |-> None, send |-> None, recv |-> None]
  /\ pc = [g \in Loops |-> "off"]
  /\ owner = [g \in Loops \ Sups |-> None]
  /\ watch = [g \in Loops |-> {}]
  /\ leaving = [s \in Sups |-> FALSE]
  /\ handle = [s \in Sups |-> "closed"]
  /\ sendBuf = [s \in Sups |-> <<>>]
  /\ chanField = None
  /\ supervisorState = "inactive" /\ portState = "unknown"
  /\ plugged = TRUE
  /\ op = [o \in Operators |-> [at |-> "idle", sup |-> None]]
  /\ wanted = FALSE /\ overtaken = FALSE

-----------------------------------------------------------------------------
(* StartLink and StopLink.                                                 *)

\* A call that is neither idle nor only about to return.
UnderWay(q) == \/ op[q].at = "starting"
               \/ op[q].at = "stopping" /\ tomb[op[q].sup] # "dead"

\* StartSupervisor's check and its creation of the tomb are two steps: two
\* calls may pass the check together, and one passes it while another waits for
\* a supervisor that it has killed.
StartCheck(o) ==
  /\ op[o].at = "idle" /\ ~Alive(field.sup)
  /\ op' = [op EXCEPT ![o].at = "starting"]
  /\ overtaken' = (overtaken \/ \E q \in Operators : UnderWay(q))
  /\ UNCHANGED <<goroutines, lifecycle, handle, sendBuf, plugged, wanted>>

StartCreate(o) ==
  /\ op[o].at = "starting" /\ Unused(Sups) # {}
  /\ LET s == CHOOSE g \in Unused(Sups) : TRUE
     IN /\ field' = [field EXCEPT !.sup = s]
        /\ tomb' = [tomb EXCEPT ![s] = "alive"]
        /\ pc' = [pc EXCEPT ![s] = "enter"]
        /\ leaving' = [leaving EXCEPT ![s] = FALSE]
  /\ op' = [op EXCEPT ![o].at = "idle"] /\ wanted' = TRUE
  /\ UNCHANGED <<owner, watch, handle, sendBuf, chanField, supervisorState, portState,
                 plugged, overtaken>>

\* StopSupervisor kills the tomb of the field and waits for its goroutine.
Stop(o) ==
  /\ op[o].at = "idle" /\ Alive(field.sup)
  /\ tomb' = [tomb EXCEPT ![field.sup] = "dying"]
  /\ op' = [op EXCEPT ![o] = [at |-> "stopping", sup |-> field.sup]]
  /\ wanted' = FALSE
  /\ UNCHANGED <<pc, watch, lifecycle, handle, sendBuf, plugged, overtaken>>

StopReturn(o) ==
  /\ op[o].at = "stopping" /\ tomb[op[o].sup] = "dead"
  /\ op' = [op EXCEPT ![o] = [at |-> "idle", sup |-> None]]
  /\ UNCHANGED <<goroutines, lifecycle, handle, sendBuf, plugged, wanted, overtaken>>

-----------------------------------------------------------------------------
(* SupervisorLoop.                                                         *)

Goto(s, label, watched) ==
  /\ pc' = [pc EXCEPT ![s] = label]
  /\ watch' = [watch EXCEPT ![s] = watched]

SupEnter(s) ==
  /\ pc[s] = "enter"
  /\ Goto(s, "portStart", {})
  /\ supervisorState' = "active"
  /\ chanField' = s /\ sendBuf' = [sendBuf EXCEPT ![s] = <<>>]
  /\ UNCHANGED <<tomb, field, owner, leaving, portState, handle, plugged, calls>>

\* A loop of a kind is started, unless the one of the field is alive: then
\* the error is printed and the supervisor goes on.
StartLoop(s, kind, pool, first, next) ==
  LET refused == Alive(field[kind])
      g == IF refused THEN field[kind] ELSE CHOOSE h \in Unused(pool) : TRUE
      fields == [field EXCEPT ![kind] = g]
      \* The select the supervisor enters next reads the fields.
      watched == CASE next = "portWait" -> {fields.port, fields.sup}
                   [] next = "run" -> {fields.send, fields.recv, fields.sup}
                   [] OTHER -> {}
  IN /\ refused \/ Unused(pool) # {}
     /\ field' = fields
     /\ IF refused
        THEN Goto(s, next, watched) /\ UNCHANGED <<tomb, owner>>
        ELSE /\ tomb' = [tomb EXCEPT ![g] = "alive"]
             /\ owner' = [owner EXCEPT ![g] = s]
             /\ pc' = [pc EXCEPT ![g] = first, ![s] = next]
             /\ watch' = [watch EXCEPT
                  ![g] = IF kind = "port" THEN {} ELSE {g}, ![s] = watched]
     /\ UNCHANGED <<leaving, chanField, supervisorState, handle, sendBuf,
                    plugged, calls>>

SupStartPort(s) ==
  /\ pc[s] = "portStart" /\ portState' = "disconnected"
  /\ StartLoop(s, "port", Ports, "open", "portWait")
SupStartSend(s) ==
  /\ pc[s] = "sendStart" /\ UNCHANGED portState
  /\ StartLoop(s, "send", Sends, "run", "recvStart")
SupStartRecv(s) ==
  /\ pc[s] = "recvStart" /\ UNCHANGED portState
  /\ StartLoop(s, "recv", Recvs, "run", "run")

\* The port loop's event: an unbuffered channel, so both sides move at once.
\* The port loop returns later, and its tomb is alive until then.
PortEvent(s, p) ==
  /\ pc[s] = "portWait" /\ pc[p] = "send" /\ owner[p] = s
  /\ pc' = [pc EXCEPT ![p] = "return", ![s] = "sendStart"]
  /\ watch' = [watch EXCEPT ![s] = {}]
  /\ portState' = "connected"
  /\ UNCHANGED <<tomb, field, owner, leaving, chanField, supervisorState, handle,
                 sendBuf, plugged, calls>>

\* The supervisor leaves its outer loop: from the wait for the port it kills
\* the port loop, re-reading the field, and does not wait for it.
SupDying(s) ==
  /\ pc[s] \in {"portWait", "run"}
  /\ \E t \in watch[s] \cap Sups : Dying(t)
  /\ tomb' = IF pc[s] = "portWait"
             THEN [tomb EXCEPT ![field.port] = Killed(field.port)] ELSE tomb
  /\ Goto(s, "stopRecv", {})
  /\ leaving' = [leaving EXCEPT ![s] = TRUE]
  /\ UNCHANGED <<field, owner, chanField, supervisorState, portState, handle,
                 sendBuf, plugged, calls>>

\* A slip: the port is closed first, and the loops are stopped by the next
\* reconnect.
SupLoopExitedCloses(s) ==
  /\ pc[s] \in {"portWait", "run"}
  /\ \E t \in watch[s] \ Sups : Dying(t)
  /\ Goto(s, "close", {})
  /\ leaving' = [leaving EXCEPT ![s] = (pc[s] = "portWait")]
  /\ UNCHANGED <<tomb, field, owner, chanField, supervisorState, portState,
                 handle, sendBuf, plugged, calls>>

\* A loop exited.  A dead send or receive loop makes the supervisor reconnect,
\* a dead port loop ends it: also the one of the connection before, if that had
\* not returned when StartPortLoop found it alive.
SupLoopExited(s) ==
  /\ pc[s] \in {"portWait", "run"}
  /\ \E t \in watch[s] \ Sups : Dying(t)
  /\ Goto(s, "stopRecv", {})
  /\ leaving' = [leaving EXCEPT ![s] = (pc[s] = "portWait")]
  /\ UNCHANGED <<tomb, field, owner, chanField, supervisorState, portState,
                 handle, sendBuf, plugged, calls>>

\* A slip: the loop is killed and not waited for.
StopLoopAtOnce(s, from, kind, waiting, next) ==
  /\ pc[s] = from
  /\ tomb' = IF Alive(field[kind])
             THEN [tomb EXCEPT ![field[kind]] = "dying"] ELSE tomb
  /\ Goto(s, next, {})
  /\ UNCHANGED <<lifecycle, handle, sendBuf, plugged, calls>>

\* StopRecvLoop and StopSendLoop: nothing to do unless the loop of the field
\* is alive; otherwise kill it and wait for its goroutine.
StopLoop(s, from, kind, waiting, next) ==
  /\ pc[s] = from
  /\ IF Alive(field[kind])
     THEN /\ tomb' = [tomb EXCEPT ![field[kind]] = "dying"]
          /\ Goto(s, waiting, {field[kind]})
     ELSE Goto(s, next, {}) /\ UNCHANGED tomb
  /\ UNCHANGED <<lifecycle, handle, sendBuf, plugged, calls>>

WaitLoop(s, waiting, next) ==
  /\ pc[s] = waiting /\ \A t \in watch[s] : tomb[t] = "dead"
  /\ Goto(s, next, {})
  /\ UNCHANGED <<tomb, lifecycle, handle, sendBuf, plugged, calls>>

SupStopRecv(s) == \/ StopLoop(s, "stopRecv", "recv", "waitRecv", "stopSend")
                  \/ WaitLoop(s, "waitRecv", "stopSend")
SupStopSend(s) == \/ StopLoop(s, "stopSend", "send", "waitSend", "close")
                  \/ WaitLoop(s, "waitSend", "close")

SupClose(s) ==
  /\ pc[s] = "close"
  /\ handle' = [handle EXCEPT ![s] = "closed"]
  /\ Goto(s, IF leaving[s] THEN "exit" ELSE "portStart", {})
  /\ UNCHANGED <<tomb, lifecycle, sendBuf, plugged, calls>>

\* The channel goes with the supervisor that made it: what is left in it, and
\* what a request would still put there, nobody will read.
SupExit(s) ==
  /\ pc[s] = "exit"
  /\ supervisorState' = "inactive" /\ portState' = "unknown"
  /\ Return(s)
  /\ sendBuf' = [sendBuf EXCEPT ![s] = IF Read(s) THEN @ ELSE <<>>]
  /\ UNCHANGED <<field, owner, leaving, chanField, handle, plugged, calls>>

Supervisor(s) ==
  \/ SupEnter(s)    \/ SupStartPort(s) \/ SupStartSend(s) \/ SupStartRecv(s)
  \/ SupStopRecv(s) \/ SupStopSend(s)  \/ SupClose(s)     \/ SupExit(s)
  \/ SupLoopExited(s) \/ \E p \in Ports : PortEvent(s, p)

-----------------------------------------------------------------------------
(* PortLoop.                                                               *)

\* serial.Open takes the device exclusively.
CanOpen == plugged /\ \A s \in Sups : handle[s] # "good"

\* The first attempt, and every tick of the backoff.  A failure enters the
\* select, which reads the field again.
PortOpen(p) ==
  /\ pc[p] \in {"open", "backoff"}
  /\ IF CanOpen
     THEN /\ handle' = [handle EXCEPT ![owner[p]] = "good"]
          /\ Goto(p, "send", {})
     ELSE /\ Goto(p, "backoff", {field.port})
          /\ UNCHANGED handle
  /\ UNCHANGED <<tomb, lifecycle, sendBuf, plugged, calls>>

PortDying(p) ==
  /\ pc[p] = "backoff" /\ \E t \in watch[p] : Dying(t)
  /\ Return(p)
  /\ UNCHANGED <<lifecycle, handle, sendBuf, plugged, calls>>

PortReturn(p) ==
  /\ pc[p] = "return"
  /\ Return(p)
  /\ UNCHANGED <<lifecycle, handle, sendBuf, plugged, calls>>

-----------------------------------------------------------------------------
(* SendLoop.  A write fails when the device behind the handle is gone.     *)

SendExit(g) ==
  /\ Return(g)
  /\ UNCHANGED <<lifecycle, handle, plugged, calls>>

\* What the loop did before the fork: a failed model-id write is counted only.
SendTakeCounts(g) ==
  /\ pc[g] = "run" /\ sendBuf[owner[g]] # <<>>
  /\ sendBuf' = [sendBuf EXCEPT ![owner[g]] = Tail(@)]
  /\ Goto(g, "run", {field.send})
  /\ UNCHANGED <<tomb, lifecycle, handle, plugged, calls>>

\* A failed model-id write ends the loop; any other failed control frame, and
\* a rate sync, which writes nothing, leaves it running.
SendTake(g) ==
  LET buf == sendBuf[owner[g]]
  IN /\ pc[g] = "run" /\ buf # <<>>
     /\ sendBuf' = [sendBuf EXCEPT ![owner[g]] = Tail(buf)]
     /\ IF Head(buf) = "modelId" /\ handle[owner[g]] # "good"
        THEN SendExit(g)
        ELSE /\ Goto(g, "run", {field.send})
             /\ UNCHANGED <<tomb, lifecycle, handle, plugged, calls>>

\* The tick: a channel frame, when one is due, on a port that is gone.
SendChannels(g) ==
  /\ pc[g] = "run" /\ handle[owner[g]] # "good"
  /\ SendExit(g) /\ UNCHANGED sendBuf

SendDying(g) ==
  /\ pc[g] = "run" /\ \E t \in watch[g] : Dying(t)
  /\ SendExit(g) /\ UNCHANGED sendBuf

-----------------------------------------------------------------------------
(* recvLoopClocked.  "run" is its select and its read: both leave when the  *)
(* tomb is dying.  "modelId" and "other" are its two guarded sends: what is  *)
(* not a model id, a rate sync or a request, leaves the send loop running.   *)

\* No telemetry for a while, or a sync frame read from a port that works.
RecvRequest(g) ==
  /\ pc[g] = "run"
  /\ \E value \in {"modelId", "other"} :
       /\ value = "other" => handle[owner[g]] = "good"
       /\ Goto(g, value, {field.recv})
  /\ UNCHANGED <<tomb, lifecycle, handle, sendBuf, plugged, calls>>

\* A slip: a queue instead of a channel with room for a few.
PushAlways(s, value) ==
  sendBuf' = [sendBuf EXCEPT ![s] = IF Len(@) > SendCap THEN @ ELSE Append(@, value)]

Push(s, value) ==
  /\ Len(sendBuf[s]) < SendCap
  /\ sendBuf' = [sendBuf EXCEPT ![s] = Append(@, value)]

RecvPush(g) ==
  /\ pc[g] \in {"modelId", "other"}
  /\ Push(owner[g], pc[g])
  /\ Goto(g, "run", {field.recv})
  /\ UNCHANGED <<tomb, lifecycle, handle, plugged, calls>>


RecvDying(g) ==
  /\ pc[g] \in {"run", "modelId", "other"} /\ \E t \in watch[g] : Dying(t)
  /\ Return(g)
  /\ UNCHANGED <<lifecycle, handle, sendBuf, plugged, calls>>

-----------------------------------------------------------------------------
(* A CRSF parameter request: a bare send on the channel it found in          *)
(* c.sendChan, which may be that of a link stopped since.                    *)

RequestSend(s) ==
  /\ pc[s] # "enter" /\ (Live(s) \/ Read(s))
  /\ Push(s, "other")
  /\ UNCHANGED <<goroutines, lifecycle, handle, plugged, calls>>

-----------------------------------------------------------------------------
(* The transmitter.                                                        *)

Unplug ==
  /\ plugged /\ plugged' = FALSE
  /\ handle' = [s \in Sups |-> IF handle[s] = "good" THEN "stale" ELSE handle[s]]
  /\ UNCHANGED <<goroutines, lifecycle, sendBuf, calls>>

Plug ==
  /\ ~plugged /\ plugged' = TRUE
  /\ UNCHANGED <<goroutines, lifecycle, handle, sendBuf, calls>>

-----------------------------------------------------------------------------
Next ==
  \/ \E o \in Operators :
       StartCheck(o) \/ StartCreate(o) \/ Stop(o) \/ StopReturn(o)
  \/ \E s \in Sups : Supervisor(s) \/ SupDying(s) \/ RequestSend(s)
  \/ \E p \in Ports : PortOpen(p) \/ PortDying(p) \/ PortReturn(p)
  \/ \E g \in Sends : SendTake(g) \/ SendChannels(g) \/ SendDying(g)
  \/ \E g \in Recvs : RecvRequest(g) \/ RecvPush(g) \/ RecvDying(g)
  \/ Unplug \/ Plug

LinkSpec == Init /\ [][Next]_vars

\* Goroutines that can run do run, and Go's select, which picks at random
\* among the cases that are ready, does not avoid one of them for ever.
\* Nobody owes a stop, a start, a plug or a telemetry frame; the keepalive of
\* a silent port is owed.
Keepalive(g) == RecvRequest(g) /\ pc'[g] = "modelId"

LinkFairness ==
  /\ WF_vars(\E o \in Operators : StartCreate(o) \/ StopReturn(o))
  /\ WF_vars(\E s \in Sups : Supervisor(s)) /\ SF_vars(\E s \in Sups : SupDying(s))
  /\ WF_vars(\E p \in Ports : PortOpen(p) \/ PortDying(p) \/ PortReturn(p))
  /\ WF_vars(\E g \in Sends : SendTake(g)) /\ WF_vars(\E g \in Sends : SendDying(g))
  /\ WF_vars(\E g \in Recvs : Keepalive(g)) /\ SF_vars(\E g \in Recvs : RecvPush(g))
  /\ WF_vars(\E g \in Recvs : RecvDying(g))

FairLinkSpec == LinkSpec /\ LinkFairness

-----------------------------------------------------------------------------
(* Properties.                                                             *)

Labels == {"off", "enter", "portStart", "portWait", "sendStart", "recvStart",
           "run", "stopRecv", "waitRecv", "stopSend", "waitSend", "close",
           "exit", "open", "backoff", "send", "return", "modelId", "other"}

\* Types.
LinkTypeOK ==
  /\ tomb \in [Loops -> {"none", "alive", "dying", "dead"}]
  /\ field \in [sup : Sups \cup {None}, port : Ports \cup {None},
                send : Sends \cup {None}, recv : Recvs \cup {None}]
  /\ pc \in [Loops -> Labels]
  /\ owner \in [Loops \ Sups -> Sups \cup {None}]
  /\ watch \in [Loops -> SUBSET Loops]
  /\ leaving \in [Sups -> BOOLEAN]
  /\ handle \in [Sups -> {"closed", "good", "stale"}]
  /\ sendBuf \in [Sups -> Seq({"modelId", "other"})]
  /\ \A s \in Sups : Len(sendBuf[s]) <= SendCap
  /\ chanField \in Sups \cup {None}
  /\ supervisorState \in {"active", "inactive"}
  /\ portState \in {"unknown", "disconnected", "connected"}
  /\ plugged \in BOOLEAN
  /\ op \in [Operators -> [at : {"idle", "starting", "stopping"},
                           sup : Sups \cup {None}]]
  /\ wanted \in BOOLEAN /\ overtaken \in BOOLEAN

Running(pool) == {g \in pool : Live(g)}

\* As long as no start has overtaken another call, at most one supervisor, send
\* loop and receive loop run, over every reconnect, stop and start: two send
\* loops would interleave their frames on one transmitter, and the controller's
\* fields can name only one of each.
SingleWriter ==
  ~overtaken =>
    \A pool \in {Sups, Sends, Recvs} : \A g, h \in Running(pool) : g = h

\* Under the same condition the handle is closed only once both loops that use
\* it have returned: a loop of a closed port would report an error for a port
\* that works, and reconnect for nothing.
ClosedOnlyAfterLoops ==
  ~overtaken =>
    \A g \in Running(Sends \cup Recvs) : handle[owner[g]] # "closed"


\* A port loop of a supervisor that is gone, blocked on an event nobody will
\* take, with the port open.
Orphan(p) ==
  pc[p] = "send" /\ pc[owner[p]] = "off" /\ handle[owner[p]] = "good"

\* A link was started on a transmitter that stays plugged, and nobody stops it.
Wanted == plugged /\ wanted /\ ~overtaken
Transmitting == \E g \in Running(Sends) : handle[owner[g]] = "good"

\* The supervisor is gone though nobody stopped it.
Ended == wanted /\ ~Live(field.sup)

\* A started link that nobody stops comes up, again and again, on a
\* transmitter that stays plugged, unless an orphan holds the port, or the link
\* has ended unasked: a supervisor that comes round before the port loop of the
\* connection before has returned is refused a new one, and leaves with the old.
Reconnects ==
  <>[]Wanted => \/ <>[](\E p \in Ports : Orphan(p))
                \/ <>[]Ended
                \/ <>[]Transmitting

\* StopLink stops the link: once no supervisor runs, the port is given back.
StopReleasesPort ==
  <>[](Running(Sups) = {}) => <>[](\A s \in Sups : handle[s] # "good")
=============================================================================
