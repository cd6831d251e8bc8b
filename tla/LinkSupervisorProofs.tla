------------------------ MODULE LinkSupervisorProofs ------------------------
(***************************************************************************)
(* Proofs about LinkSupervisor, for any operators, any pools of goroutines *)
(* and any room in the send channel: types; and, until a start overtakes   *)
(* another call, that one loop of a kind runs and that the port is closed  *)
(* after its loops.                                                        *)
(***************************************************************************)
EXTENDS LinkSupervisor, SequenceTheorems, TLAPS

-----------------------------------------------------------------------------
(* Types, whatever the order of the calls.                                 *)

\* A goroutine that runs was stored in its field, and no field is emptied again.
Started ==
  /\ \A s \in Sups : Live(s) => field.sup # None
  /\ \A p \in Ports : Live(p) => field.port # None
  /\ \A g \in Sends : Live(g) => field.send # None
  /\ \A g \in Recvs : Live(g) => field.recv # None
  /\ \A g \in Loops \ Sups : Live(g) => owner[g] # None
  /\ \A s \in Sups : pc[s] = "recvStart" => field.send # None

TypeInv == LinkTypeOK /\ Started

\* What the channel holds.
LEMMA Buffered ==
  ASSUME LinkTypeOK, NEW s \in Sups
  PROVE  /\ sendBuf[s] # <<>> =>
              /\ [sendBuf EXCEPT ![s] = Tail(sendBuf[s])] \in [Sups -> Seq({"modelId", "other"})]
              /\ \A r \in Sups : Len([sendBuf EXCEPT ![s] = Tail(sendBuf[s])][r]) <= SendCap
         /\ \A v \in {"modelId", "other"} : Len(sendBuf[s]) < SendCap =>
              /\ [sendBuf EXCEPT ![s] = Append(@, v)] \in [Sups -> Seq({"modelId", "other"})]
              /\ \A r \in Sups : Len([sendBuf EXCEPT ![s] = Append(@, v)][r]) <= SendCap
         /\ /\ [sendBuf EXCEPT ![s] = <<>>] \in [Sups -> Seq({"modelId", "other"})]
            /\ \A r \in Sups : Len([sendBuf EXCEPT ![s] = <<>>][r]) <= SendCap
<1> DEFINE frames == {"modelId", "other"}
<1>1. sendBuf \in [Sups -> Seq(frames)] /\ \A r \in Sups : Len(sendBuf[r]) <= SendCap
  BY DEF LinkTypeOK
<1>2. SendCap \in Nat /\ sendBuf[s] \in Seq(frames)
  BY <1>1, LinkAssumption
<1>3. ASSUME sendBuf[s] # <<>>
      PROVE  Tail(sendBuf[s]) \in Seq(frames) /\ Len(Tail(sendBuf[s])) <= SendCap
  BY <1>1, <1>2, <1>3, HeadTailProperties
<1>4. ASSUME NEW v \in frames, Len(sendBuf[s]) < SendCap
      PROVE  Append(sendBuf[s], v) \in Seq(frames) /\ Len(Append(sendBuf[s], v)) <= SendCap
  BY <1>2, <1>4, AppendProperties
<1>5. <<>> \in Seq(frames) /\ Len(<<>>) <= SendCap
  BY <1>2, EmptySeq
<1> HIDE DEF frames
<1>6. ASSUME NEW q \in Seq(frames), Len(q) <= SendCap
      PROVE  /\ [sendBuf EXCEPT ![s] = q] \in [Sups -> Seq(frames)]
             /\ \A r \in Sups : Len([sendBuf EXCEPT ![s] = q][r]) <= SendCap
  BY <1>1, <1>6
<1> QED
  BY <1>3, <1>4, <1>5, <1>6 DEF frames

LEMMA OpType ==
  ASSUME LinkTypeOK, NEW o \in Operators, NEW a \in {"idle", "starting", "stopping"}
  PROVE  [op EXCEPT ![o].at = a]
           \in [Operators -> [at : {"idle", "starting", "stopping"}, sup : Sups \cup {None}]]
<1>1. [op[o] EXCEPT !.at = a] \in [at : {"idle", "starting", "stopping"}, sup : Sups \cup {None}]
  BY DEF LinkTypeOK
<1> QED
  BY <1>1 DEF LinkTypeOK

LEMMA OperatorTypes ==
  ASSUME TypeInv, NEW o \in Operators,
         StartCheck(o) \/ StartCreate(o) \/ Stop(o) \/ StopReturn(o)
  PROVE  TypeInv'
<1> USE LinkAssumption DEF TypeInv, Loops, Live, goroutines, lifecycle
<1>1. CASE StartCheck(o)
  <2>1. op' \in [Operators -> [at : {"idle", "starting", "stopping"}, sup : Sups \cup {None}]]
        /\ overtaken' \in BOOLEAN
    BY <1>1, OpType DEF StartCheck, LinkTypeOK
  <2> QED
    BY <1>1, <2>1 DEF StartCheck, LinkTypeOK, Started
<1>2. CASE StartCreate(o)
  <2>1. PICK s \in Sups : /\ field' = [field EXCEPT !.sup = s]
                          /\ tomb' = [tomb EXCEPT ![s] = "alive"]
                          /\ pc' = [pc EXCEPT ![s] = "enter"]
                          /\ leaving' = [leaving EXCEPT ![s] = FALSE]
    BY <1>2 DEF StartCreate, Unused
  <2>2. /\ UNCHANGED <<owner, watch, handle, sendBuf, chanField, supervisorState, portState,
                       plugged, overtaken>>
        /\ op' = [op EXCEPT ![o].at = "idle"] /\ wanted' = TRUE
    BY <1>2 DEF StartCreate
  <2>3. op' \in [Operators -> [at : {"idle", "starting", "stopping"}, sup : Sups \cup {None}]]
    BY <2>2, OpType DEF LinkTypeOK
  <2>4. /\ field' \in [sup : Sups \cup {None}, port : Ports \cup {None},
                       send : Sends \cup {None}, recv : Recvs \cup {None}]
        /\ tomb' \in [Loops -> {"none", "alive", "dying", "dead"}]
        /\ pc' \in [Loops -> Labels] /\ leaving' \in [Sups -> BOOLEAN]
    BY <2>1 DEF LinkTypeOK, Labels
  <2>5. LinkTypeOK'
    BY <2>2, <2>3, <2>4 DEF LinkTypeOK
  <2>6. field'.sup # None /\ field'.port = field.port /\ field'.send = field.send
        /\ field'.recv = field.recv
    BY <2>1 DEF LinkTypeOK
  <2>7. Started'
    BY <2>1, <2>2, <2>6 DEF Started, LinkTypeOK
  <2> QED
    BY <2>5, <2>7
<1>3. CASE Stop(o)
  <2>1. field.sup \in Sups
    BY <1>3 DEF Stop, Alive, LinkTypeOK
  <2>2. LinkTypeOK'
    BY <1>3, <2>1 DEF Stop, LinkTypeOK
  <2>3. Started'
    BY <1>3 DEF Stop, Started
  <2> QED
    BY <2>2, <2>3
<1>4. CASE StopReturn(o)
  <2>1. LinkTypeOK'
    BY <1>4 DEF StopReturn, LinkTypeOK
  <2>2. Started'
    BY <1>4 DEF StopReturn, Started
  <2> QED
    BY <2>1, <2>2
<1> QED
  BY <1>1, <1>2, <1>3, <1>4

LEMMA StartPortTypes ==
  ASSUME TypeInv, NEW s \in Sups, SupStartPort(s) PROVE TypeInv'
<1> LinkTypeOK /\ Started
  BY DEF TypeInv
<1>1. /\ pc[s] = "portStart" /\ portState' = "disconnected"
      /\ UNCHANGED <<leaving, chanField, supervisorState, handle, sendBuf, plugged, calls>>
  BY DEF SupStartPort, StartLoop
<1>2. Live(s) /\ s \in Loops
  BY <1>1 DEF Live, Loops
<1>3. PICK g \in Ports :
        /\ field' = [field EXCEPT !.port = g]
        /\ \/ /\ pc' = [pc EXCEPT ![s] = "portWait"] /\ UNCHANGED <<tomb, owner>>
              /\ watch' = [watch EXCEPT ![s] = {g, field.sup}]
           \/ /\ tomb' = [tomb EXCEPT ![g] = "alive"] /\ owner' = [owner EXCEPT ![g] = s]
              /\ pc' = [pc EXCEPT ![g] = "open", ![s] = "portWait"]
              /\ watch' = [watch EXCEPT ![g] = {}, ![s] = {g, field.sup}]
  <2>1. CASE Alive(field.port)
    <3>1. field.port \in Ports
      BY <2>1 DEF Alive, LinkTypeOK
    <3>2. /\ field' = [field EXCEPT !.port = field.port] /\ pc' = [pc EXCEPT ![s] = "portWait"]
          /\ UNCHANGED <<tomb, owner>>
      BY <2>1 DEF SupStartPort, StartLoop, Goto
    <3>3. watch' = [watch EXCEPT ![s] = {field.port, field.sup}]
      BY <2>1 DEF SupStartPort, StartLoop, Goto, LinkTypeOK
    <3> QED
      BY <3>1, <3>2, <3>3
  <2>2. CASE ~Alive(field.port)
    <3> DEFINE g == CHOOSE h \in Unused(Ports) : TRUE
    <3>1. g \in Ports
      BY <2>2 DEF SupStartPort, StartLoop, Unused
    <3>2. /\ field' = [field EXCEPT !.port = g]
          /\ tomb' = [tomb EXCEPT ![g] = "alive"] /\ owner' = [owner EXCEPT ![g] = s]
          /\ pc' = [pc EXCEPT ![g] = "open", ![s] = "portWait"]
      BY <2>2 DEF SupStartPort, StartLoop
    <3>3. watch' = [watch EXCEPT ![g] = {}, ![s] = {g, field.sup}]
      BY <2>2, <3>1 DEF SupStartPort, StartLoop, LinkTypeOK
    <3> HIDE DEF g
    <3> QED
      BY <3>1, <3>2, <3>3
  <2> QED
    BY <2>1, <2>2
<1>4. /\ tomb' \in [Loops -> {"none", "alive", "dying", "dead"}]
      /\ owner' \in [Loops \ Sups -> Sups \cup {None}] /\ pc' \in [Loops -> Labels]
      /\ \A h \in Loops : Live(h)' => Live(h) \/ h = g
      /\ \A h \in Loops \ Sups : owner'[h] = owner[h] \/ owner'[h] = s
      /\ Live(g)' /\ ~Live(g) => owner'[g] = s
      /\ \A r \in Sups : pc'[r] = "recvStart" => pc[r] = "recvStart" \/ "portWait" = "recvStart"
  <2>1. g \in Loops \ Sups /\ "open" \in Labels /\ "portWait" \in Labels
    BY LinkAssumption DEF Labels, Loops
  <2>2. CASE UNCHANGED <<tomb, owner>> /\ pc' = [pc EXCEPT ![s] = "portWait"]
    BY <1>2, <2>1, <2>2 DEF LinkTypeOK, Live
  <2>3. CASE /\ tomb' = [tomb EXCEPT ![g] = "alive"] /\ owner' = [owner EXCEPT ![g] = s]
             /\ pc' = [pc EXCEPT ![g] = "open", ![s] = "portWait"]
    <3>1. /\ tomb' \in [Loops -> {"none", "alive", "dying", "dead"}]
          /\ owner' \in [Loops \ Sups -> Sups \cup {None}] /\ pc' \in [Loops -> Labels]
      BY <2>1, <2>3 DEF LinkTypeOK
    <3>2. /\ \A h \in Loops : pc'[h] = IF h = s THEN "portWait" ELSE IF h = g THEN "open" ELSE pc[h]
          /\ \A h \in Loops \ Sups : owner'[h] = IF h = g THEN s ELSE owner[h]
      BY <1>2, <2>1, <2>3 DEF LinkTypeOK
    <3>3. \A r \in Sups : r \in Loops /\ r # g
      BY <2>1 DEF Loops
    <3> QED
      BY <1>2, <2>1, <3>1, <3>2, <3>3 DEF Live
  <2> QED
    BY <1>3, <2>2, <2>3
<1>5. {g, field.sup} \subseteq Loops /\ {} \subseteq Loops
  BY <1>1, <1>2, LinkAssumption DEF Started, LinkTypeOK, Loops
<1>6. LinkTypeOK'
  <2>1. field' \in [sup : Sups \cup {None}, port : Ports \cup {None},
                    send : Sends \cup {None}, recv : Recvs \cup {None}]
    BY <1>3 DEF LinkTypeOK
  <2>2. watch' \in [Loops -> SUBSET Loops]
    <3> DEFINE w == {}  v == {g, field.sup}
    <3>1. w \in SUBSET Loops /\ v \in SUBSET Loops
      BY <1>5
    <3>2. watch' = [watch EXCEPT ![s] = v] \/ watch' = [watch EXCEPT ![g] = w, ![s] = v]
      BY <1>3
    <3> HIDE DEF w, v
    <3> QED
      BY <3>1, <3>2 DEF LinkTypeOK
  <2> QED
    BY <1>1, <1>4, <2>1, <2>2 DEF LinkTypeOK, calls
<1>7. Started'
  <2>1. /\ g # None /\ s # None
        /\ \A k \in {"sup", "port", "send", "recv"} : field'[k] = field[k] \/ field'[k] = g
        /\ field'.sup = field.sup /\ field'.port = g
    BY <1>3, LinkAssumption DEF LinkTypeOK, Loops
  <2> QED
    <3>1. \A h \in Loops : Live(h)' => Live(h) \/ h = g
      BY <1>4
    <3>2. \A h \in Loops \ Sups : Live(h)' => owner'[h] # None
      BY <1>4, <2>1, <3>1 DEF Started
    <3>3. \A r \in Sups : pc'[r] = "recvStart" => field'.send # None
      BY <1>4, <2>1 DEF Started
    <3>5. \A r \in Sups : Live(r)' => field'.sup # None
      BY <2>1, <3>1, LinkAssumption DEF Started, Loops
    <3>6. \A h \in Ports : Live(h)' => field'.port # None
      BY <2>1, <3>1, LinkAssumption DEF Started, Loops
    <3>7. \A h \in Sends : Live(h)' => field'.send # None
      BY <2>1, <3>1, LinkAssumption DEF Started, Loops
    <3>8. \A h \in Recvs : Live(h)' => field'.recv # None
      BY <2>1, <3>1, LinkAssumption DEF Started, Loops
    <3> QED
      BY <3>2, <3>3, <3>5, <3>6, <3>7, <3>8 DEF Started
<1> QED
  BY <1>6, <1>7 DEF TypeInv

LEMMA StartSendTypes ==
  ASSUME TypeInv, NEW s \in Sups, SupStartSend(s) PROVE TypeInv'
<1> LinkTypeOK /\ Started
  BY DEF TypeInv
<1>1. /\ pc[s] = "sendStart"
      /\ UNCHANGED <<leaving, chanField, supervisorState, portState, handle, sendBuf, plugged, calls>>
  BY DEF SupStartSend, StartLoop
<1>2. Live(s) /\ s \in Loops
  BY <1>1 DEF Live, Loops
<1>3. PICK g \in Sends :
        /\ field' = [field EXCEPT !.send = g]
        /\ \/ /\ pc' = [pc EXCEPT ![s] = "recvStart"] /\ UNCHANGED <<tomb, owner>>
              /\ watch' = [watch EXCEPT ![s] = {}]
           \/ /\ tomb' = [tomb EXCEPT ![g] = "alive"] /\ owner' = [owner EXCEPT ![g] = s]
              /\ pc' = [pc EXCEPT ![g] = "run", ![s] = "recvStart"]
              /\ watch' = [watch EXCEPT ![g] = {g}, ![s] = {}]
  <2>1. CASE Alive(field.send)
    <3>1. field.send \in Sends
      BY <2>1 DEF Alive, LinkTypeOK
    <3>2. /\ field' = [field EXCEPT !.send = field.send] /\ pc' = [pc EXCEPT ![s] = "recvStart"]
          /\ UNCHANGED <<tomb, owner>>
      BY <2>1 DEF SupStartSend, StartLoop, Goto
    <3>3. watch' = [watch EXCEPT ![s] = {}]
      BY <2>1 DEF SupStartSend, StartLoop, Goto, LinkTypeOK
    <3> QED
      BY <3>1, <3>2, <3>3
  <2>2. CASE ~Alive(field.send)
    <3> DEFINE g == CHOOSE h \in Unused(Sends) : TRUE
    <3>1. g \in Sends
      BY <2>2 DEF SupStartSend, StartLoop, Unused
    <3>2. /\ field' = [field EXCEPT !.send = g]
          /\ tomb' = [tomb EXCEPT ![g] = "alive"] /\ owner' = [owner EXCEPT ![g] = s]
          /\ pc' = [pc EXCEPT ![g] = "run", ![s] = "recvStart"]
      BY <2>2 DEF SupStartSend, StartLoop
    <3>3. watch' = [watch EXCEPT ![g] = {g}, ![s] = {}]
      BY <2>2, <3>1 DEF SupStartSend, StartLoop, LinkTypeOK
    <3> HIDE DEF g
    <3> QED
      BY <3>1, <3>2, <3>3
  <2> QED
    BY <2>1, <2>2
<1>4. /\ tomb' \in [Loops -> {"none", "alive", "dying", "dead"}]
      /\ owner' \in [Loops \ Sups -> Sups \cup {None}] /\ pc' \in [Loops -> Labels]
      /\ \A h \in Loops : Live(h)' => Live(h) \/ h = g
      /\ \A h \in Loops \ Sups : owner'[h] = owner[h] \/ owner'[h] = s
      /\ Live(g)' /\ ~Live(g) => owner'[g] = s
      /\ \A r \in Sups : pc'[r] = "recvStart" => pc[r] = "recvStart" \/ "recvStart" = "recvStart"
  <2>1. g \in Loops \ Sups /\ "run" \in Labels /\ "recvStart" \in Labels
    BY LinkAssumption DEF Labels, Loops
  <2>2. CASE UNCHANGED <<tomb, owner>> /\ pc' = [pc EXCEPT ![s] = "recvStart"]
    BY <1>2, <2>1, <2>2 DEF LinkTypeOK, Live
  <2>3. CASE /\ tomb' = [tomb EXCEPT ![g] = "alive"] /\ owner' = [owner EXCEPT ![g] = s]
             /\ pc' = [pc EXCEPT ![g] = "run", ![s] = "recvStart"]
    <3>1. /\ tomb' \in [Loops -> {"none", "alive", "dying", "dead"}]
          /\ owner' \in [Loops \ Sups -> Sups \cup {None}] /\ pc' \in [Loops -> Labels]
      BY <2>1, <2>3 DEF LinkTypeOK
    <3>2. /\ \A h \in Loops : pc'[h] = IF h = s THEN "recvStart" ELSE IF h = g THEN "run" ELSE pc[h]
          /\ \A h \in Loops \ Sups : owner'[h] = IF h = g THEN s ELSE owner[h]
      BY <1>2, <2>1, <2>3 DEF LinkTypeOK
    <3>3. \A r \in Sups : r \in Loops /\ r # g
      BY <2>1 DEF Loops
    <3> QED
      BY <1>2, <2>1, <3>1, <3>2, <3>3 DEF Live
  <2> QED
    BY <1>3, <2>2, <2>3
<1>5. {} \subseteq Loops /\ {g} \subseteq Loops
  BY <1>1, <1>2, LinkAssumption DEF Started, LinkTypeOK, Loops
<1>6. LinkTypeOK'
  <2>1. field' \in [sup : Sups \cup {None}, port : Ports \cup {None},
                    send : Sends \cup {None}, recv : Recvs \cup {None}]
    BY <1>3 DEF LinkTypeOK
  <2>2. watch' \in [Loops -> SUBSET Loops]
    <3> DEFINE w == {g}  v == {}
    <3>1. w \in SUBSET Loops /\ v \in SUBSET Loops
      BY <1>5
    <3>2. watch' = [watch EXCEPT ![s] = v] \/ watch' = [watch EXCEPT ![g] = w, ![s] = v]
      BY <1>3
    <3> HIDE DEF w, v
    <3> QED
      BY <3>1, <3>2 DEF LinkTypeOK
  <2> QED
    BY <1>1, <1>4, <2>1, <2>2 DEF LinkTypeOK, calls
<1>7. Started'
  <2>1. /\ g # None /\ s # None
        /\ \A k \in {"sup", "port", "send", "recv"} : field'[k] = field[k] \/ field'[k] = g
        /\ field'.sup = field.sup /\ field'.send = g
    BY <1>3, LinkAssumption DEF LinkTypeOK, Loops
  <2> QED
    <3>1. \A h \in Loops : Live(h)' => Live(h) \/ h = g
      BY <1>4
    <3>2. \A h \in Loops \ Sups : Live(h)' => owner'[h] # None
      BY <1>4, <2>1, <3>1 DEF Started
    <3>3. \A r \in Sups : pc'[r] = "recvStart" => field'.send # None
      BY <1>4, <2>1 DEF Started
    <3>5. \A r \in Sups : Live(r)' => field'.sup # None
      BY <2>1, <3>1, LinkAssumption DEF Started, Loops
    <3>6. \A h \in Ports : Live(h)' => field'.port # None
      BY <2>1, <3>1, LinkAssumption DEF Started, Loops
    <3>7. \A h \in Sends : Live(h)' => field'.send # None
      BY <2>1, <3>1, LinkAssumption DEF Started, Loops
    <3>8. \A h \in Recvs : Live(h)' => field'.recv # None
      BY <2>1, <3>1, LinkAssumption DEF Started, Loops
    <3> QED
      BY <3>2, <3>3, <3>5, <3>6, <3>7, <3>8 DEF Started
<1> QED
  BY <1>6, <1>7 DEF TypeInv

LEMMA StartRecvTypes ==
  ASSUME TypeInv, NEW s \in Sups, SupStartRecv(s) PROVE TypeInv'
<1> LinkTypeOK /\ Started
  BY DEF TypeInv
<1>1. /\ pc[s] = "recvStart"
      /\ UNCHANGED <<leaving, chanField, supervisorState, portState, handle, sendBuf, plugged, calls>>
  BY DEF SupStartRecv, StartLoop
<1>2. Live(s) /\ s \in Loops
  BY <1>1 DEF Live, Loops
<1>3. PICK g \in Recvs :
        /\ field' = [field EXCEPT !.recv = g]
        /\ \/ /\ pc' = [pc EXCEPT ![s] = "run"] /\ UNCHANGED <<tomb, owner>>
              /\ watch' = [watch EXCEPT ![s] = {field.send, g, field.sup}]
           \/ /\ tomb' = [tomb EXCEPT ![g] = "alive"] /\ owner' = [owner EXCEPT ![g] = s]
              /\ pc' = [pc EXCEPT ![g] = "run", ![s] = "run"]
              /\ watch' = [watch EXCEPT ![g] = {g}, ![s] = {field.send, g, field.sup}]
  <2>1. CASE Alive(field.recv)
    <3>1. field.recv \in Recvs
      BY <2>1 DEF Alive, LinkTypeOK
    <3>2. /\ field' = [field EXCEPT !.recv = field.recv] /\ pc' = [pc EXCEPT ![s] = "run"]
          /\ UNCHANGED <<tomb, owner>>
      BY <2>1 DEF SupStartRecv, StartLoop, Goto
    <3>3. watch' = [watch EXCEPT ![s] = {field.send, field.recv, field.sup}]
      BY <2>1 DEF SupStartRecv, StartLoop, Goto, LinkTypeOK
    <3> QED
      BY <3>1, <3>2, <3>3
  <2>2. CASE ~Alive(field.recv)
    <3> DEFINE g == CHOOSE h \in Unused(Recvs) : TRUE
    <3>1. g \in Recvs
      BY <2>2 DEF SupStartRecv, StartLoop, Unused
    <3>2. /\ field' = [field EXCEPT !.recv = g]
          /\ tomb' = [tomb EXCEPT ![g] = "alive"] /\ owner' = [owner EXCEPT ![g] = s]
          /\ pc' = [pc EXCEPT ![g] = "run", ![s] = "run"]
      BY <2>2 DEF SupStartRecv, StartLoop
    <3>3. watch' = [watch EXCEPT ![g] = {g}, ![s] = {field.send, g, field.sup}]
      BY <2>2, <3>1 DEF SupStartRecv, StartLoop, LinkTypeOK
    <3> HIDE DEF g
    <3> QED
      BY <3>1, <3>2, <3>3
  <2> QED
    BY <2>1, <2>2
<1>4. /\ tomb' \in [Loops -> {"none", "alive", "dying", "dead"}]
      /\ owner' \in [Loops \ Sups -> Sups \cup {None}] /\ pc' \in [Loops -> Labels]
      /\ \A h \in Loops : Live(h)' => Live(h) \/ h = g
      /\ \A h \in Loops \ Sups : owner'[h] = owner[h] \/ owner'[h] = s
      /\ Live(g)' /\ ~Live(g) => owner'[g] = s
      /\ \A r \in Sups : pc'[r] = "recvStart" => pc[r] = "recvStart" \/ "run" = "recvStart"
  <2>1. g \in Loops \ Sups /\ "run" \in Labels /\ "run" \in Labels
    BY LinkAssumption DEF Labels, Loops
  <2>2. CASE UNCHANGED <<tomb, owner>> /\ pc' = [pc EXCEPT ![s] = "run"]
    BY <1>2, <2>1, <2>2 DEF LinkTypeOK, Live
  <2>3. CASE /\ tomb' = [tomb EXCEPT ![g] = "alive"] /\ owner' = [owner EXCEPT ![g] = s]
             /\ pc' = [pc EXCEPT ![g] = "run", ![s] = "run"]
    <3>1. /\ tomb' \in [Loops -> {"none", "alive", "dying", "dead"}]
          /\ owner' \in [Loops \ Sups -> Sups \cup {None}] /\ pc' \in [Loops -> Labels]
      BY <2>1, <2>3 DEF LinkTypeOK
    <3>2. /\ \A h \in Loops : pc'[h] = IF h = s THEN "run" ELSE IF h = g THEN "run" ELSE pc[h]
          /\ \A h \in Loops \ Sups : owner'[h] = IF h = g THEN s ELSE owner[h]
      BY <1>2, <2>1, <2>3 DEF LinkTypeOK
    <3>3. \A r \in Sups : r \in Loops /\ r # g
      BY <2>1 DEF Loops
    <3> QED
      BY <1>2, <2>1, <3>1, <3>2, <3>3 DEF Live
  <2> QED
    BY <1>3, <2>2, <2>3
<1>5. {field.send, g, field.sup} \subseteq Loops /\ {g} \subseteq Loops
  BY <1>1, <1>2, LinkAssumption DEF Started, LinkTypeOK, Loops
<1>6. LinkTypeOK'
  <2>1. field' \in [sup : Sups \cup {None}, port : Ports \cup {None},
                    send : Sends \cup {None}, recv : Recvs \cup {None}]
    BY <1>3 DEF LinkTypeOK
  <2>2. watch' \in [Loops -> SUBSET Loops]
    <3> DEFINE w == {g}  v == {field.send, g, field.sup}
    <3>1. w \in SUBSET Loops /\ v \in SUBSET Loops
      BY <1>5
    <3>2. watch' = [watch EXCEPT ![s] = v] \/ watch' = [watch EXCEPT ![g] = w, ![s] = v]
      BY <1>3
    <3> HIDE DEF w, v
    <3> QED
      BY <3>1, <3>2 DEF LinkTypeOK
  <2> QED
    BY <1>1, <1>4, <2>1, <2>2 DEF LinkTypeOK, calls
<1>7. Started'
  <2>1. /\ g # None /\ s # None
        /\ \A k \in {"sup", "port", "send", "recv"} : field'[k] = field[k] \/ field'[k] = g
        /\ field'.sup = field.sup /\ field'.recv = g
    BY <1>3, LinkAssumption DEF LinkTypeOK, Loops
  <2> QED
    <3>1. \A h \in Loops : Live(h)' => Live(h) \/ h = g
      BY <1>4
    <3>2. \A h \in Loops \ Sups : Live(h)' => owner'[h] # None
      BY <1>4, <2>1, <3>1 DEF Started
    <3>3. \A r \in Sups : pc'[r] = "recvStart" => field'.send # None
      BY <1>4, <2>1 DEF Started
    <3>5. \A r \in Sups : Live(r)' => field'.sup # None
      BY <2>1, <3>1, LinkAssumption DEF Started, Loops
    <3>6. \A h \in Ports : Live(h)' => field'.port # None
      BY <2>1, <3>1, LinkAssumption DEF Started, Loops
    <3>7. \A h \in Sends : Live(h)' => field'.send # None
      BY <2>1, <3>1, LinkAssumption DEF Started, Loops
    <3>8. \A h \in Recvs : Live(h)' => field'.recv # None
      BY <2>1, <3>1, LinkAssumption DEF Started, Loops
    <3> QED
      BY <3>2, <3>3, <3>5, <3>6, <3>7, <3>8 DEF Started
<1> QED
  BY <1>6, <1>7 DEF TypeInv

\* Every other step starts nothing: it leaves the fields and the owners alone.
LEMMA StartedKept ==
  ASSUME TypeInv, UNCHANGED <<field, owner>>,
         \A g \in Loops : Live(g)' => Live(g),
         \A s \in Sups : pc'[s] = "recvStart" => pc[s] = "recvStart"
  PROVE  Started'
BY LinkAssumption DEF TypeInv, Started, Loops

\* The tomb of a loop is killed, if there is one.
LEMMA KillTypes ==
  ASSUME LinkTypeOK, NEW g \in Loops \cup {None}
  PROVE  /\ [tomb EXCEPT ![g] = Killed(g)] \in [Loops -> {"none", "alive", "dying", "dead"}]
         /\ [tomb EXCEPT ![g] = "dying"] \in [Loops -> {"none", "alive", "dying", "dead"}]
BY LinkAssumption DEF LinkTypeOK, Killed

LEMMA SupervisorTypes ==
  ASSUME TypeInv, NEW s \in Sups, Supervisor(s) \/ SupDying(s) PROVE TypeInv'
<1> USE LinkAssumption DEF TypeInv, Loops, lifecycle, goroutines
<1>1. CASE SupEnter(s)
  <2>1. sendBuf' \in [Sups -> Seq({"modelId", "other"})] /\ \A r \in Sups : Len(sendBuf'[r]) <= SendCap
    BY <1>1, Buffered DEF SupEnter
  <2>2. LinkTypeOK'
    BY <1>1, <2>1 DEF SupEnter, Goto, LinkTypeOK, Labels, calls
  <2>3. Started'
    BY <1>1, StartedKept DEF SupEnter, Goto, Live, LinkTypeOK
  <2> QED
    BY <2>2, <2>3
<1>2. CASE \E p \in Ports : PortEvent(s, p)
  <2>1. PICK p \in Ports : PortEvent(s, p)
    BY <1>2
  <2>2. pc' \in [Loops -> Labels] /\ watch' \in [Loops -> SUBSET Loops]
    BY <2>1 DEF PortEvent, LinkTypeOK, Labels
  <2>3. LinkTypeOK'
    BY <2>1, <2>2 DEF PortEvent, LinkTypeOK, calls
  <2>4. Started'
    BY <2>1, StartedKept DEF PortEvent, Live, LinkTypeOK
  <2> QED
    BY <2>3, <2>4
<1>3. CASE SupDying(s)
  <2>1. tomb' \in [Loops -> {"none", "alive", "dying", "dead"}]
    <3>1. field.port \in Loops \cup {None}
      BY DEF LinkTypeOK
    <3> QED
      BY <1>3, <3>1, KillTypes DEF SupDying, LinkTypeOK
  <2>2. LinkTypeOK'
    BY <1>3, <2>1 DEF SupDying, Goto, LinkTypeOK, Labels, calls
  <2>3. Started'
    BY <1>3, StartedKept DEF SupDying, Goto, Live, LinkTypeOK
  <2> QED
    BY <2>2, <2>3
<1>4. CASE SupLoopExited(s)
  <2>1. LinkTypeOK'
    BY <1>4 DEF SupLoopExited, Goto, LinkTypeOK, Labels, calls
  <2>2. Started'
    BY <1>4, StartedKept DEF SupLoopExited, Goto, Live, LinkTypeOK
  <2> QED
    BY <2>1, <2>2
<1>5. CASE SupStopRecv(s)
  <2>1. /\ UNCHANGED <<lifecycle, handle, sendBuf, plugged, calls>>
        /\ \E l \in Labels \ {"recvStart"} : pc' = [pc EXCEPT ![s] = l]
        /\ \/ UNCHANGED tomb /\ watch' = [watch EXCEPT ![s] = {}]
           \/ /\ Alive(field.recv) /\ tomb' = [tomb EXCEPT ![field.recv] = "dying"]
              /\ watch' = [watch EXCEPT ![s] = {field.recv}]
    BY <1>5 DEF SupStopRecv, StopLoop, WaitLoop, Goto, Labels
  <2>2. tomb' \in [Loops -> {"none", "alive", "dying", "dead"}]
    BY <2>1 DEF LinkTypeOK
  <2>3. watch' \in [Loops -> SUBSET Loops]
    BY <2>1 DEF LinkTypeOK, Alive
  <2>4. pc' \in [Loops -> Labels]
    BY <2>1 DEF LinkTypeOK
  <2>5. LinkTypeOK'
    BY <2>1, <2>2, <2>3, <2>4 DEF LinkTypeOK, calls
  <2>6. Started'
    BY <1>5, StartedKept DEF SupStopRecv, StopLoop, WaitLoop, Goto, Live, LinkTypeOK
  <2> QED
    BY <2>5, <2>6
<1>6. CASE SupStopSend(s)
  <2>1. /\ UNCHANGED <<lifecycle, handle, sendBuf, plugged, calls>>
        /\ \E l \in Labels \ {"recvStart"} : pc' = [pc EXCEPT ![s] = l]
        /\ \/ UNCHANGED tomb /\ watch' = [watch EXCEPT ![s] = {}]
           \/ /\ Alive(field.send) /\ tomb' = [tomb EXCEPT ![field.send] = "dying"]
              /\ watch' = [watch EXCEPT ![s] = {field.send}]
    BY <1>6 DEF SupStopSend, StopLoop, WaitLoop, Goto, Labels
  <2>2. tomb' \in [Loops -> {"none", "alive", "dying", "dead"}]
    BY <2>1 DEF LinkTypeOK
  <2>3. watch' \in [Loops -> SUBSET Loops]
    BY <2>1 DEF LinkTypeOK, Alive
  <2>4. pc' \in [Loops -> Labels]
    BY <2>1 DEF LinkTypeOK
  <2>5. LinkTypeOK'
    BY <2>1, <2>2, <2>3, <2>4 DEF LinkTypeOK, calls
  <2>6. Started'
    BY <1>6, StartedKept DEF SupStopSend, StopLoop, WaitLoop, Goto, Live, LinkTypeOK
  <2> QED
    BY <2>5, <2>6
<1>7. CASE SupClose(s)
  <2>1. LinkTypeOK'
    BY <1>7 DEF SupClose, Goto, LinkTypeOK, Labels, calls
  <2>2. Started'
    BY <1>7, StartedKept DEF SupClose, Goto, Live, LinkTypeOK
  <2> QED
    BY <2>1, <2>2
<1>8. CASE SupExit(s)
  <2>1. sendBuf' \in [Sups -> Seq({"modelId", "other"})] /\ \A r \in Sups : Len(sendBuf'[r]) <= SendCap
    <3>1. CASE Read(s)
      <4>1. sendBuf' = sendBuf
        BY <1>8, <3>1 DEF SupExit, LinkTypeOK
      <4> QED
        BY <4>1 DEF LinkTypeOK
    <3>2. CASE ~Read(s)
      <4>1. sendBuf' = [sendBuf EXCEPT ![s] = <<>>]
        BY <1>8, <3>2 DEF SupExit
      <4> QED
        BY <4>1, Buffered
    <3> QED
      BY <3>1, <3>2
  <2>2. LinkTypeOK'
    BY <1>8, <2>1 DEF SupExit, Return, LinkTypeOK, Labels, calls
  <2>3. Started'
    BY <1>8, StartedKept DEF SupExit, Return, Live, LinkTypeOK
  <2> QED
    BY <2>2, <2>3
<1> QED
  BY <1>1, <1>2, <1>3, <1>4, <1>5, <1>6, <1>7, <1>8, StartPortTypes, StartSendTypes, StartRecvTypes
     DEF Supervisor

LEMMA LoopTypes ==
  ASSUME TypeInv, NEW g \in Loops \ Sups,
         \/ g \in Ports /\ (PortOpen(g) \/ PortDying(g) \/ PortReturn(g))
         \/ g \in Sends /\ (SendTake(g) \/ SendChannels(g) \/ SendDying(g))
         \/ g \in Recvs /\ (RecvRequest(g) \/ RecvPush(g) \/ RecvDying(g))
  PROVE  TypeInv'
<1> USE DEF TypeInv, lifecycle
<1>1. Live(g)
  BY DEF Live, PortOpen, PortDying, PortReturn, SendTake, SendChannels, SendDying,
         RecvRequest, RecvPush, RecvDying
<1>2. /\ owner[g] \in Sups
      /\ g \in Ports => field.port \in Loops
      /\ g \in Sends => field.send \in Loops
      /\ g \in Recvs => field.recv \in Loops
  BY <1>1, LinkAssumption DEF Started, LinkTypeOK, Loops
<1>3. UNCHANGED <<lifecycle, plugged, calls>>
  BY DEF PortOpen, PortDying, PortReturn, SendTake, SendChannels, SendDying, SendExit,
         RecvRequest, RecvPush, RecvDying
<1>4. \/ Return(g)
      \/ UNCHANGED tomb /\ \E l \in Labels \ {"off"}, w \in SUBSET Loops : Goto(g, l, w)
  <2>1. CASE g \in Ports
    <3>1. CASE PortOpen(g)
      <4>1. Goto(g, "send", {}) \/ Goto(g, "backoff", {field.port})
        BY <3>1 DEF PortOpen
      <4>2. {field.port} \in SUBSET Loops /\ {"send", "backoff"} \subseteq Labels \ {"off"}
        BY <1>2, <2>1 DEF Labels
      <4> QED
        BY <3>1, <4>1, <4>2 DEF PortOpen
    <3> QED
      BY <2>1, <3>1, LinkAssumption DEF PortDying, PortReturn
  <2>2. CASE g \in Sends
    <3>1. CASE SendTake(g)
      <4>1. Return(g) \/ (UNCHANGED tomb /\ Goto(g, "run", {field.send}))
        BY <3>1 DEF SendTake, SendExit
      <4>2. {field.send} \in SUBSET Loops /\ "run" \in Labels \ {"off"}
        BY <1>2, <2>2 DEF Labels
      <4> QED
        BY <4>1, <4>2
    <3> QED
      BY <2>2, <3>1, LinkAssumption DEF SendChannels, SendDying, SendExit
  <2>3. CASE g \in Recvs
    <3>1. CASE RecvRequest(g) \/ RecvPush(g)
      <4>1. UNCHANGED tomb /\ \E l \in {"run", "modelId", "other"} : Goto(g, l, {field.recv})
        BY <3>1 DEF RecvRequest, RecvPush
      <4>2. {field.recv} \in SUBSET Loops /\ {"run", "modelId", "other"} \subseteq Labels \ {"off"}
        BY <1>2, <2>3 DEF Labels
      <4> QED
        BY <4>1, <4>2
    <3> QED
      BY <2>3, <3>1, LinkAssumption DEF RecvDying
  <2> QED
    BY <2>1, <2>2, <2>3
<1>5. /\ tomb' \in [Loops -> {"none", "alive", "dying", "dead"}]
      /\ pc' \in [Loops -> Labels] /\ watch' \in [Loops -> SUBSET Loops]
      /\ \A h \in Loops : Live(h)' => Live(h)
      /\ \A s \in Sups : pc'[s] = pc[s]
  <2>1. CASE Return(g)
    <3>1. {} \in SUBSET Loops /\ "off" \in Labels
      BY DEF Labels
    <3> QED
      BY <1>1, <2>1, <3>1 DEF Return, LinkTypeOK, Live
  <2>2. CASE ~Return(g)
    <3>1. PICK l \in Labels \ {"off"}, w \in SUBSET Loops : UNCHANGED tomb /\ Goto(g, l, w)
      BY <1>4, <2>2
    <3> QED
      BY <1>1, <3>1 DEF Goto, LinkTypeOK, Live
  <2> QED
    BY <2>1, <2>2
<1>6. handle' \in [Sups -> {"closed", "good", "stale"}]
  BY DEF PortOpen, PortDying, PortReturn, SendTake, SendChannels, SendDying, SendExit,
         RecvRequest, RecvPush, RecvDying, LinkTypeOK
<1>7. sendBuf' \in [Sups -> Seq({"modelId", "other"})] /\ \A r \in Sups : Len(sendBuf'[r]) <= SendCap
  <2>1. CASE SendTake(g)
    BY <1>2, <2>1, Buffered DEF SendTake
  <2>2. CASE RecvPush(g)
    BY <1>2, <2>2, Buffered DEF RecvPush, Push
  <2>3. CASE ~SendTake(g) /\ ~RecvPush(g)
    <3>1. sendBuf' = sendBuf
      BY <2>3 DEF PortOpen, PortDying, PortReturn, SendChannels, SendDying, RecvRequest, RecvDying
    <3> QED
      BY <3>1 DEF LinkTypeOK
  <2> QED
    BY <2>1, <2>2, <2>3
<1>8. LinkTypeOK'
  BY <1>3, <1>5, <1>6, <1>7 DEF LinkTypeOK, calls
<1>9. Started'
  BY <1>3, <1>5, StartedKept DEF Live
<1> QED
  BY <1>8, <1>9

LEMMA EnvironmentTypes ==
  ASSUME TypeInv, Unplug \/ Plug \/ (\E s \in Sups : RequestSend(s)) \/ UNCHANGED vars
  PROVE  TypeInv'
<1> USE DEF TypeInv, goroutines, lifecycle
<1>1. UNCHANGED <<goroutines, lifecycle, op, wanted, overtaken>>
  BY DEF Unplug, Plug, RequestSend, vars, calls
<1>2. handle' \in [Sups -> {"closed", "good", "stale"}] /\ plugged' \in BOOLEAN
  BY DEF Unplug, Plug, RequestSend, vars, LinkTypeOK
<1>3. sendBuf' \in [Sups -> Seq({"modelId", "other"})] /\ \A r \in Sups : Len(sendBuf'[r]) <= SendCap
  <2>1. CASE \E s \in Sups : RequestSend(s)
    BY <2>1, Buffered DEF RequestSend, Push
  <2>2. CASE ~\E s \in Sups : RequestSend(s)
    BY <2>2 DEF Unplug, Plug, vars, LinkTypeOK
  <2> QED
    BY <2>1, <2>2
<1>4. UNCHANGED <<tomb, pc, watch, field, owner, leaving, chanField, supervisorState, portState,
                  op, wanted, overtaken>>
      => /\ tomb' \in [Loops -> {"none", "alive", "dying", "dead"}]
         /\ field' \in [sup : Sups \cup {None}, port : Ports \cup {None},
                        send : Sends \cup {None}, recv : Recvs \cup {None}]
         /\ pc' \in [Loops -> Labels] /\ owner' \in [Loops \ Sups -> Sups \cup {None}]
         /\ watch' \in [Loops -> SUBSET Loops] /\ leaving' \in [Sups -> BOOLEAN]
         /\ chanField' \in Sups \cup {None} /\ supervisorState' \in {"active", "inactive"}
         /\ portState' \in {"unknown", "disconnected", "connected"}
         /\ op' \in [Operators -> [at : {"idle", "starting", "stopping"}, sup : Sups \cup {None}]]
         /\ wanted' \in BOOLEAN /\ overtaken' \in BOOLEAN
  BY DEF LinkTypeOK
<1>5. LinkTypeOK'
  BY <1>1, <1>2, <1>3, <1>4, Zenon DEF LinkTypeOK
<1>6. Started'
  BY <1>1, StartedKept DEF Live
<1> QED
  BY <1>5, <1>6

LEMMA TypeInit == ASSUME Init PROVE TypeInv
<1> USE LinkAssumption DEF Init, Loops
<1>1. sendBuf \in [Sups -> Seq({"modelId", "other"})] /\ \A r \in Sups : Len(sendBuf[r]) <= SendCap
  BY EmptySeq
<1>2. op \in [Operators -> [at : {"idle", "starting", "stopping"}, sup : Sups \cup {None}]]
  OBVIOUS
<1>3. LinkTypeOK
  BY <1>1, <1>2 DEF LinkTypeOK, Labels
<1>4. Started
  BY DEF Started, Live
<1> QED
  BY <1>3, <1>4 DEF TypeInv

LEMMA TypeStep == ASSUME TypeInv, [Next]_vars PROVE TypeInv'
<1>1. CASE \E s \in Sups : Supervisor(s) \/ SupDying(s)
  BY <1>1, SupervisorTypes
<1>2. CASE \E o \in Operators : StartCheck(o) \/ StartCreate(o) \/ Stop(o) \/ StopReturn(o)
  BY <1>2, OperatorTypes
<1>3. CASE \/ \E p \in Ports : PortOpen(p) \/ PortDying(p) \/ PortReturn(p)
           \/ \E g \in Sends : SendTake(g) \/ SendChannels(g) \/ SendDying(g)
           \/ \E g \in Recvs : RecvRequest(g) \/ RecvPush(g) \/ RecvDying(g)
  <2>1. \A g \in Ports \cup Sends \cup Recvs : g \in Loops \ Sups
    BY LinkAssumption DEF Loops
  <2> QED
    BY <1>3, <2>1, LoopTypes
<1>4. CASE Unplug \/ Plug \/ (\E s \in Sups : RequestSend(s)) \/ UNCHANGED vars
  BY <1>4, EnvironmentTypes
<1> QED
  BY <1>1, <1>2, <1>3, <1>4 DEF Next

\* The state of the link is what its fields' types say, over every start, stop, reconnect,
\* plug and unplug, in whatever order the calls come and overtake each other.
THEOREM LinkTypeCorrect == LinkSpec => []LinkTypeOK
<1>1. TypeInv => LinkTypeOK
  BY DEF TypeInv
<1> QED
  BY <1>1, TypeInit, TypeStep, PTL DEF LinkSpec

-----------------------------------------------------------------------------
(* The order of the loops, until a start overtakes another call.           *)

\* Where the supervisor is that the controller's field names.
SupAt(labels) == field.sup # None /\ pc[field.sup] \in labels

\* Every goroutine that runs is named by its field, but for orphaned port loops,
\* and send and receive loops run only while the supervisor has them running.
Named ==
  /\ \A g \in Loops : Live(g) <=> tomb[g] \in {"alive", "dying"}
  /\ \A s \in Sups : Live(s) => s = field.sup
  /\ \A g \in Sends : Live(g) =>
       /\ g = field.send /\ owner[g] = field.sup
       /\ SupAt({"recvStart", "run", "stopRecv", "waitRecv", "stopSend", "waitSend"})
  /\ \A g \in Recvs : Live(g) =>
       /\ g = field.recv /\ owner[g] = field.sup
       /\ SupAt({"run", "stopRecv", "waitRecv"})

\* A loop is killed only by the supervisor that then waits for it, and the
\* supervisor only by an operator who does.  One call at most is starting, and
\* then no supervisor runs: without the order of the calls this fails.
Waited ==
  /\ \A g \in Recvs : tomb[g] = "dying" => SupAt({"waitRecv"})
  /\ \A g \in Sends : tomb[g] = "dying" => SupAt({"waitSend"})
  /\ SupAt({"waitRecv"}) => field.recv # None /\ watch[field.sup] = {field.recv}
  /\ SupAt({"waitSend"}) => field.send # None /\ watch[field.sup] = {field.send}
  /\ \A o \in Operators : op[o].at = "starting" =>
       /\ \A s \in Sups : ~Live(s)
       /\ \A q \in Operators : op[q].at = "starting" => q = o
  /\ field.sup # None /\ tomb[field.sup] = "dying" =>
       \E o \in Operators : op[o].at = "stopping" /\ op[o].sup = field.sup

\* A port loop that has not given its event away.
Opening(p) == pc[p] \notin {"off", "return"}

\* A supervisor that has not given up has such a port loop only while it waits
\* for it.  One that has given its event away may still have to return.
PortLoops ==
  /\ \A s \in Sups : Live(s) /\ leaving[s] =>
       pc[s] \in {"stopRecv", "waitRecv", "stopSend", "waitSend", "close", "exit"}
  /\ \A p \in Ports : Opening(p) /\ Live(owner[p]) =>
       leaving[owner[p]] \/ pc[owner[p]] = "portWait"
  /\ \A p, q \in Ports : Opening(p) /\ Opening(q) /\ owner[p] = owner[q] =>
       p = q \/ pc[owner[p]] # "portWait"

\* The port is open from the event of its loop to the end of the loops that use it.
OpenPort ==
  /\ \A p \in Ports : pc[p] = "send" /\ pc[owner[p]] = "portWait" => handle[owner[p]] # "closed"
  /\ \A s \in Sups : pc[s] \in {"sendStart", "recvStart", "run"} => handle[s] # "closed"
  /\ \A g \in Sends \cup Recvs : Live(g) => handle[owner[g]] # "closed"

LinkInv == LinkTypeOK /\ Started /\ Named /\ Waited /\ PortLoops /\ OpenPort

LEMMA InvImplies == LinkInv => SingleWriter /\ ClosedOnlyAfterLoops
BY DEF LinkInv, Named, OpenPort, Live, SingleWriter, ClosedOnlyAfterLoops, Running

LEMMA OperatorStep ==
  ASSUME LinkInv, TypeInv', ~overtaken', NEW o \in Operators,
         StartCheck(o) \/ StartCreate(o) \/ Stop(o) \/ StopReturn(o)
  PROVE  LinkInv'
<1> USE LinkAssumption DEF LinkInv, TypeInv, Loops, Opening, calls, Live, SupAt, goroutines, lifecycle
<1>1. CASE StartCheck(o)
  <2>2. Named' /\ PortLoops' /\ OpenPort'
    BY <1>1 DEF StartCheck, Named, PortLoops, OpenPort
  <2>3. \A q \in Operators : ~UnderWay(q)
    BY <1>1 DEF StartCheck
  <2>4. \A s \in Sups : ~Live(s)
    BY <1>1, <2>3 DEF StartCheck, LinkTypeOK, Named, Waited, Alive, UnderWay
  <2>5. /\ op' = [op EXCEPT ![o].at = "starting"]
        /\ \A q \in Operators : q # o => op'[q] = op[q] /\ op'[q].at # "starting"
    BY <1>1, <2>3 DEF StartCheck, LinkTypeOK, UnderWay
  <2>6. Waited'
    BY <1>1, <2>4, <2>5 DEF StartCheck, Waited, Named, LinkTypeOK
  <2> QED
    BY <2>2, <2>6
<1>2. CASE StartCreate(o)
  <2>1. PICK s \in Sups : /\ Free(s) /\ field' = [field EXCEPT !.sup = s]
                          /\ tomb' = [tomb EXCEPT ![s] = "alive"]
                          /\ pc' = [pc EXCEPT ![s] = "enter"]
                          /\ leaving' = [leaving EXCEPT ![s] = FALSE]
    BY <1>2 DEF StartCreate, Unused
  <2>2. \A r \in Sups : ~Live(r)
    BY <1>2 DEF StartCreate, Waited
  <2>3. UNCHANGED <<owner, watch, handle, sendBuf, chanField, supervisorState, portState, plugged, overtaken>>
        /\ op' = [op EXCEPT ![o].at = "idle"]
    BY <1>2 DEF StartCreate
  <2>5. \A g \in Sends \cup Recvs : ~Live(g)
    BY <2>2 DEF Named, LinkTypeOK
  <2>6. Named'
    BY <2>1, <2>2, <2>3, <2>5 DEF Named, LinkTypeOK
  <2>7. Waited'
    <3>1. \A q \in Operators : op'[q].at # "starting"
      BY <1>2, <2>3 DEF StartCreate, Waited, LinkTypeOK
    <3> QED
      BY <2>1, <2>2, <2>3, <2>5, <3>1 DEF Named, Waited, LinkTypeOK
  <2>8. \A p \in Ports : Opening(p)' => Opening(p) /\ owner[p] # s /\ owner[p] \in Sups
    BY <2>1 DEF Free, Live, Started, LinkTypeOK
  <2>9. PortLoops'
    BY <2>1, <2>2, <2>3, <2>8 DEF PortLoops, LinkTypeOK
  <2>10. OpenPort'
    BY <2>1, <2>3, <2>5, <2>8, <2>2 DEF OpenPort, LinkTypeOK
  <2> QED
    BY <2>6, <2>7, <2>9, <2>10
<1>3. CASE Stop(o)
  <2>1. field.sup \in Sups /\ tomb[field.sup] = "alive"
    BY <1>3 DEF Stop, Alive, LinkTypeOK
  <2>3. Named' /\ PortLoops' /\ OpenPort'
    BY <1>3, <2>1 DEF Stop, Named, PortLoops, OpenPort, LinkTypeOK
  <2>4. Waited'
    BY <1>3, <2>1 DEF Stop, Waited, LinkTypeOK, Named
  <2> QED
    BY <2>3, <2>4
<1>4. CASE StopReturn(o)
  <2>2. Named' /\ PortLoops' /\ OpenPort'
    BY <1>4 DEF StopReturn, Named, PortLoops, OpenPort
  <2>3. Waited'
    BY <1>4 DEF StopReturn, Waited, LinkTypeOK
  <2> QED
    BY <2>2, <2>3
<1> QED
  BY <1>1, <1>2, <1>3, <1>4

\* The supervisor that runs is the one of the field.
LEMMA OneSupervisor ==
  ASSUME LinkInv, NEW s \in Sups, Live(s)
  PROVE  /\ s = field.sup /\ s # None /\ s \in Loops /\ tomb[s] \in {"alive", "dying"}
         /\ \A l : SupAt(l) <=> pc[s] \in l
         /\ \A r \in Sups \ {s} : ~Live(r)
BY LinkAssumption DEF LinkInv, Named, SupAt, Loops

LEMMA EnterStep ==
  ASSUME LinkInv, TypeInv', NEW s \in Sups, SupEnter(s) PROVE LinkInv'
<1> USE LinkAssumption DEF LinkInv, TypeInv, Loops, Opening, calls
<1>1. /\ pc[s] = "enter" /\ pc' = [pc EXCEPT ![s] = "portStart"]
      /\ watch' = [watch EXCEPT ![s] = {}] /\ supervisorState' = "active" /\ chanField' = s
      /\ UNCHANGED <<tomb, field, owner, leaving, portState, handle, plugged, calls>>
  BY DEF SupEnter, Goto
<1>2. Live(s)
  BY <1>1 DEF Live
<1>4. Named'
  BY <1>1, <1>2, OneSupervisor DEF Named, Live, SupAt, LinkTypeOK
<1>5. Waited'
  BY <1>1, <1>2, OneSupervisor DEF Waited, Live, SupAt, LinkTypeOK
<1>6. PortLoops'
  BY <1>1, <1>2 DEF PortLoops, Live, LinkTypeOK, Named
<1>7. OpenPort'
  BY <1>1 DEF OpenPort, Live, LinkTypeOK
<1> QED
  BY <1>4, <1>5, <1>6, <1>7

\* The loops start: the port's may be refused for an orphan's sake.
LEMMA StartPortStep ==
  ASSUME LinkInv, TypeInv', NEW s \in Sups, SupStartPort(s) PROVE LinkInv'
<1> USE LinkAssumption DEF LinkInv, TypeInv, Loops, Opening, calls
<1> DEFINE refused == Alive(field.port)
           g == IF refused THEN field.port ELSE CHOOSE h \in Unused(Ports) : TRUE
<1>1. /\ pc[s] = "portStart" /\ portState' = "disconnected"
      /\ field' = [field EXCEPT !.port = g]
      /\ UNCHANGED <<leaving, chanField, supervisorState, handle, sendBuf, plugged, calls>>
  BY DEF SupStartPort, StartLoop
<1>2. Live(s)
  BY <1>1 DEF Live
<1>3. g \in Ports /\ (~refused => Free(g))
  BY DEF SupStartPort, StartLoop, LinkTypeOK, Alive, Unused
<1>4. CASE refused
  <2>1. /\ pc' = [pc EXCEPT ![s] = "portWait"] /\ UNCHANGED <<tomb, owner, field>>
        /\ watch' = [watch EXCEPT ![s] = {field.port, field.sup}]
    BY <1>1, <1>4 DEF SupStartPort, StartLoop, Goto, LinkTypeOK
  <2>3. Named'
    BY <1>1, <1>2, <2>1, OneSupervisor DEF Named, Live, SupAt, LinkTypeOK
  <2>4. Waited'
    BY <1>1, <1>2, <2>1, OneSupervisor DEF Waited, Live, SupAt, LinkTypeOK
  <2>5. \A p \in Ports : Opening(p) => owner[p] # s
    BY <1>1, <1>2 DEF PortLoops, Live
  <2>6. PortLoops'
    BY <1>1, <1>2, <2>1, <2>5 DEF PortLoops, Live, LinkTypeOK, Started
  <2>7. OpenPort'
    <3>1. /\ pc'[s] = "portWait" /\ \A h \in Loops \ {s} : pc'[h] = pc[h]
          /\ owner' = owner /\ handle' = handle
      BY <1>1, <2>1 DEF LinkTypeOK
    <3>2. \A p \in Ports : pc[p] = "send" => owner[p] # s /\ owner[p] \in Sups
      BY <2>5 DEF Live, LinkTypeOK, Started
    <3> QED
      BY <3>1, <3>2 DEF OpenPort, Live
  <2> QED
    BY <2>3, <2>4, <2>6, <2>7
<1>5. CASE ~refused
  <2>1. /\ tomb' = [tomb EXCEPT ![g] = "alive"] /\ owner' = [owner EXCEPT ![g] = s]
        /\ pc' = [pc EXCEPT ![g] = "open", ![s] = "portWait"]
        /\ watch' = [watch EXCEPT ![g] = {}, ![s] = {g, field.sup}]
    BY <1>1, <1>5 DEF SupStartPort, StartLoop, LinkTypeOK
  <2> HIDE DEF g, refused
  <2>2. g # s /\ g \in Loops /\ g \notin Sups /\ g \notin Sends /\ g \notin Recvs /\ s \in Loops
    BY <1>3
  <2>3. /\ pc'[g] = "open" /\ pc'[s] = "portWait" /\ tomb'[g] = "alive" /\ owner'[g] = s
        /\ \A h \in Loops \ {g, s} : pc'[h] = pc[h]
        /\ \A h \in Loops \ {g} : tomb'[h] = tomb[h]
        /\ \A h \in Loops \ {s, g} : watch'[h] = watch[h]
        /\ \A h \in (Loops \ Sups) \ {g} : owner'[h] = owner[h]
        /\ field'.port = g /\ field'.sup = field.sup /\ field'.send = field.send
        /\ field'.recv = field.recv
    BY <1>1, <2>1, <2>2 DEF LinkTypeOK
  <2>5. ~Live(g) /\ g # None /\ tomb[g] \in {"none", "dead"}
    BY <1>3, <1>5, <2>2 DEF Free, Live
  <2>6. \A h \in Loops \ {g} : Live(h)' <=> Live(h)
    BY <1>2, <2>3, <2>2 DEF Live
  <2>7. Named'
    <3>1. \A h \in Loops : Live(h)' <=> tomb'[h] \in {"alive", "dying"}
      BY <2>3, <2>6, <2>2 DEF Named, Live
    <3>3. \A r \in Sups : Live(r)' => r = field'.sup
      BY <2>2, <2>3, <2>6 DEF Named
    <3>4. \A h \in Sends \cup Recvs : ~Live(h)'
      BY <1>1, <1>2, <2>2, <2>6, OneSupervisor DEF Named
    <3> QED
      BY <3>1, <3>3, <3>4 DEF Named
  <2>8. Waited'
    <3>1. \A h \in Sends \cup Recvs : tomb'[h] # "dying"
      BY <1>1, <1>2, <2>2, <2>3, OneSupervisor DEF Named
    <3>2. \A l : SupAt(l)' <=> "portWait" \in l
      BY <1>2, <2>3, OneSupervisor DEF SupAt
    <3> QED
      BY <1>1, <1>2, <2>2, <2>3, <3>1, <3>2, OneSupervisor DEF Waited
  <2>9. \A p \in Ports : Opening(p) => owner[p] # s
    BY <1>1, <1>2 DEF PortLoops, Live
  <2>10. PortLoops'
    <3>1. ~leaving[s]
      BY <1>1, <1>2 DEF PortLoops
    <3>2. \A r \in Sups : Live(r)' /\ leaving'[r] =>
            pc'[r] \in {"stopRecv", "waitRecv", "stopSend", "waitSend", "close", "exit"}
      BY <1>1, <2>2, <2>3, <2>6, <3>1 DEF PortLoops
    <3>3. \A p \in Ports \ {g} : Opening(p)' => owner'[p] = owner[p] /\ owner[p] \in Sups \ {s} /\ Opening(p)
      BY <2>2, <2>3, <2>6, <2>9 DEF Started, Live, LinkTypeOK
    <3>4. \A r \in Sups \ {s} : Live(r)' = Live(r) /\ pc'[r] = pc[r] /\ leaving'[r] = leaving[r]
      BY <1>1, <2>2, <2>3 DEF Live
    <3> QED
      BY <2>3, <3>2, <3>3, <3>4 DEF PortLoops
  <2>11. OpenPort'
    <3>1. \A p \in Ports \ {g} : /\ owner'[p] = owner[p] /\ pc'[p] = pc[p]
                                /\ Opening(p) => owner[p] \in Sups \ {s}
      BY <2>2, <2>3, <2>9 DEF Started, Live, LinkTypeOK
    <3>2. \A h \in Sends \cup Recvs : ~Live(h)'
      BY <1>1, <1>2, <2>2, <2>6, OneSupervisor DEF Named
    <3>3. \A p \in Ports : pc'[p] = "send" /\ pc'[owner'[p]] = "portWait" => handle'[owner'[p]] # "closed"
      BY <1>1, <2>2, <2>3, <3>1 DEF OpenPort, Live
    <3> QED
      BY <1>1, <2>2, <2>3, <3>2, <3>3 DEF OpenPort
  <2> QED
    BY <2>7, <2>8, <2>10, <2>11
<1> QED
  BY <1>4, <1>5

LEMMA StartSendStep ==
  ASSUME LinkInv, TypeInv', NEW s \in Sups, SupStartSend(s) PROVE LinkInv'
<1> USE LinkAssumption DEF LinkInv, TypeInv, Loops, Opening, calls
<1> DEFINE g == CHOOSE h \in Unused(Sends) : TRUE
<1>1. pc[s] = "sendStart" /\ Live(s)
  BY DEF SupStartSend, Live
<1>2. \A h \in Sends : ~Live(h)
  BY <1>1, OneSupervisor DEF Named
<1>3. ~Alive(field.send)
  BY <1>2 DEF Alive, Named, LinkTypeOK
<1>4. g \in Sends /\ Free(g)
  BY <1>3 DEF SupStartSend, StartLoop, Unused
<1>5. /\ field' = [field EXCEPT !.send = g]
      /\ tomb' = [tomb EXCEPT ![g] = "alive"] /\ owner' = [owner EXCEPT ![g] = s]
      /\ pc' = [pc EXCEPT ![g] = "run", ![s] = "recvStart"]
      /\ UNCHANGED <<leaving, chanField, supervisorState, portState, handle, sendBuf, plugged, calls>>
  BY <1>3 DEF SupStartSend, StartLoop
<1>6. watch' = [watch EXCEPT ![g] = {g}, ![s] = {}]
  BY <1>3 DEF SupStartSend, StartLoop, LinkTypeOK
<1> HIDE DEF g
<1>7. /\ g # s /\ g \in Loops /\ s \in Loops /\ g # None
      /\ g \notin Sups /\ g \notin Ports /\ g \notin Recvs
  BY <1>4
<1>8. /\ pc'[g] = "run" /\ pc'[s] = "recvStart" /\ tomb'[g] = "alive" /\ owner'[g] = s
      /\ \A h \in Loops \ {g, s} : pc'[h] = pc[h] /\ watch'[h] = watch[h]
      /\ \A h \in Loops \ {g} : tomb'[h] = tomb[h]
      /\ \A h \in (Loops \ Sups) \ {g} : owner'[h] = owner[h]
      /\ field'.port = field.port /\ field'.sup = field.sup /\ field'.send = g
      /\ field'.recv = field.recv
  BY <1>5, <1>6, <1>7 DEF LinkTypeOK
<1>10. \A h \in Loops \ {g} : Live(h)' <=> Live(h)
  BY <1>1, <1>7, <1>8 DEF Live
<1>11. field.sup = s /\ \A h \in Sups : Live(h) => h = s
  BY <1>1, OneSupervisor DEF Named
<1>12. Named'
  <2>1. \A h \in Loops : Live(h)' <=> tomb'[h] \in {"alive", "dying"}
    BY <1>7, <1>8, <1>10 DEF Named, Live
  <2>3. \A h \in Sups : Live(h)' => h = field'.sup
    BY <1>7, <1>8, <1>10 DEF Named
  <2>4. \A h \in Sends : Live(h)' => h = g
    BY <1>2, <1>7, <1>10
  <2>5. SupAt({"recvStart"})'
    BY <1>7, <1>8, <1>11 DEF SupAt
  <2> QED
    BY <1>1, <1>7, <1>8, <1>10, <1>11, <2>1, <2>3, <2>4, <2>5 DEF Named, SupAt
<1>13. Waited'
  <2>1. \A h \in Sends \cup Recvs : tomb'[h] # "dying"
    BY <1>1, <1>2, <1>7, <1>8, <1>11 DEF Named, Waited, SupAt
  <2>2. field'.sup = s /\ pc'[s] = "recvStart" /\ field'.send # None
    BY <1>1, <1>7, <1>8, <1>11 DEF Waited, SupAt
  <2>3. \A o \in Operators : op'[o].at # "starting"
    BY <1>1, <1>5 DEF Waited, calls
  <2>4. tomb'[s] = "dying" => \E o \in Operators : op'[o].at = "stopping" /\ op'[o].sup = s
    BY <1>5, <1>7, <1>8, <1>11 DEF Waited, calls
  <2> QED
    BY <2>1, <2>2, <2>3, <2>4 DEF Waited, SupAt
<1>14. ~leaving[s] /\ \A p \in Ports : Opening(p) => owner[p] \in Sups \ {s}
  <2>1. ~leaving[s]
    BY <1>1 DEF PortLoops
  <2>2. \A p \in Ports : Opening(p) => owner[p] # s
    BY <1>1, <2>1 DEF PortLoops
  <2> QED
    BY <2>1, <2>2 DEF Started, Live, LinkTypeOK
<1>15. \A p \in Ports : owner'[p] = owner[p] /\ pc'[p] = pc[p]
  BY <1>7, <1>8
<1>16. PortLoops'
  <2>1. \A r \in Sups : Live(r)' /\ leaving'[r] => Live(r) /\ leaving[r] /\ r # s /\ pc'[r] = pc[r]
    BY <1>1, <1>5, <1>7, <1>8, <1>10, <1>14
  <2>2. \A p \in Ports : Opening(p)' => Opening(p) /\ owner[p] \in Sups \ {s}
    BY <1>14, <1>15
  <2>3. \A r \in Sups \ {s} : ~Live(r)' /\ pc'[r] # "portWait"
    BY <1>7, <1>8, <1>10, <1>11 DEF Live
  <2> QED
    BY <1>15, <2>1, <2>2, <2>3, <1>11 DEF PortLoops
<1>17. OpenPort'
  <2>1. handle'[s] # "closed"
    BY <1>1, <1>5 DEF OpenPort
  <2>2. \A p \in Ports : pc'[p] = "send" /\ pc'[owner'[p]] = "portWait" => handle'[owner'[p]] # "closed"
    BY <1>5, <1>7, <1>8, <1>14, <1>15 DEF OpenPort, Live
  <2>3. \A h \in Sends \cup Recvs : Live(h)' => handle'[owner'[h]] # "closed"
    BY <1>5, <1>7, <1>8, <1>10, <2>1 DEF OpenPort
  <2>4. \A r \in Sups : pc'[r] \in {"sendStart", "recvStart", "run"} => handle'[r] # "closed"
    BY <1>5, <1>7, <1>8, <2>1 DEF OpenPort
  <2> QED
    BY <2>2, <2>3, <2>4 DEF OpenPort
<1> QED
  BY <1>12, <1>13, <1>16, <1>17

LEMMA StartRecvStep ==
  ASSUME LinkInv, TypeInv', NEW s \in Sups, SupStartRecv(s) PROVE LinkInv'
<1> USE LinkAssumption DEF LinkInv, TypeInv, Loops, Opening, calls
<1> DEFINE g == CHOOSE h \in Unused(Recvs) : TRUE
<1>1. pc[s] = "recvStart" /\ Live(s)
  BY DEF SupStartRecv, Live
<1>2. \A h \in Recvs : ~Live(h)
  BY <1>1, OneSupervisor DEF Named
<1>3. ~Alive(field.recv)
  BY <1>2 DEF Alive, Named, LinkTypeOK
<1>4. g \in Recvs /\ Free(g)
  BY <1>3 DEF SupStartRecv, StartLoop, Unused
<1>5. /\ field' = [field EXCEPT !.recv = g]
      /\ tomb' = [tomb EXCEPT ![g] = "alive"] /\ owner' = [owner EXCEPT ![g] = s]
      /\ pc' = [pc EXCEPT ![g] = "run", ![s] = "run"]
      /\ UNCHANGED <<leaving, chanField, supervisorState, portState, handle, sendBuf, plugged, calls>>
  BY <1>3 DEF SupStartRecv, StartLoop
<1>6. watch' = [watch EXCEPT ![g] = {g}, ![s] = {field.send, g, field.sup}]
  BY <1>3 DEF SupStartRecv, StartLoop, LinkTypeOK
<1> HIDE DEF g
<1>7. /\ g # s /\ g \in Loops /\ s \in Loops /\ g # None
      /\ g \notin Sups /\ g \notin Ports /\ g \notin Sends
  BY <1>4
<1>8. /\ pc'[g] = "run" /\ pc'[s] = "run" /\ tomb'[g] = "alive" /\ owner'[g] = s
      /\ \A h \in Loops \ {g, s} : pc'[h] = pc[h] /\ watch'[h] = watch[h]
      /\ \A h \in Loops \ {g} : tomb'[h] = tomb[h]
      /\ \A h \in (Loops \ Sups) \ {g} : owner'[h] = owner[h]
      /\ field'.port = field.port /\ field'.sup = field.sup /\ field'.recv = g
      /\ field'.send = field.send
  BY <1>5, <1>6, <1>7 DEF LinkTypeOK
<1>10. \A h \in Loops \ {g} : Live(h)' <=> Live(h)
  BY <1>1, <1>7, <1>8 DEF Live
<1>11. field.sup = s /\ \A h \in Sups : Live(h) => h = s
  BY <1>1, OneSupervisor DEF Named
<1>12. Named'
  <2>1. \A h \in Loops : Live(h)' <=> tomb'[h] \in {"alive", "dying"}
    BY <1>7, <1>8, <1>10 DEF Named, Live
  <2>3. \A h \in Sups : Live(h)' => h = field'.sup
    BY <1>7, <1>8, <1>10 DEF Named
  <2>4. \A h \in Recvs : Live(h)' => h = g
    BY <1>2, <1>7, <1>10
  <2>5. SupAt({"run"})'
    BY <1>7, <1>8, <1>11 DEF SupAt
  <2> QED
    BY <1>1, <1>7, <1>8, <1>10, <1>11, <2>1, <2>3, <2>4, <2>5 DEF Named, SupAt
<1>13. Waited'
  <2>1. \A h \in Sends \cup Recvs : tomb'[h] # "dying"
    BY <1>1, <1>2, <1>7, <1>8, <1>11 DEF Named, Waited, SupAt
  <2>2. field'.sup = s /\ pc'[s] = "run" /\ field'.send # None
    BY <1>1, <1>7, <1>8, <1>11 DEF Started
  <2>3. \A o \in Operators : op'[o].at # "starting"
    BY <1>1, <1>5 DEF Waited, calls
  <2>4. tomb'[s] = "dying" => \E o \in Operators : op'[o].at = "stopping" /\ op'[o].sup = s
    BY <1>5, <1>7, <1>8, <1>11 DEF Waited, calls
  <2> QED
    BY <2>1, <2>2, <2>3, <2>4 DEF Waited, SupAt
<1>14. ~leaving[s] /\ \A p \in Ports : Opening(p) => owner[p] \in Sups \ {s}
  <2>1. ~leaving[s]
    BY <1>1 DEF PortLoops
  <2>2. \A p \in Ports : Opening(p) => owner[p] # s
    BY <1>1, <2>1 DEF PortLoops
  <2> QED
    BY <2>1, <2>2 DEF Started, Live, LinkTypeOK
<1>15. \A p \in Ports : owner'[p] = owner[p] /\ pc'[p] = pc[p]
  BY <1>7, <1>8
<1>16. PortLoops'
  <2>1. \A r \in Sups : Live(r)' /\ leaving'[r] => Live(r) /\ leaving[r] /\ r # s /\ pc'[r] = pc[r]
    BY <1>1, <1>5, <1>7, <1>8, <1>10, <1>14
  <2>2. \A p \in Ports : Opening(p)' => Opening(p) /\ owner[p] \in Sups \ {s}
    BY <1>14, <1>15
  <2>3. \A r \in Sups \ {s} : ~Live(r)' /\ pc'[r] # "portWait"
    BY <1>7, <1>8, <1>10, <1>11 DEF Live
  <2> QED
    BY <1>15, <2>1, <2>2, <2>3, <1>11 DEF PortLoops
<1>17. OpenPort'
  <2>1. handle'[s] # "closed"
    BY <1>1, <1>5 DEF OpenPort
  <2>2. \A p \in Ports : pc'[p] = "send" /\ pc'[owner'[p]] = "portWait" => handle'[owner'[p]] # "closed"
    BY <1>5, <1>7, <1>8, <1>14, <1>15 DEF OpenPort, Live
  <2>3. \A h \in Sends \cup Recvs : Live(h)' => handle'[owner'[h]] # "closed"
    BY <1>5, <1>7, <1>8, <1>10, <2>1 DEF OpenPort
  <2>4. \A r \in Sups : pc'[r] \in {"sendStart", "recvStart", "run"} => handle'[r] # "closed"
    BY <1>5, <1>7, <1>8, <2>1 DEF OpenPort
  <2> QED
    BY <2>2, <2>3, <2>4 DEF OpenPort
<1> QED
  BY <1>12, <1>13, <1>16, <1>17

\* The port opened: its loop, whose event the supervisor takes, has yet to return.
LEMMA PortEventStep ==
  ASSUME LinkInv, TypeInv', NEW s \in Sups, NEW p \in Ports, PortEvent(s, p) PROVE LinkInv'
<1> USE LinkAssumption DEF LinkInv, TypeInv, Loops, Opening, calls
<1>1. /\ pc[s] = "portWait" /\ pc[p] = "send" /\ owner[p] = s
      /\ pc' = [pc EXCEPT ![p] = "return", ![s] = "sendStart"]
      /\ watch' = [watch EXCEPT ![s] = {}] /\ portState' = "connected"
      /\ UNCHANGED <<tomb, field, owner, leaving, chanField, supervisorState, handle, sendBuf,
                     plugged, calls>>
  BY DEF PortEvent
<1>2. Live(s) /\ Live(p) /\ p # s
  BY <1>1 DEF Live
<1>3. /\ pc'[p] = "return" /\ pc'[s] = "sendStart"
      /\ \A h \in Loops \ {p, s} : pc'[h] = pc[h]
      /\ \A h \in Loops : Live(h)' <=> Live(h)
  BY <1>1, <1>2 DEF LinkTypeOK, Live
<1>4. \A h \in Sends \cup Recvs : ~Live(h) /\ ~Live(h)'
  BY <1>1, <1>2, <1>3, OneSupervisor DEF Named
<1>5. Named'
  BY <1>1, <1>3, <1>4 DEF Named
<1>6. Waited'
  BY <1>1, <1>2, <1>3, <1>4, OneSupervisor DEF Waited, Named, SupAt
<1>7. ~leaving[s] /\ \A q \in Ports \ {p} : Opening(q) => owner[q] # s
  BY <1>1, <1>2 DEF PortLoops
<1>8. \A q \in Ports : Opening(q)' => Opening(q) /\ q # p /\ owner[q] \in Sups \ {s}
  BY <1>2, <1>3, <1>7 DEF Started, LinkTypeOK, Live
<1>9. \A r \in Sups \ {s} : ~Live(r)' /\ ~Live(r)
  BY <1>2, <1>3, OneSupervisor
<1>10. PortLoops'
  BY <1>1, <1>3, <1>7, <1>8, <1>9 DEF PortLoops, Live
<1>11. OpenPort'
  <2>1. handle[s] # "closed"
    BY <1>1 DEF OpenPort
  <2> QED
    BY <1>1, <1>3, <1>4, <1>8, <1>9, <2>1 DEF OpenPort, Live
<1> QED
  BY <1>5, <1>6, <1>10, <1>11

\* A supervisor's step that does not touch the port loops keeps what is known of them,
\* once it has left its outer loop or has none.
LEMMA PortLoopsKept ==
  ASSUME LinkInv, NEW s \in Sups, Live(s), UNCHANGED owner,
         \A h \in Loops \ {s} : pc'[h] = pc[h],
         pc'[s] \in {"stopRecv", "waitRecv", "stopSend", "waitSend", "close", "exit"}
           \/ (pc'[s] = "portStart" /\ ~leaving'[s]),
         leaving'[s] \/ \A p \in Ports : Opening(p) => owner[p] # s
  PROVE  PortLoops'
<1> USE LinkAssumption DEF LinkInv, TypeInv, Loops, Opening, calls
<1>1. \A r \in Sups \ {s} : ~Live(r)' /\ pc'[r] # "portWait"
  BY OneSupervisor DEF Live
<1>2. \A p \in Ports : pc'[p] = pc[p] /\ owner'[p] = owner[p]
  OBVIOUS
<1>3. \A p \in Ports : Opening(p) => owner[p] \in Sups
  BY DEF Started, Live, LinkTypeOK
<1>4. pc'[s] # "portWait" /\ pc'[s] # "off"
  OBVIOUS
<1>5. \A r \in Sups : Live(r)' /\ leaving'[r] =>
        pc'[r] \in {"stopRecv", "waitRecv", "stopSend", "waitSend", "close", "exit"}
  BY <1>1
<1>6. \A p \in Ports : Opening(p)' => pc'[owner'[p]] # "portWait"
  BY <1>1, <1>2, <1>3, <1>4 DEF Live
<1>7. \A p \in Ports : Opening(p)' /\ pc'[owner'[p]] # "off" => leaving'[owner'[p]]
  BY <1>1, <1>2, <1>3 DEF Live
<1> QED
  BY <1>5, <1>6, <1>7 DEF PortLoops, Live

\* The supervisor leaves, or reconnects: its loops still run.
LEMMA SupDyingStep ==
  ASSUME LinkInv, TypeInv', NEW s \in Sups, SupDying(s) PROVE LinkInv'
<1> USE LinkAssumption DEF LinkInv, TypeInv, Loops, Opening, calls
<1>1. /\ pc[s] \in {"portWait", "run"} /\ pc' = [pc EXCEPT ![s] = "stopRecv"]
      /\ watch' = [watch EXCEPT ![s] = {}] /\ leaving' = [leaving EXCEPT ![s] = TRUE]
      /\ UNCHANGED <<field, owner, chanField, supervisorState, portState, handle, sendBuf, plugged, calls>>
  BY DEF SupDying, Goto
<1>2. Live(s)
  BY <1>1 DEF Live
<1>3. /\ \A h \in Loops \ Ports : tomb'[h] = tomb[h]
      /\ \A h \in Ports : tomb'[h] = tomb[h] \/ (tomb[h] = "alive" /\ tomb'[h] = "dying")
      /\ tomb' \in [Loops -> {"none", "alive", "dying", "dead"}]
  <2>1. CASE pc[s] = "portWait" /\ field.port # None
    <3>1. field.port \in Ports /\ tomb' = [tomb EXCEPT ![field.port] = Killed(field.port)]
      BY <2>1 DEF SupDying, LinkTypeOK
    <3>2. tomb[field.port] \in {"none", "alive", "dying", "dead"}
      BY <3>1 DEF LinkTypeOK
    <3>3. Killed(field.port) \in {"none", "alive", "dying", "dead"}
          /\ (Killed(field.port) = tomb[field.port]
             \/ (tomb[field.port] = "alive" /\ Killed(field.port) = "dying"))
      BY <3>2 DEF Killed
    <3> QED
      BY <3>1, <3>3 DEF LinkTypeOK
  <2>2. CASE ~(pc[s] = "portWait" /\ field.port # None)
    <3>1. tomb' = tomb
      BY <2>2 DEF SupDying, LinkTypeOK
    <3> QED
      BY <3>1 DEF LinkTypeOK
  <2> QED
    BY <2>1, <2>2
<1>5. Named'
  BY <1>1, <1>2, <1>3, OneSupervisor DEF Named, Live, SupAt, LinkTypeOK
<1>6. Waited'
  BY <1>1, <1>2, <1>3, OneSupervisor DEF Waited, Live, SupAt, LinkTypeOK
<1>7. PortLoops'
  BY <1>1, <1>2, PortLoopsKept DEF LinkTypeOK
<1>8. OpenPort'
  <2>1. /\ pc'[s] = "stopRecv" /\ \A h \in Loops \ {s} : pc'[h] = pc[h]
        /\ owner' = owner /\ handle' = handle
    BY <1>1 DEF LinkTypeOK
  <2>2. \A p \in Ports : pc[p] = "send" => owner[p] \in Sups
    BY DEF Started, Live, LinkTypeOK
  <2>3. \A p \in Ports : pc'[p] = "send" /\ pc'[owner'[p]] = "portWait"
                         => handle'[owner'[p]] # "closed"
    BY <2>1, <2>2 DEF OpenPort
  <2>4. \A r \in Sups : pc'[r] \in {"sendStart", "recvStart", "run"} => handle'[r] # "closed"
    BY <2>1 DEF OpenPort
  <2>5. \A g \in Sends \cup Recvs : Live(g)' => handle'[owner'[g]] # "closed"
    BY <2>1 DEF OpenPort, Live
  <2> QED
    BY <2>3, <2>4, <2>5 DEF OpenPort
<1> QED
  BY <1>5, <1>6, <1>7, <1>8

LEMMA SupLoopExitedStep ==
  ASSUME LinkInv, TypeInv', NEW s \in Sups, SupLoopExited(s) PROVE LinkInv'
<1> USE LinkAssumption DEF LinkInv, TypeInv, Loops, Opening, calls
<1>1. /\ pc[s] \in {"portWait", "run"} /\ pc' = [pc EXCEPT ![s] = "stopRecv"]
      /\ watch' = [watch EXCEPT ![s] = {}] /\ leaving' = [leaving EXCEPT ![s] = (pc[s] = "portWait")]
      /\ UNCHANGED <<tomb, field, owner, chanField, supervisorState, portState, handle, sendBuf,
                     plugged, calls>>
  BY DEF SupLoopExited, Goto
<1>2. Live(s)
  BY <1>1 DEF Live
<1>4. Named'
  BY <1>1, <1>2, OneSupervisor DEF Named, Live, SupAt, LinkTypeOK
<1>5. Waited'
  BY <1>1, <1>2, OneSupervisor DEF Waited, Live, SupAt, LinkTypeOK
<1>6. PortLoops'
  <2>1. leaving'[s] \/ \A p \in Ports : Opening(p) => owner[p] # s
    <3>1. CASE pc[s] = "portWait"
      <4>1. leaving \in [Sups -> BOOLEAN] /\ s \in Sups
        BY DEF LinkTypeOK
      <4>2. leaving' = [leaving EXCEPT ![s] = TRUE]
        BY <1>1, <3>1
      <4> QED
        BY <4>1, <4>2
    <3>2. CASE pc[s] = "run"
      BY <1>2, <3>2 DEF PortLoops
    <3> QED
      BY <1>1, <3>1, <3>2
  <2>2. pc'[s] = "stopRecv" /\ \A h \in Loops \ {s} : pc'[h] = pc[h]
    BY <1>1 DEF LinkTypeOK
  <2> QED
    BY <1>1, <1>2, <2>1, <2>2, PortLoopsKept
<1>7. OpenPort'
  BY <1>1 DEF OpenPort, Live, LinkTypeOK
<1> QED
  BY <1>4, <1>5, <1>6, <1>7

\* A loop is killed and waited for, the receive loop before the send loop.
LEMMA StopRecvStep ==
  ASSUME LinkInv, TypeInv', NEW s \in Sups, SupStopRecv(s) PROVE LinkInv'
<1> USE LinkAssumption DEF LinkInv, TypeInv, Loops, Opening, calls
<1> DEFINE g == field.recv
<1>1. UNCHANGED <<lifecycle, handle, sendBuf, plugged, calls>>
  BY DEF SupStopRecv, StopLoop, WaitLoop
<1>2. pc[s] \in {"stopRecv", "waitRecv"} /\ Live(s) /\ s \in Loops
  BY DEF SupStopRecv, StopLoop, WaitLoop, Live
<1>3. field.sup = s /\ \A r \in Sups \ {s} : ~Live(r)
  BY <1>2, OneSupervisor
<1>4. CASE pc[s] = "stopRecv" /\ Alive(g)
  <2>1. /\ tomb' = [tomb EXCEPT ![g] = "dying"] /\ pc' = [pc EXCEPT ![s] = "waitRecv"]
        /\ watch' = [watch EXCEPT ![s] = {g}]
    BY <1>4 DEF SupStopRecv, StopLoop, WaitLoop, Goto
  <2>2. g \in Recvs /\ g # None /\ tomb[g] = "alive"
    BY <1>4 DEF Alive, LinkTypeOK
  <2>3. /\ \A h \in Loops \ {g} : tomb'[h] = tomb[h]
        /\ \A h \in Loops : Live(h)' <=> Live(h)
        /\ \A h \in Loops \ {s} : pc'[h] = pc[h]
        /\ tomb'[g] = "dying" /\ pc'[s] = "waitRecv" /\ watch'[s] = {g}
    BY <1>2, <2>1, <2>2 DEF Live, LinkTypeOK
  <2>5. Named'
    BY <1>1, <1>2, <1>3, <2>2, <2>3 DEF Named, SupAt, lifecycle
  <2>6. Waited'
    BY <1>1, <1>2, <1>3, <2>2, <2>3 DEF Named, Waited, SupAt, lifecycle
  <2>7. PortLoops'
    <3>1. leaving'[s] \/ \A p \in Ports : Opening(p) => owner[p] # s
      BY <1>1, <1>2 DEF PortLoops, lifecycle
    <3> QED
      BY <1>1, <1>2, <2>3, <3>1, PortLoopsKept DEF lifecycle
  <2>8. OpenPort'
    BY <1>1, <1>2, <2>1 DEF OpenPort, Live, LinkTypeOK, lifecycle
  <2> QED
    BY <2>5, <2>6, <2>7, <2>8
<1>5. CASE ~(pc[s] = "stopRecv" /\ Alive(g))
  <2>1. /\ tomb' = tomb /\ pc' = [pc EXCEPT ![s] = "stopSend"] /\ watch' = [watch EXCEPT ![s] = {}]
    BY <1>5 DEF SupStopRecv, StopLoop, WaitLoop, Goto
  <2>2. \A h \in Recvs : ~Live(h)
    <3>1. CASE pc[s] = "stopRecv"
      <4>1. ~Alive(g) /\ \A h \in Recvs : tomb[h] # "dying"
        BY <1>3, <1>5, <3>1 DEF Waited, SupAt
      <4> QED
        BY <4>1 DEF Named, Alive
    <3>2. CASE pc[s] = "waitRecv"
      <4>1. watch[s] = {g} /\ \A h \in watch[s] : tomb[h] = "dead"
        BY <1>3, <3>2 DEF SupStopRecv, StopLoop, WaitLoop, Waited, SupAt
      <4> QED
        BY <4>1 DEF Named
    <3> QED
      BY <1>2, <3>1, <3>2
  <2>3. /\ \A h \in Loops : Live(h)' <=> Live(h)
        /\ \A h \in Loops \ {s} : pc'[h] = pc[h]
        /\ pc'[s] = "stopSend"
    BY <1>2, <2>1 DEF Live, LinkTypeOK
  <2>5. Named'
    BY <1>1, <1>2, <1>3, <2>1, <2>2, <2>3 DEF Named, SupAt, lifecycle
  <2>6. Waited'
    BY <1>1, <1>2, <1>3, <2>1, <2>2, <2>3 DEF Named, Waited, SupAt, lifecycle
  <2>7. PortLoops'
    <3>1. leaving'[s] \/ \A p \in Ports : Opening(p) => owner[p] # s
      BY <1>1, <1>2 DEF PortLoops, lifecycle
    <3> QED
      BY <1>1, <1>2, <2>3, <3>1, PortLoopsKept DEF lifecycle
  <2>8. OpenPort'
    BY <1>1, <1>2, <2>1 DEF OpenPort, Live, LinkTypeOK, lifecycle
  <2> QED
    BY <2>5, <2>6, <2>7, <2>8
<1> QED
  BY <1>4, <1>5

LEMMA StopSendStep ==
  ASSUME LinkInv, TypeInv', NEW s \in Sups, SupStopSend(s) PROVE LinkInv'
<1> USE LinkAssumption DEF LinkInv, TypeInv, Loops, Opening, calls
<1> DEFINE g == field.send
<1>1. UNCHANGED <<lifecycle, handle, sendBuf, plugged, calls>>
  BY DEF SupStopSend, StopLoop, WaitLoop
<1>2. pc[s] \in {"stopSend", "waitSend"} /\ Live(s) /\ s \in Loops
  BY DEF SupStopSend, StopLoop, WaitLoop, Live
<1>3. field.sup = s /\ \A r \in Sups \ {s} : ~Live(r)
  BY <1>2, OneSupervisor
<1>4. CASE pc[s] = "stopSend" /\ Alive(g)
  <2>1. /\ tomb' = [tomb EXCEPT ![g] = "dying"] /\ pc' = [pc EXCEPT ![s] = "waitSend"]
        /\ watch' = [watch EXCEPT ![s] = {g}]
    BY <1>4 DEF SupStopSend, StopLoop, WaitLoop, Goto
  <2>2. g \in Sends /\ g # None /\ tomb[g] = "alive"
    BY <1>4 DEF Alive, LinkTypeOK
  <2>3. /\ \A h \in Loops \ {g} : tomb'[h] = tomb[h]
        /\ \A h \in Loops : Live(h)' <=> Live(h)
        /\ \A h \in Loops \ {s} : pc'[h] = pc[h]
        /\ tomb'[g] = "dying" /\ pc'[s] = "waitSend" /\ watch'[s] = {g}
    BY <1>2, <2>1, <2>2 DEF Live, LinkTypeOK
  <2>5. Named'
    BY <1>1, <1>2, <1>3, <2>2, <2>3 DEF Named, SupAt, lifecycle
  <2>6. Waited'
    BY <1>1, <1>2, <1>3, <2>2, <2>3 DEF Named, Waited, SupAt, lifecycle
  <2>7. PortLoops'
    <3>1. leaving'[s] \/ \A p \in Ports : Opening(p) => owner[p] # s
      BY <1>1, <1>2 DEF PortLoops, lifecycle
    <3> QED
      BY <1>1, <1>2, <2>3, <3>1, PortLoopsKept DEF lifecycle
  <2>8. OpenPort'
    BY <1>1, <1>2, <2>1 DEF OpenPort, Live, LinkTypeOK, lifecycle
  <2> QED
    BY <2>5, <2>6, <2>7, <2>8
<1>5. CASE ~(pc[s] = "stopSend" /\ Alive(g))
  <2>1. /\ tomb' = tomb /\ pc' = [pc EXCEPT ![s] = "close"] /\ watch' = [watch EXCEPT ![s] = {}]
    BY <1>5 DEF SupStopSend, StopLoop, WaitLoop, Goto
  <2>2. \A h \in Sends : ~Live(h)
    <3>1. CASE pc[s] = "stopSend"
      <4>1. ~Alive(g) /\ \A h \in Sends : tomb[h] # "dying"
        BY <1>3, <1>5, <3>1 DEF Waited, SupAt
      <4> QED
        BY <4>1 DEF Named, Alive
    <3>2. CASE pc[s] = "waitSend"
      <4>1. watch[s] = {g} /\ \A h \in watch[s] : tomb[h] = "dead"
        BY <1>3, <3>2 DEF SupStopSend, StopLoop, WaitLoop, Waited, SupAt
      <4> QED
        BY <4>1 DEF Named
    <3> QED
      BY <1>2, <3>1, <3>2
  <2>3. /\ \A h \in Loops : Live(h)' <=> Live(h)
        /\ \A h \in Loops \ {s} : pc'[h] = pc[h]
        /\ pc'[s] = "close"
    BY <1>2, <2>1 DEF Live, LinkTypeOK
  <2>5. Named'
    BY <1>1, <1>2, <1>3, <2>1, <2>2, <2>3 DEF Named, SupAt, lifecycle
  <2>6. Waited'
    BY <1>1, <1>2, <1>3, <2>1, <2>2, <2>3 DEF Named, Waited, SupAt, lifecycle
  <2>7. PortLoops'
    <3>1. leaving'[s] \/ \A p \in Ports : Opening(p) => owner[p] # s
      BY <1>1, <1>2 DEF PortLoops, lifecycle
    <3> QED
      BY <1>1, <1>2, <2>3, <3>1, PortLoopsKept DEF lifecycle
  <2>8. OpenPort'
    BY <1>1, <1>2, <2>1 DEF OpenPort, Live, LinkTypeOK, lifecycle
  <2> QED
    BY <2>5, <2>6, <2>7, <2>8
<1> QED
  BY <1>4, <1>5

LEMMA CloseStep ==
  ASSUME LinkInv, TypeInv', NEW s \in Sups, SupClose(s) PROVE LinkInv'
<1> USE LinkAssumption DEF LinkInv, TypeInv, Loops, Opening, calls
<1> DEFINE next == IF leaving[s] THEN "exit" ELSE "portStart"
<1>1. /\ pc[s] = "close" /\ pc' = [pc EXCEPT ![s] = next] /\ watch' = [watch EXCEPT ![s] = {}]
      /\ handle' = [handle EXCEPT ![s] = "closed"]
      /\ UNCHANGED <<tomb, lifecycle, sendBuf, plugged, calls>>
  BY DEF SupClose, Goto
<1>2. Live(s)
  BY <1>1 DEF Live
<1>4. /\ field.sup = s /\ \A r \in Sups \ {s} : ~Live(r)
      /\ \A h \in Sends \cup Recvs : ~Live(h)
  BY <1>1, <1>2, OneSupervisor DEF Named
<1>5. /\ \A h \in Loops : Live(h)' <=> Live(h)
      /\ \A h \in Loops \ {s} : pc'[h] = pc[h]
      /\ pc'[s] = next /\ next \in {"exit", "portStart"}
  BY <1>1, <1>2 DEF Live, LinkTypeOK
<1>6. Named'
  BY <1>1, <1>4, <1>5 DEF Named, lifecycle
<1>7. Waited'
  BY <1>1, <1>2, <1>4, <1>5 DEF Named, Waited, SupAt, lifecycle
<1>8. PortLoops'
  <2>1. leaving'[s] \/ \A p \in Ports : Opening(p) => owner[p] # s
    BY <1>1, <1>2 DEF PortLoops, lifecycle
  <2>2. pc'[s] = "exit" \/ (pc'[s] = "portStart" /\ ~leaving'[s])
    BY <1>1, <1>5 DEF lifecycle
  <2> QED
    BY <1>1, <1>2, <1>5, <2>1, <2>2, PortLoopsKept DEF lifecycle
<1>9. OpenPort'
  <2>1. \A p \in Ports : pc'[p] = "send" => pc'[owner'[p]] # "portWait"
    BY <1>1, <1>4, <1>5 DEF Started, Named, LinkTypeOK, Live, lifecycle
  <2>2. \A r \in Sups : pc'[r] \notin {"sendStart", "recvStart", "run"}
    BY <1>4, <1>5 DEF Live
  <2> QED
    BY <1>4, <1>5, <2>1, <2>2 DEF OpenPort
<1> QED
  BY <1>6, <1>7, <1>8, <1>9

LEMMA ExitStep ==
  ASSUME LinkInv, TypeInv', NEW s \in Sups, SupExit(s) PROVE LinkInv'
<1> USE LinkAssumption DEF LinkInv, TypeInv, Loops, Opening, calls
<1>1. /\ pc[s] = "exit" /\ pc' = [pc EXCEPT ![s] = "off"] /\ watch' = [watch EXCEPT ![s] = {}]
      /\ tomb' = [tomb EXCEPT ![s] = "dead"] /\ supervisorState' = "inactive"
      /\ portState' = "unknown"
      /\ UNCHANGED <<field, owner, leaving, chanField, handle, plugged, calls>>
  BY DEF SupExit, Return
<1>2. Live(s)
  BY <1>1 DEF Live
<1>4. /\ field.sup = s /\ \A r \in Sups \ {s} : ~Live(r)
      /\ \A h \in Sends \cup Recvs : ~Live(h)
  BY <1>1, <1>2, OneSupervisor DEF Named
<1>5. /\ \A h \in Loops \ {s} : (Live(h)' <=> Live(h)) /\ tomb'[h] = tomb[h] /\ pc'[h] = pc[h]
      /\ pc'[s] = "off" /\ tomb'[s] = "dead"
  BY <1>1, <1>2 DEF Live, LinkTypeOK
<1>6. Named'
  BY <1>1, <1>4, <1>5 DEF Named, Live
<1>7. Waited'
  BY <1>1, <1>2, <1>4, <1>5 DEF Named, Waited, SupAt, Live
<1>8. \A r \in Sups : pc'[r] = "off"
  BY <1>4, <1>5 DEF Live
<1>9. \A p \in Ports : Opening(p)' => owner'[p] \in Sups
  BY <1>1, <1>5 DEF Started, Named, LinkTypeOK, Live
<1>10. PortLoops' /\ OpenPort'
  BY <1>4, <1>5, <1>8, <1>9 DEF PortLoops, OpenPort, Live
<1> QED
  BY <1>6, <1>7, <1>10

\* A loop the supervisor started moves on or returns; it changes no field, and closes nothing.
LEMMA LoopMoves ==
  ASSUME LinkInv, NEW g \in Loops \ Sups, Live(g), UNCHANGED <<lifecycle, calls>>,
         NEW l \in Labels, pc' = [pc EXCEPT ![g] = l], pc[g] = "return" => l = "off",
         \/ l # "off" /\ UNCHANGED tomb
         \/ l = "off" /\ tomb' = [tomb EXCEPT ![g] = "dead"],
         \A h \in Loops \ {g} : watch'[h] = watch[h],
         \A r \in Sups : handle'[r] = "closed" => handle[r] = "closed",
         l = "send" => handle'[owner[g]] # "closed"
  PROVE  Named' /\ Waited' /\ PortLoops' /\ OpenPort'
<1> USE LinkAssumption DEF LinkInv, TypeInv, Loops, Opening, calls, lifecycle
<1>1. /\ \A h \in Loops \ {g} : pc'[h] = pc[h] /\ tomb'[h] = tomb[h] /\ (Live(h)' <=> Live(h))
      /\ pc'[g] = l /\ (Live(g)' <=> l # "off") /\ (tomb'[g] = tomb[g] \/ tomb'[g] = "dead")
      /\ g \notin Sups /\ g \in Loops
  BY DEF Live, LinkTypeOK
<1>2. Live(g)' <=> tomb'[g] \in {"alive", "dying"}
  BY DEF Named, Live, LinkTypeOK
<1>3. field.sup # None => field.sup \in Loops \ {g}
  BY <1>1 DEF LinkTypeOK
<1>4. \A labels : (field'.sup # None /\ pc'[field'.sup] \in labels) <=> SupAt(labels)
  BY <1>1, <1>3 DEF SupAt
<1>5. /\ \A h \in Loops : Live(h)' => Live(h)
      /\ \A p \in Ports : Opening(p)' => Opening(p)
  BY <1>1 DEF Live
<1>6. Named'
  <2>1. \A h \in Loops : Live(h)' <=> tomb'[h] \in {"alive", "dying"}
    BY <1>1, <1>2 DEF Named
  <2>2. \A r \in Sups : Live(r)' => r = field'.sup
    BY <1>5 DEF Named
  <2>4. \A h \in Sends : Live(h)' =>
          /\ h = field'.send /\ owner'[h] = field'.sup
          /\ SupAt({"recvStart", "run", "stopRecv", "waitRecv", "stopSend", "waitSend"})'
    BY <1>4, <1>5 DEF Named, SupAt
  <2>5. \A h \in Recvs : Live(h)' =>
          h = field'.recv /\ owner'[h] = field'.sup /\ SupAt({"run", "stopRecv", "waitRecv"})'
    BY <1>4, <1>5 DEF Named, SupAt
  <2> QED
    BY <2>1, <2>2, <2>4, <2>5 DEF Named
<1>7. Waited'
  <2>1. \A h \in Loops : tomb'[h] = "dying" => tomb[h] = "dying"
    BY <1>1
  <2>2. field.sup # None => watch'[field.sup] = watch[field.sup] /\ tomb'[field.sup] = tomb[field.sup]
    BY <1>1, <1>3
  <2>3. \A h \in Recvs : tomb'[h] = "dying" => SupAt({"waitRecv"})'
    BY <1>4, <2>1 DEF Waited, SupAt
  <2>4. \A h \in Sends : tomb'[h] = "dying" => SupAt({"waitSend"})'
    BY <1>4, <2>1 DEF Waited, SupAt
  <2>5. SupAt({"waitRecv"})' => field'.recv # None /\ watch'[field'.sup] = {field'.recv}
    BY <1>4, <2>2 DEF Waited, SupAt
  <2>6. SupAt({"waitSend"})' => field'.send # None /\ watch'[field'.sup] = {field'.send}
    BY <1>4, <2>2 DEF Waited, SupAt
  <2>8. \A o \in Operators : op'[o].at = "starting" =>
          /\ \A r \in Sups : ~Live(r)'
          /\ \A q \in Operators : op'[q].at = "starting" => q = o
    BY <1>5 DEF Waited
  <2>9. field'.sup # None /\ tomb'[field'.sup] = "dying" =>
          \E o \in Operators : op'[o].at = "stopping" /\ op'[o].sup = field'.sup
    BY <2>2 DEF Waited
  <2> QED
    BY <2>3, <2>4, <2>5, <2>6, <2>8, <2>9 DEF Waited
<1>8. \A r \in Sups : pc'[r] = pc[r]
  BY <1>1
<1>9. \A p \in Ports : Opening(p)' => owner[p] \in Sups /\ pc'[owner[p]] = pc[owner[p]]
  BY <1>5, <1>8 DEF Started, Live, LinkTypeOK
<1>10. PortLoops'
  <2>1. \A r \in Sups : Live(r)' /\ leaving'[r] =>
          pc'[r] \in {"stopRecv", "waitRecv", "stopSend", "waitSend", "close", "exit"}
    BY <1>5, <1>8 DEF PortLoops
  <2>2. \A p \in Ports : Opening(p)' /\ pc'[owner[p]] # "off" => leaving'[owner[p]] \/ pc'[owner[p]] = "portWait"
    BY <1>5, <1>9 DEF PortLoops, Live
  <2>3. \A p, q \in Ports : Opening(p)' /\ Opening(q)' /\ owner[p] = owner[q] =>
          p = q \/ pc'[owner[p]] # "portWait"
    BY <1>5, <1>9 DEF PortLoops
  <2> QED
    BY <2>1, <2>2, <2>3 DEF PortLoops, Live
<1>11. OpenPort'
  <2>1. \A p \in Ports : pc'[p] = "send" /\ pc'[owner[p]] = "portWait" => handle'[owner[p]] # "closed"
    BY <1>1, <1>9 DEF OpenPort, Live
  <2>2. \A r \in Sups : pc'[r] \in {"sendStart", "recvStart", "run"} => handle'[r] # "closed"
    BY <1>8 DEF OpenPort
  <2>3. \A h \in Sends \cup Recvs : Live(h)' => owner[h] \in Sups /\ handle'[owner[h]] # "closed"
    BY <1>5 DEF OpenPort, Named, LinkTypeOK, SupAt
  <2> QED
    BY <2>1, <2>2, <2>3 DEF OpenPort
<1> QED
  BY <1>6, <1>7, <1>10, <1>11

LEMMA PortStep ==
  ASSUME LinkInv, TypeInv', NEW p \in Ports, PortOpen(p) \/ PortDying(p) \/ PortReturn(p)
  PROVE  LinkInv'
<1> USE LinkAssumption DEF LinkInv, TypeInv, Loops, Opening, calls
<1>1. Live(p) /\ owner[p] \in Sups /\ field.port \in Loops
  BY DEF PortOpen, PortDying, PortReturn, Live, Started, LinkTypeOK
<1>2. CASE PortOpen(p) /\ CanOpen
  <2>1. /\ handle' = [handle EXCEPT ![owner[p]] = "good"] /\ pc' = [pc EXCEPT ![p] = "send"]
        /\ pc[p] # "return"
        /\ watch' = [watch EXCEPT ![p] = {}]
        /\ UNCHANGED <<tomb, lifecycle, sendBuf, plugged, calls>>
    BY <1>2 DEF PortOpen, Goto
  <2>3. \A r \in Sups : handle'[r] = "closed" => handle[r] = "closed"
    BY <1>1, <2>1 DEF LinkTypeOK
  <2>4. handle'[owner[p]] = "good" /\ p \in Loops \ Sups /\ "send" \in Labels
    BY <1>1, <2>1 DEF LinkTypeOK, Labels
  <2>5. \A h \in Loops \ {p} : watch'[h] = watch[h]
    BY <2>1 DEF LinkTypeOK
  <2> QED
    BY <1>1, <2>1, <2>3, <2>4, <2>5, LoopMoves
<1>3. CASE PortOpen(p) /\ ~CanOpen
  <2>1. /\ pc[p] # "return"
        /\ pc' = [pc EXCEPT ![p] = "backoff"] /\ watch' = [watch EXCEPT ![p] = {field.port}]
        /\ UNCHANGED <<tomb, lifecycle, handle, sendBuf, plugged, calls>>
    BY <1>3 DEF PortOpen, Goto
  <2> QED
    BY <1>1, <2>1, LoopMoves DEF LinkTypeOK, Labels
<1>4. CASE PortDying(p) \/ PortReturn(p)
  <2>1. /\ pc' = [pc EXCEPT ![p] = "off"] /\ watch' = [watch EXCEPT ![p] = {}]
        /\ tomb' = [tomb EXCEPT ![p] = "dead"]
        /\ UNCHANGED <<lifecycle, handle, sendBuf, plugged, calls>>
    BY <1>4 DEF PortDying, PortReturn, Return
  <2> QED
    BY <1>1, <2>1, LoopMoves DEF LinkTypeOK, Labels
<1> QED
  BY <1>2, <1>3, <1>4

LEMMA SendLoopStep ==
  ASSUME LinkInv, TypeInv', NEW g \in Sends, SendTake(g) \/ SendChannels(g) \/ SendDying(g)
  PROVE  LinkInv'
<1> USE LinkAssumption DEF LinkInv, TypeInv, Loops, Opening, calls
<1>1. Live(g) /\ g \in Loops \ Sups /\ owner[g] \in Sups /\ field.send = g
  BY DEF SendTake, SendChannels, SendDying, Live, Named, LinkTypeOK, SupAt
<1>3. CASE SendExit(g)
  <2>1. /\ pc' = [pc EXCEPT ![g] = "off"] /\ watch' = [watch EXCEPT ![g] = {}]
        /\ tomb' = [tomb EXCEPT ![g] = "dead"] /\ UNCHANGED <<lifecycle, handle, plugged, calls>>
    BY <1>3 DEF SendExit, Return
  <2> QED
    BY <1>1, <2>1, LoopMoves DEF LinkTypeOK, Labels
<1>4. CASE ~SendExit(g)
  <2>1. /\ pc[g] # "return"
        /\ pc' = [pc EXCEPT ![g] = "run"] /\ watch' = [watch EXCEPT ![g] = {g}]
        /\ UNCHANGED <<tomb, lifecycle, handle, plugged, calls>>
    BY <1>1, <1>4 DEF SendTake, SendChannels, SendDying, Goto
  <2> QED
    BY <1>1, <2>1, LoopMoves DEF LinkTypeOK, Labels
<1> QED
  BY <1>3, <1>4

LEMMA RecvLoopStep ==
  ASSUME LinkInv, TypeInv', NEW g \in Recvs, RecvRequest(g) \/ RecvPush(g) \/ RecvDying(g)
  PROVE  LinkInv'
<1> USE LinkAssumption DEF LinkInv, TypeInv, Loops, Opening, calls
<1>1. Live(g) /\ g \in Loops \ Sups /\ owner[g] \in Sups /\ field.recv = g
  BY DEF RecvRequest, RecvPush, RecvDying, Live, Named, LinkTypeOK, SupAt
<1>3. CASE RecvDying(g)
  <2>1. /\ pc' = [pc EXCEPT ![g] = "off"] /\ watch' = [watch EXCEPT ![g] = {}]
        /\ tomb' = [tomb EXCEPT ![g] = "dead"] /\ UNCHANGED <<lifecycle, handle, plugged, calls>>
    BY <1>3 DEF RecvDying, Return
  <2> QED
    BY <1>1, <2>1, LoopMoves DEF LinkTypeOK, Labels
<1>4. CASE RecvRequest(g) \/ RecvPush(g)
  <2>1. PICK l \in {"modelId", "other", "run"} :
          /\ pc[g] # "return"
          /\ pc' = [pc EXCEPT ![g] = l] /\ watch' = [watch EXCEPT ![g] = {g}]
          /\ UNCHANGED <<tomb, lifecycle, handle, plugged, calls>>
    BY <1>1, <1>4 DEF RecvRequest, RecvPush, Goto
  <2> QED
    BY <1>1, <2>1, LoopMoves DEF LinkTypeOK, Labels
<1> QED
  BY <1>3, <1>4

LEMMA EnvironmentStep ==
  ASSUME LinkInv, TypeInv',
         Unplug \/ Plug \/ (\E s \in Sups : RequestSend(s)) \/ UNCHANGED vars PROVE LinkInv'
<1> USE DEF LinkInv, TypeInv, Opening, calls, goroutines, lifecycle
<1>1. UNCHANGED <<tomb, pc, watch, field, owner, leaving, chanField, supervisorState, portState, calls>>
  BY DEF Unplug, Plug, RequestSend, vars
<1>2. Named' /\ Waited' /\ PortLoops'
  BY <1>1 DEF Named, Waited, PortLoops, SupAt, Live
<1>3. \A s \in Sups : handle'[s] = "closed" => handle[s] = "closed"
  <2>1. CASE Unplug
    BY <2>1 DEF Unplug, LinkTypeOK
  <2>2. CASE ~Unplug
    BY <2>2 DEF Plug, RequestSend, vars
  <2> QED
    BY <2>1, <2>2
<1>6. \A p \in Ports : Opening(p) => owner[p] \in Sups
  BY LinkAssumption DEF Started, Live, LinkTypeOK, Loops
<1>7. \A g \in Sends \cup Recvs : Live(g) => owner[g] \in Sups
  BY LinkAssumption DEF Started, Named, LinkTypeOK, SupAt, Loops
<1>8. OpenPort'
  BY <1>1, <1>3, <1>6, <1>7 DEF OpenPort, Live
<1> QED
  BY <1>2, <1>8

-----------------------------------------------------------------------------
LEMMA LinkInit == ASSUME Init PROVE LinkInv
<1> USE LinkAssumption DEF Init, Loops
<1>1. LinkTypeOK /\ Started
  BY TypeInit DEF TypeInv
<1>2. Named /\ Waited /\ PortLoops /\ OpenPort
  BY DEF Named, Waited, PortLoops, OpenPort, SupAt, Live, Opening
<1> QED
  BY <1>1, <1>2 DEF LinkInv

LEMMA LinkStep == ASSUME LinkInv, [Next]_vars, TypeInv', ~overtaken' PROVE LinkInv'
<1>1. CASE \E s \in Sups : Supervisor(s) \/ SupDying(s)
  BY <1>1, EnterStep, StartPortStep, StartSendStep, StartRecvStep, PortEventStep, SupDyingStep,
     SupLoopExitedStep, StopRecvStep, StopSendStep, CloseStep, ExitStep DEF Supervisor
<1>2. CASE \E o \in Operators : StartCheck(o) \/ StartCreate(o) \/ Stop(o) \/ StopReturn(o)
  BY <1>2, OperatorStep
<1>3. CASE \E p \in Ports : PortOpen(p) \/ PortDying(p) \/ PortReturn(p)
  BY <1>3, PortStep
<1>4. CASE \E g \in Sends : SendTake(g) \/ SendChannels(g) \/ SendDying(g)
  BY <1>4, SendLoopStep
<1>5. CASE \E g \in Recvs : RecvRequest(g) \/ RecvPush(g) \/ RecvDying(g)
  BY <1>5, RecvLoopStep
<1>6. CASE Unplug \/ Plug \/ (\E s \in Sups : RequestSend(s)) \/ UNCHANGED vars
  BY <1>6, EnvironmentStep
<1> QED
  BY <1>1, <1>2, <1>3, <1>4, <1>5, <1>6 DEF Next

\* What was overtaken stays so.
LEMMA OvertakenStays == ASSUME TypeInv, [Next]_vars, overtaken PROVE overtaken'
<1> USE DEF calls
<1>1. CASE \E s \in Sups : Supervisor(s) \/ SupDying(s)
  BY <1>1 DEF Supervisor, SupEnter, SupStartPort, SupStartSend, SupStartRecv, StartLoop, PortEvent,
     SupDying, SupLoopExited, SupStopRecv, SupStopSend, StopLoop, WaitLoop, SupClose, SupExit
<1>2. CASE \E o \in Operators : StartCheck(o) \/ StartCreate(o) \/ Stop(o) \/ StopReturn(o)
  BY <1>2 DEF StartCheck, StartCreate, Stop, StopReturn
<1>3. CASE \E p \in Ports : PortOpen(p) \/ PortDying(p) \/ PortReturn(p)
  BY <1>3 DEF PortOpen, PortDying, PortReturn
<1>4. CASE \E g \in Sends : SendTake(g) \/ SendChannels(g) \/ SendDying(g)
  BY <1>4 DEF SendTake, SendChannels, SendDying, SendExit
<1>5. CASE \E g \in Recvs : RecvRequest(g) \/ RecvPush(g) \/ RecvDying(g)
  BY <1>5 DEF RecvRequest, RecvPush, RecvDying
<1>6. CASE Unplug \/ Plug \/ (\E s \in Sups : RequestSend(s)) \/ UNCHANGED vars
  BY <1>6 DEF Unplug, Plug, RequestSend, vars
<1> QED
  BY <1>1, <1>2, <1>3, <1>4, <1>5, <1>6 DEF Next

LEMMA LinkInvariant == LinkSpec => [](~overtaken => LinkInv)
<1> DEFINE I == TypeInv /\ (~overtaken => LinkInv)
<1>1. Init => I
  BY TypeInit, LinkInit
<1>2. I /\ [Next]_vars => I'
  <2> SUFFICES ASSUME I, [Next]_vars PROVE I'
    OBVIOUS
  <2>1. TypeInv'
    BY TypeStep
  <2>2. ASSUME ~overtaken' PROVE LinkInv'
    <3>1. ~overtaken
      BY <2>2, OvertakenStays
    <3> QED
      BY <2>1, <2>2, <3>1, LinkStep
  <2> QED
    BY <2>1, <2>2
<1>3. I => (~overtaken => LinkInv)
  OBVIOUS
<1> QED
  BY <1>1, <1>2, <1>3, PTL DEF LinkSpec

\* As long as no start has overtaken another call, at most one supervisor, send loop and
\* receive loop run, however often the link reconnects: that every loop is refused while
\* the one of its field is alive (supervisor.go:17, send.go:21, recv.go:74) is enough.
\* The condition is what the code lacks: nothing orders the StartLink and StopLink calls.
THEOREM OneOfEach == LinkSpec => []SingleWriter
<1>1. (~overtaken => LinkInv) => SingleWriter
  BY InvImplies DEF SingleWriter
<1> QED
  BY <1>1, LinkInvariant, PTL

\* Under the same condition, the supervisor closes the port only after both loops that use
\* it have returned, whether it leaves or reconnects.
THEOREM PortOutlivesItsLoops == LinkSpec => []ClosedOnlyAfterLoops
<1>1. (~overtaken => LinkInv) => ClosedOnlyAfterLoops
  BY InvImplies DEF ClosedOnlyAfterLoops
<1> QED
  BY <1>1, LinkInvariant, PTL

=============================================================================
