------------------------ MODULE DeviceRegistryProofs ------------------------
(***************************************************************************)
(* Proofs about DeviceRegistry, for any gamepads, whatever ids they derive, *)
(* and any number of readers: types, that a handle that was handed out     *)
(* stays open until Quit, that the registry holds what is attached and     *)
(* counts what is open but for the entries it overwrote, and that it       *)
(* overwrites none unless three gamepads of one id are about.              *)
(***************************************************************************)
EXTENDS DeviceRegistry, SequenceTheorems, FiniteSetTheorems, WellFoundedInduction, TLAPS

\* SDL's list holds instances.
Enumeration ==
  pads \in Seq(Pads) /\ Len(pads) <= MaxPlugs /\ sdl \in Seq(1 .. Len(pads))

\* While the poll loop runs, what the registry answers with is open.
Answered ==
  /\ \A id \in DOMAIN Gamepads : Gamepads[id] \in Instances
  /\ polling => /\ opens \in [Instances -> Nat]
                /\ \A id \in DOMAIN Gamepads : opens[Gamepads[id]] > 0

\* And so is what a reader holds.
Held ==
  /\ reading \in [Readers -> Instances \cup {None}]
  /\ polling => \A r \in Readers : reading[r] # None => opens[reading[r]] > 0

HandleInv == Enumeration /\ Answered /\ Held

LEMMA Starts == ASSUME Init PROVE HandleInv
<1> USE DeviceAssumption
<1>1. PICK attached \in SUBSET Pads : pads \in SetToSeqs(attached)
  BY DEF Init
<1>2. Cardinality(attached) \in Nat
  BY FS_Subset, FS_CardinalityType
<1>3. pads \in [1 .. Cardinality(attached) -> attached]
  BY <1>1 DEF SetToSeqs
<1>4. pads \in Seq(Pads) /\ Len(pads) = Cardinality(attached) /\ DOMAIN pads = 1 .. Len(pads)
  BY <1>2, <1>3
<1>5. sdl \in Seq(1 .. Len(pads))
  <2>1. sdl = [k \in 1 .. Len(pads) |-> k]
    BY <1>4 DEF Init
  <2> QED
    BY <1>2, <1>4, <2>1
<1>6. Enumeration
  BY <1>4, <1>5 DEF Init, Enumeration
<1>7. \A id \in DOMAIN Gamepads : Gamepads[id] \in DOMAIN pads
  BY DEF Init, Enumerated
<1>8. DOMAIN pads \subseteq Instances
  BY <1>4, <1>6 DEF Instances, Enumeration
<1>9. opens \in [Instances -> Nat] /\ \A i \in DOMAIN pads : opens[i] > 0
  BY <1>8 DEF Init
<1>10. Answered
  BY <1>7, <1>8, <1>9 DEF Answered
<1>11. Held
  BY DEF Init, Held
<1> QED
  BY <1>6, <1>10, <1>11 DEF HandleInv

\* The gamepads come and go.
LEMMA EnumerationKept == ASSUME HandleInv, [Next]_vars PROVE Enumeration'
<1> USE DeviceAssumption DEF HandleInv, Enumeration
<1>1. ASSUME NEW p \in Pads, Plug(p) PROVE Enumeration'
  <2>1. /\ pads' = Append(pads, p) /\ Len(pads) < MaxPlugs
        /\ sdl' = Append(sdl, Len(pads'))
    BY <1>1 DEF Plug
  <2>2. pads' \in Seq(Pads) /\ Len(pads') = Len(pads) + 1 /\ Len(pads) \in Nat
    BY <2>1, AppendProperties
  <2>3. sdl \in Seq(1 .. Len(pads'))
    <3> DEFINE n == Len(pads)  m == Len(pads')
    <3>1. \A j \in 1 .. n : j \in 1 .. m
      BY <2>2
    <3>2. Len(sdl) \in Nat /\ sdl \in [1 .. Len(sdl) -> 1 .. n]
      OBVIOUS
    <3> HIDE DEF n, m
    <3>3. sdl \in [1 .. Len(sdl) -> 1 .. m]
      BY <3>1, <3>2
    <3> QED
      BY <3>2, <3>3 DEF m
  <2>4. sdl' \in Seq(1 .. Len(pads'))
    BY <2>1, <2>2, <2>3, AppendProperties
  <2> QED
    BY <2>1, <2>2, <2>4
<1>2. ASSUME NEW k \in DOMAIN sdl, Unplug(k) PROVE Enumeration'
  <2>1. sdl' = SubSeq(sdl, 1, k - 1) \o SubSeq(sdl, k + 1, Len(sdl)) /\ pads' = pads
    BY <1>2 DEF Unplug, RemoveAt
  <2>2. k \in 1 .. Len(sdl) /\ Len(sdl) \in Nat /\ \A j \in 1 .. Len(sdl) : sdl[j] \in 1 .. Len(pads)
    OBVIOUS
  <2>3. SubSeq(sdl, 1, k - 1) \in Seq(1 .. Len(pads))
    BY <2>2, SubSeqProperties
  <2>4. SubSeq(sdl, k + 1, Len(sdl)) \in Seq(1 .. Len(pads))
    BY <2>2, SubSeqProperties
  <2> QED
    BY <2>1, <2>3, <2>4, ConcatProperties
<1>3. CASE UNCHANGED devices
  BY <1>3 DEF devices
<1> QED
  BY <1>1, <1>2, <1>3 DEF Next, DeviceAdded, DeviceRemoved, Lookup, Release, Quit, vars

\* The poll loop's events.
LEMMA EventsKeep ==
  ASSUME HandleInv, DeviceAdded \/ DeviceRemoved PROVE Answered' /\ Held'
<1> USE DEF HandleInv
<1>1. polling /\ UNCHANGED <<reading, polling>>
  BY DEF DeviceAdded, DeviceRemoved
<1>2. CASE UNCHANGED <<opens, Gamepads>>
  BY <1>1, <1>2 DEF Answered, Held
<1>3. CASE \E i \in Instances : \E id : Opened(i) /\ Register(id, i)
  <2>1. PICK i \in Instances : \E id : Opened(i) /\ Register(id, i)
    BY <1>3
  <2>2. PICK id : Opened(i) /\ Register(id, i)
    BY <2>1
  <2>3. opens \in [Instances -> Nat] /\ opens' = [opens EXCEPT ![i] = opens[i] + 1]
    BY <1>1, <2>2 DEF Opened, Answered
  <2>4. opens' \in [Instances -> Nat] /\ opens'[i] > 0
        /\ \A j \in Instances : opens[j] > 0 => opens'[j] > 0
    BY <2>3
  <2>7. \A r \in Readers : reading[r] # None => reading[r] \in Instances
    BY DEF Held
  <2>5. /\ DOMAIN Gamepads' = DOMAIN Gamepads \cup {id} /\ Gamepads'[id] = i
        /\ \A d \in DOMAIN Gamepads \ {id} : Gamepads'[d] = Gamepads[d]
    BY <2>2 DEF Register
  <2>6. Answered'
    BY <1>1, <2>4, <2>5 DEF Answered
  <2> QED
    BY <1>1, <2>4, <2>6, <2>7 DEF Held
<1>4. CASE UNCHANGED opens /\ \E ids : Dropped(ids)
  <2>1. \A d \in DOMAIN Gamepads' : d \in DOMAIN Gamepads /\ Gamepads'[d] = Gamepads[d]
    BY <1>4 DEF Dropped
  <2> QED
    BY <1>1, <1>4, <2>1 DEF Answered, Held
<1>5. CASE DeviceAdded
  <2> DEFINE index == Head(queue).which
             i == sdl[index + 1]
  <2>1. \/ UNCHANGED <<opens, Gamepads>>
        \/ index + 1 \in DOMAIN sdl /\ Opened(i) /\ Register(NewId(i, index), i)
    BY <1>5 DEF DeviceAdded
  <2>2. index + 1 \in DOMAIN sdl => i \in Instances
    BY DeviceAssumption DEF Enumeration, Instances
  <2> HIDE DEF i, index
  <2> QED
    BY <1>2, <1>3, <2>1, <2>2
<1>6. CASE DeviceRemoved
  BY <1>2, <1>4, <1>6 DEF DeviceRemoved
<1> QED
  BY <1>5, <1>6

LEMMA HandlesKept == ASSUME HandleInv, [Next]_vars PROVE Answered' /\ Held'
<1> USE DEF HandleInv
<1>1. CASE DeviceAdded \/ DeviceRemoved
  BY <1>1, EventsKeep
<1>2. CASE UNCHANGED <<opens, Gamepads, reading, polling>>
  BY <1>2 DEF Answered, Held
<1>3. ASSUME NEW r \in Readers, Lookup(r) PROVE Answered' /\ Held'
  <2>1. PICK id \in DOMAIN Gamepads : reading' = [reading EXCEPT ![r] = Gamepads[id]]
    BY <1>3 DEF Lookup
  <2>2. UNCHANGED <<opens, Gamepads, polling>>
    BY <1>3 DEF Lookup
  <2>3. Gamepads[id] \in Instances /\ (polling => opens[Gamepads[id]] > 0)
    BY DEF Answered
  <2> QED
    BY <2>1, <2>2, <2>3 DEF Answered, Held
<1>4. ASSUME NEW r \in Readers, Release(r) PROVE Answered' /\ Held'
  <2>1. reading' = [reading EXCEPT ![r] = None] /\ UNCHANGED <<opens, Gamepads, polling>>
    BY <1>4 DEF Release
  <2> QED
    BY <2>1 DEF Answered, Held
<1>5. CASE Quit
  <2>1. polling' = FALSE /\ reading' = reading /\ Gamepads' = Gamepads
    BY <1>5 DEF Quit
  <2> QED
    BY <2>1 DEF Answered, Held
<1> QED
  BY <1>1, <1>2, <1>3, <1>4, <1>5 DEF Next, Plug, Unplug, vars

LEMMA HandleInvariant == DeviceSpec => []HandleInv
<1>1. Init => HandleInv
  BY Starts
<1>2. HandleInv /\ [Next]_vars => HandleInv'
  BY EnumerationKept, HandlesKept DEF HandleInv
<1> QED
  BY <1>1, <1>2, PTL DEF DeviceSpec

\* However the gamepads come and go, and whatever ids they share, the handle a reader looked
\* up stays open for as long as the poll loop runs: a removal retires a handle and closes
\* nothing, and so does an entry that is overwritten; only Quit closes, whoever reads
\* (hotplug.go, controller.go).
THEOREM HandlesStayOpen == DeviceSpec => []ReadersSafe
<1>1. HandleInv => ReadersSafe
  BY DEF HandleInv, Held, ReadersSafe
<1> QED
  BY <1>1, HandleInvariant, PTL
-----------------------------------------------------------------------------
(* What the registry holds.                                                 *)

EventType == [type : {"added", "removed"}, which : Nat]

\* A gamepad is attached once.
Apart == \A j, k \in DOMAIN sdl : pads[sdl[j]] = pads[sdl[k]] => j = k

\* A joystick is announced while it is attached, and its removal afterwards, once.
Announced ==
  /\ queue \in Seq(EventType)
  /\ \A n \in DOMAIN queue :
       \/ \E k \in DOMAIN sdl : queue[n] = Added(k - 1)
       \/ \E i \in DOMAIN pads \ Attached : queue[n] = Removed(i)
  /\ \A m, n \in DOMAIN queue : queue[m] = queue[n] => m = n

Registered == {Gamepads[d] : d \in DOMAIN Gamepads}

\* What is registered, retired, overwritten or open has been plugged in.
Known ==
  /\ IsFiniteSet(DOMAIN Gamepads) /\ Registered \cup retired \cup lost \subseteq DOMAIN pads
  /\ opens \in [Instances -> 0 .. 1] /\ \A i \in Instances \ DOMAIN pads : opens[i] = 0

\* A joystick that is open when it is announced was found at start-up: it is registered,
\* and so is each that is announced before it.
FoundFirst ==
  \A n \in DOMAIN queue, k \in DOMAIN sdl :
    queue[n] = Added(k - 1) /\ opens[sdl[k]] # 0
      => \A m \in 1 .. n, j \in DOMAIN sdl : queue[m] = Added(j - 1) => sdl[j] \in Registered

Looked ==
  /\ polling \in BOOLEAN
  /\ reading \in [Readers -> DOMAIN pads \cup {None}]

EventInv == Apart /\ Announced /\ Known /\ FoundFirst /\ Looked

\* A gamepad is registered once, under an id of its own.
Named ==
  /\ \A d \in DOMAIN Gamepads :
       /\ Gamepads[d] \in DOMAIN pads
       /\ d = Bare(Gamepads[d]) \/ \E n \in Nat : d = Suffixed(Gamepads[d], n)
  /\ \A c, d \in DOMAIN Gamepads : pads[Gamepads[c]] = pads[Gamepads[d]] => c = d

\* A registered gamepad is attached, or will be removed.
Alive ==
  \A d \in DOMAIN Gamepads :
    Gamepads[d] \in Attached \/ \E n \in DOMAIN queue : queue[n] = Removed(Gamepads[d])

\* The removal of a gamepad comes before its return.
InTurn ==
  \A n \in DOMAIN queue, k \in DOMAIN sdl, d \in DOMAIN Gamepads :
    queue[n] = Added(k - 1) /\ pads[sdl[k]] = pads[Gamepads[d]] /\ sdl[k] # Gamepads[d]
      => \E m \in 1 .. n - 1 : queue[m] = Removed(Gamepads[d])

\* An attached gamepad is registered, or will be, or was overwritten.
Complete ==
  \A k \in DOMAIN sdl :
    sdl[k] \in Registered \cup lost \/ \E n \in DOMAIN queue : queue[n] = Added(k - 1)

\* What is open is what the registry answers for, and what it overwrote.
Counted ==
  /\ retired \subseteq DOMAIN pads \ Attached
  /\ Registered \cap retired = {} /\ (Registered \cup retired) \cap lost = {}
  /\ opens = [i \in Instances |->
                IF i \in lost \/ (polling /\ i \in Registered \cup retired) THEN 1 ELSE 0]

NameInv == Named /\ Alive /\ InTurn /\ Complete /\ Counted

-----------------------------------------------------------------------------
(* Events, ids, and sequences with an element taken out.                      *)

LEMMA EventsApart ==
  /\ \A a, b : Added(a) = Added(b) => a = b
  /\ \A a, b : Removed(a) = Removed(b) => a = b
  /\ \A a, b : Added(a) # Removed(b)
  /\ \A a : Added(a).type = "added" /\ Added(a).which = a
  /\ \A a : Removed(a).type = "removed" /\ Removed(a).which = a
  /\ \A a \in Nat : Added(a) \in EventType /\ Removed(a) \in EventType
BY DEF Added, Removed, EventType

LEMMA IdsApart ==
  /\ \A i, j, n : Bare(i) # Suffixed(j, n)
  /\ \A i, j : Bare(i) = Bare(j) => Derived[pads[i]] = Derived[pads[j]]
  /\ \A i, j, m, n : Suffixed(i, m) = Suffixed(j, n) => Derived[pads[i]] = Derived[pads[j]]
BY DEF Bare, Suffixed

LEMMA RemoveAtIs ==
  ASSUME NEW S, NEW q \in Seq(S), NEW n \in 1 .. Len(q)
  PROVE  /\ RemoveAt(q, n) \in Seq(S) /\ Len(RemoveAt(q, n)) = Len(q) - 1
         /\ \A m \in 1 .. Len(q) - 1 : RemoveAt(q, n)[m] = IF m < n THEN q[m] ELSE q[m + 1]
<1> DEFINE front == SubSeq(q, 1, n - 1)
           back  == SubSeq(q, n + 1, Len(q))
<1>1. Len(q) \in Nat /\ n \in Nat /\ 1 <= n /\ n <= Len(q) /\ \A m \in 1 .. Len(q) : q[m] \in S
  OBVIOUS
<1>2. /\ front \in Seq(S) /\ Len(front) = n - 1
      /\ \A m \in 1 .. n - 1 : front[m] = q[m]
  BY <1>1, SubSeqProperties
<1>3. /\ back \in Seq(S) /\ Len(back) = Len(q) - n
      /\ \A m \in 1 .. Len(q) - n : back[m] = q[m + n]
  <2>1. /\ back \in Seq(S)
        /\ Len(back) = IF n + 1 <= Len(q) THEN Len(q) - (n + 1) + 1 ELSE 0
        /\ \A m \in 1 .. Len(q) - (n + 1) + 1 : back[m] = q[n + 1 + m - 1]
    BY <1>1, SubSeqProperties
  <2> QED
    BY <1>1, <2>1
<1> HIDE DEF front, back
<1>4. /\ front \o back \in Seq(S) /\ Len(front \o back) = Len(q) - 1
      /\ \A m \in 1 .. Len(q) - 1 :
           (front \o back)[m] = IF m <= n - 1 THEN front[m] ELSE back[m - (n - 1)]
  <2>1. /\ front \o back \in Seq(S) /\ Len(front \o back) = Len(front) + Len(back)
        /\ \A m \in 1 .. Len(front) + Len(back) :
             (front \o back)[m] = IF m <= Len(front) THEN front[m] ELSE back[m - Len(front)]
    BY <1>2, <1>3, ConcatProperties
  <2>2. Len(front) = n - 1 /\ Len(front) + Len(back) = Len(q) - 1
    BY <1>1, <1>2, <1>3
  <2> QED
    BY <2>1, <2>2
<1>5. RemoveAt(q, n) = front \o back
  BY DEF RemoveAt, front, back
<1>6. ASSUME NEW m \in 1 .. Len(q) - 1
      PROVE  (front \o back)[m] = IF m < n THEN q[m] ELSE q[m + 1]
  <2>1. CASE m < n
    BY <1>1, <1>2, <1>4, <2>1
  <2>2. CASE ~(m < n)
    <3>1. m - (n - 1) \in 1 .. Len(q) - n /\ m - (n - 1) + n = m + 1
      BY <1>1, <2>2
    <3> QED
      BY <1>1, <1>3, <1>4, <2>2, <3>1
  <2> QED
    BY <2>1, <2>2
<1> QED
  BY <1>4, <1>5, <1>6

LEMMA LeastNumber ==
  ASSUME NEW S \in SUBSET Nat, S # {} PROVE \E n \in S : \A m \in S : ~(m < n)
<1>1. PICK n \in S : \A m \in S : <<m, n>> \notin OpToRel(<, Nat)
  BY NatLessThanWellFounded, WFMin
<1> QED
  BY <1>1 DEF OpToRel

LEMMA RemoveFirstIs ==
  ASSUME NEW S, NEW q \in Seq(S), NEW e, NEW n \in 1 .. Len(q), q[n] = e
  PROVE  \E m \in 1 .. Len(q) : q[m] = e /\ RemoveFirst(q, e) = RemoveAt(q, m)
<1> DEFINE I == {i \in 1 .. Len(q) : q[i] = e}
<1>1. n \in I /\ I \subseteq Nat
  OBVIOUS
<1>2. PICK m \in I : \A i \in I : ~(i < m)
  BY <1>1, LeastNumber
<1>3. \A i \in I : m <= i
  BY <1>1, <1>2
<1>4. Min(I) \in I
  BY <1>3 DEF Min
<1>5. SelectInSeq(q, LAMBDA v : v = e) = Min(I)
  BY <1>1 DEF SelectInSeq
<1>6. RemoveFirst(q, e) = RemoveAt(q, Min(I))
  BY <1>1, <1>5 DEF RemoveFirst
<1> QED
  BY <1>4, <1>6
-----------------------------------------------------------------------------
(* Gamepads come and go.                                                     *)

LEMMA Types ==
  ASSUME HandleInv, EventInv
  PROVE  /\ Len(sdl) \in Nat /\ DOMAIN sdl = 1 .. Len(sdl)
         /\ Len(pads) \in Nat /\ DOMAIN pads = 1 .. Len(pads) /\ Len(pads) <= MaxPlugs
         /\ Len(queue) \in Nat /\ DOMAIN queue = 1 .. Len(queue)
         /\ Attached \subseteq DOMAIN pads /\ DOMAIN pads \subseteq Instances
         /\ \A k \in DOMAIN sdl : sdl[k] \in DOMAIN pads
         /\ \A i \in DOMAIN pads : pads[i] \in Pads
         /\ \A n \in DOMAIN queue : queue[n] \in EventType
<1>1. pads \in Seq(Pads) /\ Len(pads) <= MaxPlugs /\ sdl \in Seq(1 .. Len(pads))
  BY DEF HandleInv, Enumeration
<1>2. queue \in Seq(EventType)
  BY DEF EventInv, Announced
<1>3. DOMAIN pads \subseteq Instances
  BY <1>1, DeviceAssumption DEF Instances
<1>4. Attached \subseteq DOMAIN pads
  BY <1>1 DEF Attached
<1> QED
  BY <1>1, <1>2, <1>3, <1>4

LEMMA HeldBy == \A i : Holders(i) # {} <=> i \in Registered
BY DEF Holders, Registered

\* A gamepad is plugged in.
LEMMA PlugKeeps ==
  ASSUME HandleInv, HandleInv', EventInv, NEW p \in Pads, Plug(p)
  PROVE  EventInv' /\ (NameInv => NameInv')
<1> DEFINE new == Len(pads) + 1
           last == Len(sdl) + 1
<1>1. /\ pads' = Append(pads, p) /\ sdl' = Append(sdl, new)
      /\ queue' = Append(queue, Added(Len(sdl)))
      /\ UNCHANGED <<opens, Gamepads, retired, reading, polling, lost>>
      /\ p \notin {pads[i] : i \in Attached}
  <2>1. Len(pads') = new
    BY AppendProperties DEF Plug, HandleInv, Enumeration
  <2> QED
    BY <2>1 DEF Plug
<1>2. /\ DOMAIN pads' = DOMAIN pads \cup {new} /\ pads'[new] = p /\ new \notin DOMAIN pads
      /\ \A i \in DOMAIN pads : pads'[i] = pads[i]
  BY <1>1, AppendProperties, Types DEF HandleInv, Enumeration
<1>3. /\ DOMAIN sdl' = DOMAIN sdl \cup {last} /\ sdl'[last] = new /\ last \notin DOMAIN sdl
      /\ \A k \in DOMAIN sdl : sdl'[k] = sdl[k]
  <2>1. sdl \in Seq(Nat) /\ new \in Nat
    BY Types DEF HandleInv, Enumeration
  <2> QED
    BY <1>1, <2>1, AppendProperties
<1>4. Attached' = Attached \cup {new}
  BY <1>3 DEF Attached
<1>5. /\ queue' \in Seq(EventType) /\ Len(queue') = Len(queue) + 1
      /\ DOMAIN queue' = DOMAIN queue \cup {Len(queue) + 1}
      /\ Len(queue) + 1 \notin DOMAIN queue
      /\ queue'[Len(queue) + 1] = Added(last - 1)
      /\ \A n \in DOMAIN queue : queue'[n] = queue[n]
  <2>1. last - 1 = Len(sdl) /\ Added(Len(sdl)) \in EventType
    BY Types, EventsApart
  <2> QED
    BY <1>1, <2>1, AppendProperties, Types DEF EventInv, Announced
<1>6. \A n \in DOMAIN queue : queue[n] # Added(last - 1)
  BY <1>3, EventsApart, Types DEF EventInv, Announced
<1> HIDE DEF new, last
<1>7. Apart'
  BY <1>1, <1>2, <1>3, Types DEF EventInv, Apart, Attached
<1>8. Announced'
  <2>1. \A n \in DOMAIN queue' :
          \/ \E k \in DOMAIN sdl' : queue'[n] = Added(k - 1)
          \/ \E i \in DOMAIN pads' \ Attached' : queue'[n] = Removed(i)
    BY <1>2, <1>3, <1>4, <1>5 DEF EventInv, Announced
  <2>2. \A m, n \in DOMAIN queue' : queue'[m] = queue'[n] => m = n
    BY <1>5, <1>6 DEF EventInv, Announced
  <2> QED
    BY <1>5, <2>1, <2>2 DEF Announced
<1>9. ASSUME NameInv PROVE Named'
  BY <1>1, <1>2, <1>9 DEF NameInv, Named, Bare, Suffixed
<1>10. ASSUME NameInv PROVE Alive'
  BY <1>1, <1>4, <1>5, <1>10 DEF NameInv, Alive
<1>11. ASSUME NameInv PROVE InTurn'
  <2> SUFFICES ASSUME NEW n \in DOMAIN queue', NEW k \in DOMAIN sdl', NEW d \in DOMAIN Gamepads,
                      queue'[n] = Added(k - 1), pads'[sdl'[k]] = pads'[Gamepads[d]],
                      sdl'[k] # Gamepads[d]
               PROVE  \E m \in 1 .. n - 1 : queue'[m] = Removed(Gamepads[d])
    <3>1. Gamepads' = Gamepads
      BY <1>1
    <3> QED
      BY <3>1 DEF InTurn
  <2>1. Gamepads[d] \in DOMAIN pads
    BY <1>11 DEF NameInv, Named
  <2>2. CASE k = last
    <3>1. n = Len(queue) + 1
      BY <1>5, <1>6, <2>2
    <3>2. pads[Gamepads[d]] = p
      BY <1>2, <1>3, <2>1, <2>2
    <3>3. Gamepads[d] \notin Attached
      BY <1>1, <3>2
    <3>4. PICK m \in DOMAIN queue : queue[m] = Removed(Gamepads[d])
      BY <1>11, <3>3 DEF NameInv, Alive
    <3>5. m \in 1 .. n - 1
      BY <3>1, Types
    <3> QED
      BY <1>5, <3>4, <3>5
  <2>3. CASE k # last
    <3>1. k \in DOMAIN sdl /\ sdl'[k] = sdl[k] /\ sdl[k] \in DOMAIN pads
      BY <1>3, <2>3, Types
    <3>2. n \in DOMAIN queue
      <4>1. k \in Nat /\ last \in Nat
        BY <3>1, Types DEF last
      <4> QED
        BY <1>5, <2>3, <4>1, EventsApart
    <3>3. PICK m \in 1 .. n - 1 : queue[m] = Removed(Gamepads[d])
      BY <1>2, <1>5, <2>1, <1>11, <3>1, <3>2 DEF NameInv, InTurn
    <3>4. m \in DOMAIN queue
      BY <3>2, Types
    <3> QED
      BY <1>5, <3>3, <3>4
  <2> QED
    BY <2>2, <2>3
<1>12. ASSUME NameInv PROVE Complete'
  <2> SUFFICES ASSUME NEW k \in DOMAIN sdl'
               PROVE  sdl'[k] \in Registered \cup lost \/ \E n \in DOMAIN queue' : queue'[n] = Added(k - 1)
    BY <1>1 DEF Complete, Registered
  <2>1. CASE k = last
    BY <1>5, <2>1
  <2>2. CASE k # last
    <3>1. k \in DOMAIN sdl /\ sdl'[k] = sdl[k]
      BY <1>3, <2>2
    <3> QED
      BY <1>5, <1>12, <3>1 DEF NameInv, Complete
  <2> QED
    BY <2>1, <2>2
<1>13. ASSUME NameInv PROVE Counted'
  BY <1>1, <1>2, <1>4, <1>13 DEF NameInv, Counted, Registered
<1>14. Looked'
  BY <1>1, <1>2 DEF EventInv, Looked
<1>15. Known'
  <2>1. new \in DOMAIN pads' /\ Registered' = Registered
    BY <1>1, <1>2 DEF Registered
  <2> QED
    BY <1>1, <1>2, <2>1 DEF EventInv, Known
<1>16. FoundFirst'
  <2> SUFFICES ASSUME NEW n \in DOMAIN queue', NEW k \in DOMAIN sdl',
                      queue'[n] = Added(k - 1), opens[sdl'[k]] # 0,
                      NEW m \in 1 .. n, NEW j \in DOMAIN sdl', queue'[m] = Added(j - 1)
               PROVE  sdl'[j] \in Registered
    <3>1. opens' = opens /\ Registered' = Registered
      BY <1>1 DEF Registered
    <3> QED
      BY <3>1 DEF FoundFirst
  <2>1. sdl'[last] = new /\ new \in Instances /\ opens[new] = 0
    <3>1. new \in DOMAIN pads' /\ DOMAIN pads' \subseteq Instances
      <4>1. pads' \in Seq(Pads) /\ Len(pads') <= MaxPlugs
        BY DEF HandleInv, Enumeration
      <4>2. DOMAIN pads' \subseteq Instances
        BY <4>1, DeviceAssumption DEF Instances
      <4> QED
        BY <1>2, <4>2
    <3> QED
      BY <1>2, <1>3, <3>1 DEF EventInv, Known
  <2>2. k \in DOMAIN sdl /\ sdl'[k] = sdl[k]
    BY <1>3, <2>1
  <2>3. n \in DOMAIN queue /\ queue[n] = Added(k - 1)
    <3>1. k - 1 # last - 1
      BY <1>3, <2>2, Types DEF last
    <3> QED
      BY <1>5, <3>1, EventsApart
  <2>4. m \in DOMAIN queue /\ queue[m] = Added(j - 1)
    BY <1>5, <2>3, Types
  <2>5. j \in DOMAIN sdl /\ sdl'[j] = sdl[j]
    BY <1>3, <1>6, <2>4
  <2> QED
    BY <2>2, <2>3, <2>4, <2>5 DEF EventInv, FoundFirst
<1> QED
  BY <1>7, <1>8, <1>9, <1>10, <1>11, <1>12, <1>13, <1>14, <1>15, <1>16 DEF EventInv, NameInv

\* What becomes of an event when the joystick at k leaves, and where the events go.
Shifted(e, k) == IF e.type = "added" /\ e.which > k - 1 THEN Added(e.which - 1) ELSE e

Follows(f, k) ==
  /\ Len(queue') \in Nat \ {0}
  /\ f \in [1 .. Len(queue') - 1 -> DOMAIN queue]
  /\ \A m, n \in 1 .. Len(queue') - 1 : m < n <=> f[m] < f[n]
  /\ \A m \in 1 .. Len(queue') - 1 :
       queue[f[m]] # Added(k - 1) /\ queue'[m] = Shifted(queue[f[m]], k)
  /\ \A n \in DOMAIN queue :
       queue[n] # Added(k - 1) => \E m \in 1 .. Len(queue') - 1 : f[m] = n

LEMMA ShiftedIs ==
  ASSUME HandleInv, EventInv, NEW k \in DOMAIN sdl
  PROVE  /\ \A i : Shifted(Removed(i), k) = Removed(i)
         /\ \A j \in DOMAIN sdl :
              Shifted(Added(j - 1), k) = Added((IF j > k THEN j - 1 ELSE j) - 1)
<1>1. k \in Nat /\ \A j \in DOMAIN sdl : j \in Nat
  BY Types
<1>2. ASSUME NEW j \in DOMAIN sdl
      PROVE  Shifted(Added(j - 1), k) = Added((IF j > k THEN j - 1 ELSE j) - 1)
  <2>1. CASE j > k
    <3>1. j - 1 > k - 1
      BY <1>1, <2>1
    <3> QED
      BY <2>1, <3>1, EventsApart DEF Shifted
  <2>2. CASE ~(j > k)
    <3>1. ~(j - 1 > k - 1)
      BY <1>1, <2>2
    <3> QED
      BY <2>2, <3>1, EventsApart DEF Shifted
  <2> QED
    BY <2>1, <2>2
<1> QED
  BY <1>2, EventsApart DEF Shifted

LEMMA ShiftedType ==
  ASSUME HandleInv, EventInv, NEW k \in DOMAIN sdl, NEW n \in DOMAIN queue
  PROVE  Shifted(queue[n], k) \in EventType
<1>1. CASE \E j \in DOMAIN sdl : queue[n] = Added(j - 1)
  <2>1. PICK j \in DOMAIN sdl : queue[n] = Added(j - 1)
    BY <1>1
  <2>2. (IF j > k THEN j - 1 ELSE j) - 1 \in Nat
    BY Types
  <2> QED
    BY <2>1, <2>2, ShiftedIs, EventsApart
<1>2. CASE \E i \in DOMAIN pads \ Attached : queue[n] = Removed(i)
  BY <1>2, ShiftedIs, Types
<1> QED
  BY <1>1, <1>2 DEF EventInv, Announced

LEMMA UnplugQueue ==
  ASSUME HandleInv, EventInv, NEW k \in DOMAIN sdl, Unplug(k)
  PROVE  /\ \E f : Follows(f, k)
         /\ queue' \in Seq(EventType) /\ queue'[Len(queue')] = Removed(sdl[k])
<1> DEFINE left  == RemoveFirst(queue, Added(k - 1))
           moved == [n \in DOMAIN left |-> Shifted(left[n], k)]
<1>1. queue \in Seq(EventType) /\ Len(queue) \in Nat /\ DOMAIN queue = 1 .. Len(queue)
  BY Types DEF EventInv, Announced
<1>2. left \in Seq(EventType) /\ \E f \in [DOMAIN left -> DOMAIN queue] :
        /\ \A m, n \in DOMAIN left : m < n <=> f[m] < f[n]
        /\ \A m \in DOMAIN left : left[m] = queue[f[m]] /\ left[m] # Added(k - 1)
        /\ \A n \in DOMAIN queue : queue[n] # Added(k - 1) => \E m \in DOMAIN left : f[m] = n
  <2>1. CASE \E n \in 1 .. Len(queue) : queue[n] = Added(k - 1)
    <3>1. PICK g \in 1 .. Len(queue) : queue[g] = Added(k - 1) /\ left = RemoveAt(queue, g)
      BY <1>1, <2>1, RemoveFirstIs
    <3>2. /\ left \in Seq(EventType) /\ Len(left) = Len(queue) - 1
          /\ \A m \in 1 .. Len(queue) - 1 : left[m] = IF m < g THEN queue[m] ELSE queue[m + 1]
      BY <1>1, <3>1, RemoveAtIs
    <3>3. DOMAIN left = 1 .. Len(queue) - 1
      BY <3>2
    <3> HIDE DEF left
    <3> DEFINE f == [m \in DOMAIN left |-> IF m < g THEN m ELSE m + 1]
    <3>4. f \in [DOMAIN left -> DOMAIN queue]
      BY <1>1, <3>3
    <3>5. \A m, n \in DOMAIN left : m < n <=> f[m] < f[n]
      BY <1>1, <3>3
    <3>6. \A m \in DOMAIN left : left[m] = queue[f[m]] /\ f[m] # g
      BY <1>1, <3>2, <3>3
    <3>7. \A m \in DOMAIN left : left[m] # Added(k - 1)
      BY <1>1, <3>1, <3>4, <3>6 DEF EventInv, Announced
    <3>8. ASSUME NEW n \in DOMAIN queue, queue[n] # Added(k - 1)
          PROVE  \E m \in DOMAIN left : f[m] = n
      <4>1. n # g
        BY <3>1, <3>8
      <4>2. CASE n < g
        BY <1>1, <3>3, <4>2
      <4>3. CASE ~(n < g)
        <5>1. n - 1 \in DOMAIN left /\ ~(n - 1 < g) /\ n - 1 + 1 = n
          BY <1>1, <3>3, <4>1, <4>3
        <5> QED
          BY <5>1
      <4> QED
        BY <4>2, <4>3
    <3> HIDE DEF f
    <3> QED
      BY <3>2, <3>4, <3>5, <3>6, <3>7, <3>8
  <2>2. CASE \A n \in 1 .. Len(queue) : queue[n] # Added(k - 1)
    <3>1. left = queue
      BY <2>2 DEF RemoveFirst
    <3> DEFINE f == [m \in DOMAIN queue |-> m]
    <3>2. f \in [DOMAIN queue -> DOMAIN queue] /\ \A m \in DOMAIN queue : f[m] = m
      OBVIOUS
    <3> HIDE DEF f, left
    <3> QED
      BY <1>1, <2>2, <3>1, <3>2
  <2> QED
    BY <2>1, <2>2
<1>3. PICK f \in [DOMAIN left -> DOMAIN queue] :
        /\ \A m, n \in DOMAIN left : m < n <=> f[m] < f[n]
        /\ \A m \in DOMAIN left : left[m] = queue[f[m]] /\ left[m] # Added(k - 1)
        /\ \A n \in DOMAIN queue : queue[n] # Added(k - 1) => \E m \in DOMAIN left : f[m] = n
  BY <1>2
<1>4. queue' = Append(moved, Removed(sdl[k]))
  BY DEF Unplug, Shifted
<1> HIDE DEF left
<1>5. Len(left) \in Nat /\ DOMAIN left = 1 .. Len(left)
  BY <1>2
<1>6. \A m \in DOMAIN left : moved[m] = Shifted(queue[f[m]], k) /\ moved[m] \in EventType
  BY <1>3, ShiftedType
<1>7. moved \in Seq(EventType) /\ Len(moved) = Len(left)
  <2>1. moved \in [1 .. Len(left) -> EventType]
    BY <1>5, <1>6
  <2> HIDE DEF moved
  <2> QED
    BY <1>5, <2>1
<1>8. Removed(sdl[k]) \in EventType
  BY Types, EventsApart
<1> HIDE DEF moved
<1>9. /\ queue' \in Seq(EventType) /\ Len(queue') = Len(left) + 1
      /\ queue'[Len(queue')] = Removed(sdl[k])
      /\ \A m \in DOMAIN left : queue'[m] = moved[m]
  BY <1>4, <1>5, <1>7, <1>8, AppendProperties
<1>10. Len(queue') \in Nat \ {0} /\ 1 .. Len(queue') - 1 = DOMAIN left
  BY <1>5, <1>9
<1>11. Follows(f, k)
  BY <1>3, <1>6, <1>9, <1>10 DEF Follows
<1> QED
  BY <1>9, <1>11

\* A gamepad is pulled out.
LEMMA UnplugKeeps ==
  ASSUME HandleInv, HandleInv', EventInv, NEW k \in DOMAIN sdl, Unplug(k)
  PROVE  EventInv' /\ (NameInv => NameInv')
<1> DEFINE old(j) == IF j < k THEN j ELSE j + 1
           last   == Len(queue')
<1>1. UNCHANGED <<pads, opens, Gamepads, retired, reading, polling, lost>> /\ sdl' = RemoveAt(sdl, k)
  BY DEF Unplug
<1>2. /\ DOMAIN sdl' = 1 .. Len(sdl) - 1
      /\ \A j \in DOMAIN sdl' : sdl'[j] = sdl[old(j)]
  <2>1. sdl \in Seq(1 .. Len(pads)) /\ k \in 1 .. Len(sdl)
    BY Types DEF HandleInv, Enumeration
  <2>2. /\ sdl' \in Seq(1 .. Len(pads)) /\ Len(sdl') = Len(sdl) - 1
        /\ \A j \in 1 .. Len(sdl) - 1 : sdl'[j] = IF j < k THEN sdl[j] ELSE sdl[j + 1]
    BY <1>1, <2>1, RemoveAtIs
  <2>3. DOMAIN sdl' = 1 .. Len(sdl) - 1
    BY <2>2
  <2> QED
    BY <2>2, <2>3
<1>3. \A j \in DOMAIN sdl' : /\ j \in Nat /\ old(j) \in DOMAIN sdl /\ old(j) # k
                             /\ j = IF old(j) > k THEN old(j) - 1 ELSE old(j)
  BY <1>2, Types
<1>4. \A j \in DOMAIN sdl : j # k => \E m \in DOMAIN sdl' : old(m) = j
  <2> SUFFICES ASSUME NEW j \in DOMAIN sdl, j # k PROVE \E m \in DOMAIN sdl' : old(m) = j
    OBVIOUS
  <2>1. CASE j < k
    BY <1>2, <2>1, Types
  <2>2. CASE ~(j < k)
    <3>1. j - 1 \in DOMAIN sdl' /\ old(j - 1) = j
      BY <1>2, <2>2, Types
    <3> QED
      BY <3>1
  <2> QED
    BY <2>1, <2>2
<1>5. PICK f : Follows(f, k)
  BY UnplugQueue
<1>6. queue' \in Seq(EventType) /\ queue'[last] = Removed(sdl[k])
  BY UnplugQueue
<1>7. /\ last \in Nat \ {0} /\ last \in DOMAIN queue'
      /\ DOMAIN queue' = 1 .. last - 1 \cup {last} /\ last \notin 1 .. last - 1
      /\ \A n \in 1 .. last - 1 : n \in DOMAIN queue'
  <2>1. last \in Nat \ {0}
    BY <1>5 DEF Follows
  <2>2. DOMAIN queue' = 1 .. last
    BY <1>6
  <2> HIDE DEF last
  <2> QED
    BY <2>1, <2>2
<1>8. \A i, j \in DOMAIN sdl : sdl[i] = sdl[j] => i = j
  BY DEF EventInv, Apart
<1> HIDE DEF old
<1>9. Attached' = Attached \ {sdl[k]}
  BY <1>2, <1>3, <1>4, <1>8 DEF Attached
<1> HIDE DEF last
\* The events that stay say the same of the same joysticks.
<1>10. \A m \in 1 .. last - 1 : f[m] \in DOMAIN queue /\ queue[f[m]] # Added(k - 1)
                                /\ queue'[m] = Shifted(queue[f[m]], k)
  BY <1>5 DEF Follows, last
<1>11. \A m \in 1 .. last - 1, j \in DOMAIN sdl' :
         queue'[m] = Added(j - 1) <=> queue[f[m]] = Added(old(j) - 1)
  <2> SUFFICES ASSUME NEW m \in 1 .. last - 1, NEW j \in DOMAIN sdl'
               PROVE  queue'[m] = Added(j - 1) <=> queue[f[m]] = Added(old(j) - 1)
    OBVIOUS
  <2>1. queue[f[m]] = Added(old(j) - 1) => queue'[m] = Added(j - 1)
    BY <1>3, <1>10, ShiftedIs
  <2>2. ASSUME queue'[m] = Added(j - 1) PROVE queue[f[m]] = Added(old(j) - 1)
    <3>1. PICK i \in DOMAIN sdl : queue[f[m]] = Added(i - 1)
      BY <1>10, <2>2, ShiftedIs, EventsApart DEF EventInv, Announced
    <3>2. i # k /\ Added((IF i > k THEN i - 1 ELSE i) - 1) = Added(j - 1)
      BY <1>10, <2>2, <3>1, ShiftedIs
    <3>3. PICK g \in DOMAIN sdl' : old(g) = i
      BY <1>4, <3>2
    <3>4. g - 1 = j - 1
      BY <1>3, <3>2, <3>3, EventsApart
    <3>5. g = j
      BY <1>3, <3>4
    <3> QED
      BY <3>1, <3>3, <3>5
  <2> QED
    BY <2>1, <2>2
<1>12. \A m \in 1 .. last - 1 : \A i : queue'[m] = Removed(i) <=> queue[f[m]] = Removed(i)
  <2> SUFFICES ASSUME NEW m \in 1 .. last - 1, NEW i
               PROVE  queue'[m] = Removed(i) <=> queue[f[m]] = Removed(i)
    OBVIOUS
  <2>1. CASE \E j \in DOMAIN sdl : queue[f[m]] = Added(j - 1)
    BY <1>10, <2>1, ShiftedIs, EventsApart
  <2>2. CASE \E j : queue[f[m]] = Removed(j)
    BY <1>10, <2>2, ShiftedIs
  <2> QED
    BY <1>10, <2>1, <2>2 DEF EventInv, Announced
<1>13. \A i : (\E n \in DOMAIN queue : queue[n] = Removed(i))
              => \E m \in DOMAIN queue' : queue'[m] = Removed(i)
  <2> SUFFICES ASSUME NEW i, NEW n \in DOMAIN queue, queue[n] = Removed(i)
               PROVE  \E m \in DOMAIN queue' : queue'[m] = Removed(i)
    OBVIOUS
  <2>1. PICK m \in 1 .. last - 1 : f[m] = n
    BY <1>5, EventsApart DEF Follows, last
  <2> QED
    BY <1>7, <1>12, <2>1
<1>14. Apart'
  BY <1>1, <1>2, <1>3 DEF EventInv, Apart
<1>15. Announced'
  <2>1. \A n \in DOMAIN queue' :
          \/ \E j \in DOMAIN sdl' : queue'[n] = Added(j - 1)
          \/ \E i \in DOMAIN pads \ Attached' : queue'[n] = Removed(i)
    <3> SUFFICES ASSUME NEW n \in DOMAIN queue'
                 PROVE  \/ \E j \in DOMAIN sdl' : queue'[n] = Added(j - 1)
                        \/ \E i \in DOMAIN pads \ Attached' : queue'[n] = Removed(i)
      OBVIOUS
    <3>1. CASE n = last
      BY <1>6, <1>9, <3>1, Types
    <3>2. CASE n \in 1 .. last - 1 /\ \E j \in DOMAIN sdl : queue[f[n]] = Added(j - 1)
      <4>1. PICK j \in DOMAIN sdl : queue[f[n]] = Added(j - 1)
        BY <3>2
      <4>2. PICK m \in DOMAIN sdl' : old(m) = j
        BY <1>4, <1>10, <3>2, <4>1
      <4> QED
        BY <1>11, <3>2, <4>1, <4>2
    <3>3. CASE n \in 1 .. last - 1 /\ \E i \in DOMAIN pads \ Attached : queue[f[n]] = Removed(i)
      BY <1>9, <1>12, <3>3
    <3> QED
      BY <1>7, <1>10, <3>1, <3>2, <3>3 DEF EventInv, Announced
  <2>2. ASSUME NEW m \in 1 .. last - 1, NEW n \in 1 .. last - 1, queue'[m] = queue'[n] PROVE m = n
    <3>1. queue[f[m]] = queue[f[n]]
      <4>1. CASE \E j \in DOMAIN sdl' : queue'[m] = Added(j - 1)
        BY <1>11, <2>2, <4>1
      <4>2. CASE \E i : queue'[m] = Removed(i)
        BY <1>12, <2>2, <4>2
      <4> QED
        BY <1>7, <2>1, <4>1, <4>2
    <3>2. f[m] = f[n] /\ f[m] \in Nat
      BY <1>10, <3>1, Types DEF EventInv, Announced
    <3>3. ~(m < n) /\ ~(n < m)
      BY <1>5, <3>2 DEF Follows, last
    <3> QED
      BY <1>7, <3>3
  <2>3. \A m \in 1 .. last - 1 : queue'[m] # queue'[last]
    <3>1. \A n \in DOMAIN queue : queue[n] # Removed(sdl[k])
      BY EventsApart DEF EventInv, Announced, Attached
    <3> QED
      BY <1>6, <1>10, <1>12, <3>1
  <2> QED
    BY <1>1, <1>6, <1>7, <2>1, <2>2, <2>3 DEF Announced
<1>16. ASSUME NameInv PROVE Named'
  BY <1>1, <1>16 DEF NameInv, Named, Bare, Suffixed
<1>17. ASSUME NameInv PROVE Alive'
  <2> SUFFICES ASSUME NEW d \in DOMAIN Gamepads
               PROVE  \/ Gamepads[d] \in Attached'
                      \/ \E n \in DOMAIN queue' : queue'[n] = Removed(Gamepads[d])
    BY <1>1 DEF Alive
  <2>1. CASE Gamepads[d] = sdl[k]
    BY <1>6, <1>7, <2>1
  <2>2. CASE Gamepads[d] # sdl[k]
    BY <1>9, <1>13, <1>17, <2>2 DEF NameInv, Alive
  <2> QED
    BY <2>1, <2>2
<1>18. ASSUME NameInv PROVE InTurn'
  <2> SUFFICES ASSUME NEW n \in DOMAIN queue', NEW j \in DOMAIN sdl', NEW d \in DOMAIN Gamepads,
                      queue'[n] = Added(j - 1), pads[sdl'[j]] = pads[Gamepads[d]],
                      sdl'[j] # Gamepads[d]
               PROVE  \E m \in 1 .. n - 1 : queue'[m] = Removed(Gamepads[d])
    <3>1. Gamepads' = Gamepads /\ pads' = pads
      BY <1>1
    <3> QED
      BY <3>1 DEF InTurn
  <2>1. n \in 1 .. last - 1
    BY <1>6, <1>7, EventsApart
  <2>2. queue[f[n]] = Added(old(j) - 1) /\ f[n] \in DOMAIN queue /\ old(j) \in DOMAIN sdl
    BY <1>3, <1>10, <1>11, <2>1
  <2>3. PICK g \in 1 .. f[n] - 1 : queue[g] = Removed(Gamepads[d])
    BY <1>2, <1>18, <2>2 DEF NameInv, InTurn
  <2>4. g \in DOMAIN queue /\ g < f[n]
    BY <2>2, Types
  <2>5. PICK m \in 1 .. last - 1 : f[m] = g
    BY <1>5, <2>3, <2>4, EventsApart DEF Follows, last
  <2>6. m < n
    BY <1>5, <2>1, <2>4, <2>5 DEF Follows, last
  <2>7. m \in 1 .. n - 1
    BY <1>7, <2>1, <2>6
  <2> QED
    BY <1>12, <2>3, <2>5, <2>7
<1>19. ASSUME NameInv PROVE Complete'
  <2> SUFFICES ASSUME NEW j \in DOMAIN sdl'
               PROVE  sdl'[j] \in Registered \cup lost \/ \E n \in DOMAIN queue' : queue'[n] = Added(j - 1)
    BY <1>1 DEF Complete, Registered
  <2>1. sdl'[j] = sdl[old(j)] /\ old(j) \in DOMAIN sdl /\ old(j) # k
    BY <1>2, <1>3
  <2>2. CASE \E n \in DOMAIN queue : queue[n] = Added(old(j) - 1)
    <3>1. PICK n \in DOMAIN queue : queue[n] = Added(old(j) - 1)
      BY <2>2
    <3>2. queue[n] # Added(k - 1)
      <4>1. old(j) - 1 # k - 1
        BY <2>1, Types
      <4> QED
        BY <3>1, <4>1, EventsApart
    <3>3. PICK m \in 1 .. last - 1 : f[m] = n
      BY <1>5, <3>2 DEF Follows, last
    <3> QED
      BY <1>7, <1>11, <3>1, <3>3
  <2> QED
    BY <1>19, <2>1, <2>2 DEF NameInv, Complete
<1>20. ASSUME NameInv PROVE Counted'
  BY <1>1, <1>9, <1>20 DEF NameInv, Counted, Registered
<1>21. Looked'
  BY <1>1 DEF EventInv, Looked
<1>22. Known'
  BY <1>1 DEF EventInv, Known, Registered
<1>23. FoundFirst'
  <2> SUFFICES ASSUME NEW n \in DOMAIN queue', NEW i \in DOMAIN sdl',
                      queue'[n] = Added(i - 1), opens[sdl'[i]] # 0,
                      NEW m \in 1 .. n, NEW j \in DOMAIN sdl', queue'[m] = Added(j - 1)
               PROVE  sdl'[j] \in Registered
    <3>1. opens' = opens /\ Registered' = Registered
      BY <1>1 DEF Registered
    <3> QED
      BY <3>1 DEF FoundFirst
  <2>1. n \in 1 .. last - 1 /\ m \in 1 .. last - 1 /\ (m = n \/ m < n)
    <3>1. n \in 1 .. last - 1
      BY <1>6, <1>7, EventsApart
    <3> QED
      BY <1>7, <3>1
  <2>2. /\ queue[f[n]] = Added(old(i) - 1) /\ f[n] \in DOMAIN queue
        /\ queue[f[m]] = Added(old(j) - 1) /\ f[m] \in DOMAIN queue
        /\ old(i) \in DOMAIN sdl /\ old(j) \in DOMAIN sdl
    BY <1>3, <1>10, <1>11, <2>1
  <2>3. f[m] = f[n] \/ f[m] < f[n]
    BY <1>5, <2>1 DEF Follows, last
  <2>4. f[m] \in 1 .. f[n]
    BY <2>2, <2>3, Types
  <2>5. sdl[old(j)] \in Registered
    BY <1>2, <2>2, <2>4 DEF EventInv, FoundFirst
  <2> QED
    BY <1>2, <2>5
<1> QED
  BY <1>14, <1>15, <1>16, <1>17, <1>18, <1>19, <1>20, <1>21, <1>22, <1>23 DEF EventInv, NameInv

-----------------------------------------------------------------------------
(* The poll loop takes an event.                                            *)

LEMMA EventTaken ==
  ASSUME HandleInv, EventInv, queue # << >>, queue' = Tail(queue), UNCHANGED devices
  PROVE  /\ Head(queue) = queue[1] /\ 1 \in DOMAIN queue
         /\ \A n \in DOMAIN queue' : n \in Nat \ {0} /\ n + 1 \in DOMAIN queue /\ queue'[n] = queue[n + 1]
         /\ \A n \in DOMAIN queue : n # 1 => n - 1 \in DOMAIN queue' /\ queue'[n - 1] = queue[n]
         /\ Apart' /\ Announced' /\ Attached' = Attached
<1>1. queue \in Seq(EventType) /\ Len(queue) \in Nat /\ Len(queue) # 0
  BY Types, EmptySeq DEF EventInv, Announced
<1>2. /\ queue' \in Seq(EventType) /\ Len(queue') = Len(queue) - 1
      /\ \A n \in 1 .. Len(queue') : queue'[n] = queue[n + 1]
  BY <1>1, HeadTailProperties
<1>3. DOMAIN queue' = 1 .. Len(queue) - 1 /\ DOMAIN queue = 1 .. Len(queue)
  BY <1>1, <1>2
<1>4. Head(queue) = queue[1] /\ 1 \in DOMAIN queue
  BY <1>1, <1>3
<1>5. \A n \in DOMAIN queue' :
        n \in Nat \ {0} /\ n + 1 \in DOMAIN queue /\ queue'[n] = queue[n + 1]
  BY <1>1, <1>2, <1>3
<1>6. \A n \in DOMAIN queue : n # 1 => n - 1 \in DOMAIN queue' /\ queue'[n - 1] = queue[n]
  <2> SUFFICES ASSUME NEW n \in DOMAIN queue, n # 1
               PROVE  n - 1 \in DOMAIN queue' /\ queue'[n - 1] = queue[n]
    OBVIOUS
  <2>1. n - 1 \in DOMAIN queue' /\ n - 1 + 1 = n
    BY <1>1, <1>3
  <2> QED
    BY <1>5, <2>1
<1>7. pads' = pads /\ sdl' = sdl /\ Attached' = Attached
  BY DEF devices, Attached
<1>8. Apart'
  BY <1>7 DEF EventInv, Apart
<1>9. Announced'
  <2>1. \A n \in DOMAIN queue' :
          \/ \E k \in DOMAIN sdl : queue'[n] = Added(k - 1)
          \/ \E i \in DOMAIN pads \ Attached : queue'[n] = Removed(i)
    BY <1>5 DEF EventInv, Announced
  <2>2. \A m, n \in DOMAIN queue' : queue'[m] = queue'[n] => m + 1 = n + 1
    BY <1>5 DEF EventInv, Announced
  <2>3. \A m, n \in DOMAIN queue' : queue'[m] = queue'[n] => m = n
    BY <1>5, <2>2
  <2> QED
    BY <1>2, <1>7, <2>1, <2>3 DEF Announced
<1> QED
  BY <1>4, <1>5, <1>6, <1>7, <1>8, <1>9

\* A gamepad that is in nobody's place is given an id that is taken only when two others of
\* that id are registered.
LEMMA TakenIds ==
  ASSUME HandleInv, EventInv, NameInv, NEW i \in Attached, NEW index \in Nat,
         \A d \in DOMAIN Gamepads : pads[Gamepads[d]] # pads[i],
         NewId(i, index) \in DOMAIN Gamepads
  PROVE  Cardinality(Alike(NewId(i, index))) > 2
<1> DEFINE b == Bare(i)
           s == Suffixed(i, index)
           A == Alike(NewId(i, index))
<1>1. b \in DOMAIN Gamepads /\ s \in DOMAIN Gamepads /\ b # s
  BY IdsApart DEF NewId
<1>2. Derived[pads[Gamepads[b]]] = Derived[pads[i]]
  BY <1>1, IdsApart DEF NameInv, Named
<1>3. Derived[pads[Gamepads[s]]] = Derived[pads[i]]
  BY <1>1, IdsApart DEF NameInv, Named
<1>4. pads[Gamepads[b]] # pads[Gamepads[s]]
  BY <1>1 DEF NameInv, Named
<1>5. /\ Gamepads[b] \in Range(Gamepads) /\ Gamepads[s] \in Range(Gamepads)
      /\ \A j \in Attached \cup Range(Gamepads) : pads[j] \in Pads
  BY <1>1, Types DEF NameInv, Named, Range
<1>6. NewId(i, index)[1] = Derived[pads[i]]
  BY DEF NewId, Bare, Suffixed
<1>7. A = {p \in {pads[j] : j \in Attached \cup Range(Gamepads)} : Derived[p] = Derived[pads[i]]}
  BY <1>6 DEF Alike
<1> HIDE DEF A
<1>8. IsFiniteSet(A)
  <2>1. A \subseteq Pads
    BY <1>5, <1>7
  <2> QED
    BY <2>1, DeviceAssumption, FS_Subset
<1> HIDE DEF b, s
<1> DEFINE p == pads[Gamepads[b]]
           q == pads[Gamepads[s]]
           r == pads[i]
<1>9. p # r /\ q # r /\ p # q
  BY <1>1, <1>4
<1>10. {p, q, r} \subseteq A
  BY <1>2, <1>3, <1>5, <1>7
<1> HIDE DEF p, q, r
<1>11. IsFiniteSet({p, q, r}) /\ Cardinality({p, q, r}) = 3
  <2>1. IsFiniteSet({p}) /\ Cardinality({p}) = 1
    BY FS_Singleton
  <2>2. IsFiniteSet({p} \cup {q}) /\ Cardinality({p} \cup {q}) = 2
    <3>1. q \notin {p}
      BY <1>9
    <3>2. Cardinality({p} \cup {q}) = Cardinality({p}) + 1
      BY <2>1, <3>1, FS_AddElement
    <3> QED
      BY <2>1, <3>2, FS_AddElement
  <2>3. IsFiniteSet({p} \cup {q} \cup {r}) /\ Cardinality({p} \cup {q} \cup {r}) = 3
    <3>1. r \notin {p} \cup {q}
      BY <1>9
    <3>2. Cardinality({p} \cup {q} \cup {r}) = Cardinality({p} \cup {q}) + 1
      BY <2>2, <3>1, FS_AddElement
    <3> QED
      BY <2>2, <3>2, FS_AddElement
  <2>4. {p} \cup {q} \cup {r} = {p, q, r}
    OBVIOUS
  <2> QED
    BY <2>3, <2>4
<1>12. Cardinality({p, q, r}) <= Cardinality(A) /\ Cardinality(A) \in Nat
  BY <1>8, <1>10, FS_Subset, FS_CardinalityType
<1> QED
  BY <1>11, <1>12 DEF A

\* An announcement is of an attached joystick, and registers it unless it is.
LEMMA AddedIs ==
  ASSUME HandleInv, EventInv, DeviceAdded
  PROVE  \E k \in DOMAIN sdl :
           /\ queue[1] = Added(k - 1) /\ sdl[k] \in DOMAIN pads /\ k - 1 \in Nat
           /\ \/ sdl[k] \in Registered /\ UNCHANGED <<opens, Gamepads, lost>>
              \/ /\ sdl[k] \notin Registered
                 /\ Opened(sdl[k]) /\ Register(NewId(sdl[k], k - 1), sdl[k])
<1>1. queue # << >> /\ queue' = Tail(queue) /\ UNCHANGED devices /\ Head(queue).type = "added"
  BY DEF DeviceAdded
<1>2. Head(queue) = queue[1] /\ 1 \in DOMAIN queue
  BY <1>1, EventTaken
<1>3. PICK k \in DOMAIN sdl : queue[1] = Added(k - 1)
  BY <1>1, <1>2, EventsApart DEF EventInv, Announced
<1>4. /\ Head(queue).which = k - 1 /\ k - 1 + 1 = k /\ k - 1 \in Nat
      /\ sdl[k] \in DOMAIN pads
  BY <1>2, <1>3, EventsApart, Types
<1>5. \/ Holders(sdl[k]) # {} /\ UNCHANGED <<opens, Gamepads, lost>>
      \/ Holders(sdl[k]) = {} /\ Opened(sdl[k]) /\ Register(NewId(sdl[k], k - 1), sdl[k])
  BY <1>3, <1>4 DEF DeviceAdded
<1> QED
  BY <1>3, <1>4, <1>5, HeldBy

\* An announced gamepad that is not registered yet is not there under another instance.
LEMMA AddedIsNew ==
  ASSUME HandleInv, EventInv, NameInv, queue # << >>,
         NEW k \in DOMAIN sdl, queue[1] = Added(k - 1), sdl[k] \notin Registered
  PROVE  \A d \in DOMAIN Gamepads : pads[Gamepads[d]] # pads[sdl[k]]
<1>1. 1 \in DOMAIN queue
  BY Types, EmptySeq
<1>2. \A d \in DOMAIN Gamepads : Gamepads[d] # sdl[k]
  BY DEF Registered
<1>3. ~\E m \in 1 .. 1 - 1 : TRUE
  OBVIOUS
<1> QED
  BY <1>1, <1>2, <1>3 DEF NameInv, InTurn

LEMMA AddedKeeps ==
  ASSUME HandleInv, EventInv, DeviceAdded
  PROVE  EventInv' /\ (NameInv => NameInv')
<1>1. /\ queue # << >> /\ queue' = Tail(queue) /\ UNCHANGED devices
      /\ polling /\ UNCHANGED <<retired, reading, polling>>
  BY DEF DeviceAdded
<1>2. pads' = pads /\ sdl' = sdl
  BY <1>1 DEF devices
<1>3. PICK k \in DOMAIN sdl :
        /\ queue[1] = Added(k - 1) /\ sdl[k] \in DOMAIN pads /\ k - 1 \in Nat
        /\ \/ sdl[k] \in Registered /\ UNCHANGED <<opens, Gamepads, lost>>
           \/ /\ sdl[k] \notin Registered
              /\ Opened(sdl[k]) /\ Register(NewId(sdl[k], k - 1), sdl[k])
  BY AddedIs
<1> DEFINE i  == sdl[k]
           id == NewId(sdl[k], k - 1)
<1>4. /\ Apart' /\ Announced' /\ Attached' = Attached
      /\ 1 \in DOMAIN queue
      /\ \A n \in DOMAIN queue' : n \in Nat \ {0} /\ n + 1 \in DOMAIN queue /\ queue'[n] = queue[n + 1]
      /\ \A n \in DOMAIN queue : n # 1 => n - 1 \in DOMAIN queue' /\ queue'[n - 1] = queue[n]
  BY <1>1, EventTaken
<1>5. /\ i \in Attached
      /\ id = Bare(i) \/ id = Suffixed(i, k - 1)
  BY DEF Attached, NewId
<1>6. Known' /\ FoundFirst' /\ (i \notin Registered => opens[i] = 0)
  <2>1. i \in Registered \/ opens[i] = 0
    <3>1. 1 \in 1 .. 1
      OBVIOUS
    <3> QED
      BY <1>3, <1>4, <3>1 DEF EventInv, FoundFirst
  <2>2. /\ IsFiniteSet(DOMAIN Gamepads') /\ Registered' \subseteq Registered \cup {i}
        /\ Registered \ Registered' # {} => i \notin Registered
        /\ lost' \subseteq lost \cup Registered
    <3>1. CASE UNCHANGED <<Gamepads, lost>> /\ i \in Registered
      BY <3>1 DEF EventInv, Known, Registered
    <3>2. CASE Register(id, i) /\ i \notin Registered
      <4>1. DOMAIN Gamepads' = DOMAIN Gamepads \cup {id}
        BY <3>2 DEF Register
      <4>2. IsFiniteSet(DOMAIN Gamepads')
        BY <4>1, FS_AddElement DEF EventInv, Known
      <4>3. Registered' \subseteq Registered \cup {i} /\ lost' \subseteq lost \cup Registered
        BY <3>2 DEF Register, Registered
      <4> QED
        BY <3>2, <4>2, <4>3
    <3> QED
      BY <1>3, <3>1, <3>2
  <2>3. opens' = opens \/ (i \notin Registered /\ opens' = [opens EXCEPT ![i] = 1])
    BY <1>3, <2>1 DEF Opened
  <2>4. Known'
    <3>1. opens' \in [Instances -> 0 .. 1] /\ \A x \in Instances \ DOMAIN pads : opens'[x] = 0
      BY <1>3, <2>3 DEF EventInv, Known
    <3> QED
      BY <1>1, <1>2, <1>3, <2>2, <3>1 DEF EventInv, Known
  <2>5. FoundFirst'
    <3> SUFFICES ASSUME NEW n \in DOMAIN queue', NEW g \in DOMAIN sdl,
                        queue'[n] = Added(g - 1), opens'[sdl[g]] # 0,
                        NEW m \in 1 .. n, NEW j \in DOMAIN sdl, queue'[m] = Added(j - 1)
                 PROVE  sdl[j] \in Registered'
      BY <1>2 DEF FoundFirst
    <3>1. n + 1 \in DOMAIN queue /\ queue[n + 1] = Added(g - 1) /\ n + 1 # 1 /\ n \in Nat
      BY <1>4
    <3>2. m + 1 \in 1 .. n + 1 /\ m + 1 \in DOMAIN queue /\ queue[m + 1] = Added(j - 1)
      <4>1. m \in DOMAIN queue'
        <5>1. DOMAIN queue' = 1 .. Len(queue') /\ Len(queue') \in Nat
          BY <1>4 DEF Announced
        <5> QED
          BY <5>1
      <4> QED
        BY <1>4, <3>1, <4>1
    <3>3. g # k
      BY <1>3, <1>4, <3>1 DEF EventInv, Announced
    <3>4. opens[sdl[g]] # 0
      <4>1. sdl[g] # i /\ sdl[g] \in DOMAIN pads
        BY <3>3, Types DEF EventInv, Apart
      <4>2. sdl[g] \in Instances
        BY <4>1, Types
      <4> QED
        BY <2>3, <4>1, <4>2 DEF EventInv, Known
    <3>5. sdl[j] \in Registered
      BY <3>1, <3>2, <3>4 DEF EventInv, FoundFirst
    <3>6. i \in Registered
      <4>1. 1 \in 1 .. n + 1
        BY <3>1
      <4> QED
        BY <1>3, <3>1, <3>4, <4>1 DEF EventInv, FoundFirst
    <3> QED
      BY <2>2, <3>5, <3>6
  <2> QED
    BY <2>1, <2>4, <2>5
<1>7. EventInv'
  <2>1. Looked'
    BY <1>1, <1>2 DEF EventInv, Looked
  <2> QED
    BY <1>4, <1>6, <2>1 DEF EventInv
<1> SUFFICES ASSUME NameInv PROVE NameInv'
  BY <1>7
\* The queue goes on as it was.
<1>8. /\ \A d \in DOMAIN Gamepads : \/ Gamepads[d] \in Attached
                                   \/ \E n \in DOMAIN queue' : queue'[n] = Removed(Gamepads[d])
      /\ \A n \in DOMAIN queue', j \in DOMAIN sdl, d \in DOMAIN Gamepads :
           queue'[n] = Added(j - 1) /\ pads[sdl[j]] = pads[Gamepads[d]] /\ sdl[j] # Gamepads[d]
             => \E m \in 1 .. n - 1 : queue'[m] = Removed(Gamepads[d])
      /\ \A j \in DOMAIN sdl :
           j # k => sdl[j] \in Registered \cup lost \/ \E n \in DOMAIN queue' : queue'[n] = Added(j - 1)
  <2>1. \A x : queue[1] # Removed(x)
    BY <1>3, EventsApart
  <2>2. ASSUME NEW d \in DOMAIN Gamepads
        PROVE  \/ Gamepads[d] \in Attached
               \/ \E n \in DOMAIN queue' : queue'[n] = Removed(Gamepads[d])
    BY <1>4, <2>1 DEF NameInv, Alive
  <2>3. ASSUME NEW n \in DOMAIN queue', NEW j \in DOMAIN sdl, NEW d \in DOMAIN Gamepads,
               queue'[n] = Added(j - 1), pads[sdl[j]] = pads[Gamepads[d]], sdl[j] # Gamepads[d]
        PROVE  \E m \in 1 .. n - 1 : queue'[m] = Removed(Gamepads[d])
    <3>1. PICK m \in 1 .. n + 1 - 1 : queue[m] = Removed(Gamepads[d])
      BY <1>4, <2>3 DEF NameInv, InTurn
    <3>2. m # 1 /\ m \in DOMAIN queue /\ m - 1 \in 1 .. n - 1
      BY <1>4, <2>1, <3>1, Types
    <3> QED
      BY <1>4, <3>1, <3>2
  <2>4. ASSUME NEW j \in DOMAIN sdl, j # k
        PROVE  sdl[j] \in Registered \cup lost \/ \E n \in DOMAIN queue' : queue'[n] = Added(j - 1)
    <3>1. queue[1] # Added(j - 1)
      <4>1. j - 1 # k - 1
        BY <2>4, Types
      <4> QED
        BY <1>3, <4>1, EventsApart
    <3> QED
      BY <1>4, <3>1 DEF NameInv, Complete
  <2> QED
    BY <2>2, <2>3, <2>4
<1>9. CASE i \in Registered /\ UNCHANGED <<opens, Gamepads, lost>>
  <2>1. Named' /\ Counted' /\ Registered' = Registered
    BY <1>1, <1>2, <1>4, <1>9 DEF NameInv, Named, Counted, Registered, Bare, Suffixed
  <2>2. Alive' /\ InTurn'
    <3>1. Gamepads' = Gamepads
      BY <1>9
    <3> QED
      BY <1>2, <1>4, <1>8, <3>1 DEF Alive, InTurn
  <2>3. Complete'
    BY <1>2, <1>8, <1>9, <2>1 DEF Complete
  <2> QED
    BY <2>1, <2>2, <2>3 DEF NameInv
<1>10. CASE /\ i \notin Registered /\ Opened(i) /\ Register(id, i)
           /\ \A d \in DOMAIN Gamepads : pads[Gamepads[d]] # pads[i]
  <2>1. /\ DOMAIN Gamepads' = DOMAIN Gamepads \cup {id} /\ Gamepads'[id] = i
        /\ \A d \in DOMAIN Gamepads \ {id} : Gamepads'[d] = Gamepads[d]
        /\ lost' = lost \cup {Gamepads[d] : d \in DOMAIN Gamepads \cap {id}}
    BY <1>10 DEF Register
  <2> HIDE DEF id
  \* The entry that was there, if any, was its gamepad's only one.
  <2>2. /\ Registered' \cap lost' = lost \cap (Registered \cup {i})
        /\ Registered' \cup lost' = Registered \cup lost \cup {i}
        /\ lost' \subseteq lost \cup Registered /\ Registered' \subseteq Registered \cup {i}
    <3>1. \A c, d \in DOMAIN Gamepads : Gamepads[c] = Gamepads[d] => c = d
      BY DEF NameInv, Named
    <3>2. Registered' = {Gamepads[d] : d \in DOMAIN Gamepads \ {id}} \cup {i}
      BY <2>1 DEF Registered
    <3>3. lost' = lost \cup {Gamepads[d] : d \in DOMAIN Gamepads \cap {id}}
      BY <2>1
    <3>4. Registered = {Gamepads[d] : d \in DOMAIN Gamepads \ {id}}
                       \cup {Gamepads[d] : d \in DOMAIN Gamepads \cap {id}}
      BY DEF Registered
    <3>5. {Gamepads[d] : d \in DOMAIN Gamepads \ {id}}
          \cap {Gamepads[d] : d \in DOMAIN Gamepads \cap {id}} = {}
      BY <3>1
    <3>6. i \notin {Gamepads[d] : d \in DOMAIN Gamepads \cap {id}}
      BY <1>10, <3>4
    <3>7. lost \cap Registered = {}
      BY DEF NameInv, Counted
    <3> QED
      BY <3>2, <3>3, <3>4, <3>5, <3>6, <3>7
  <2> HIDE DEF i
  <2>3. i \in DOMAIN pads /\ i \in Attached /\ i = sdl[k]
    BY <1>3, <1>5 DEF i
  <2>4. Named'
    <3>1. id = Bare(i) \/ \E n \in Nat : id = Suffixed(i, n)
      BY <1>3, <1>5
    <3>2. \A d \in DOMAIN Gamepads' :
            /\ Gamepads'[d] \in DOMAIN pads
            /\ d = Bare(Gamepads'[d]) \/ \E n \in Nat : d = Suffixed(Gamepads'[d], n)
      BY <2>1, <2>3, <3>1 DEF NameInv, Named
    <3>3. \A c, d \in DOMAIN Gamepads' : pads[Gamepads'[c]] = pads[Gamepads'[d]] => c = d
      BY <1>10, <2>1 DEF NameInv, Named
    <3> QED
      BY <1>2, <3>2, <3>3 DEF Named, Bare, Suffixed
  <2>5. Alive'
    <3> SUFFICES ASSUME NEW d \in DOMAIN Gamepads'
                 PROVE  \/ Gamepads'[d] \in Attached
                        \/ \E n \in DOMAIN queue' : queue'[n] = Removed(Gamepads'[d])
      BY <1>4 DEF Alive
    <3>1. CASE d = id
      BY <2>1, <2>3, <3>1
    <3>2. CASE d # id
      <4>1. d \in DOMAIN Gamepads \ {id} /\ Gamepads'[d] = Gamepads[d]
        BY <2>1, <3>2
      <4> QED
        BY <1>8, <4>1
    <3> QED
      BY <3>1, <3>2
  <2>6. InTurn'
    <3> SUFFICES ASSUME NEW n \in DOMAIN queue', NEW j \in DOMAIN sdl, NEW d \in DOMAIN Gamepads',
                        queue'[n] = Added(j - 1), pads[sdl[j]] = pads[Gamepads'[d]],
                        sdl[j] # Gamepads'[d]
                 PROVE  \E m \in 1 .. n - 1 : queue'[m] = Removed(Gamepads'[d])
      BY <1>2 DEF InTurn
    <3>1. d # id
      BY <2>1, <2>3 DEF EventInv, Apart
    <3> QED
      BY <1>8, <2>1, <3>1
  <2>7. Complete'
    BY <1>2, <1>8, <2>2, <2>3 DEF Complete
  <2>8. Counted'
    <3>1. i \in Instances /\ i \notin retired /\ i \notin lost
      BY <1>6, <1>10, <2>3, Types DEF NameInv, Counted
    <3>2. opens' = [opens EXCEPT ![i] = 1]
      <4>1. opens[i] = 0
        BY <1>6, <1>10
      <4> QED
        BY <1>10, <4>1 DEF Opened
    <3>3. \A j \in Instances : j \in lost' \cup Registered' \cup retired
                               <=> j = i \/ j \in lost \cup Registered \cup retired
      BY <2>2, <3>1
    <3>4. opens' = [j \in Instances |->
                      IF j \in lost' \/ (polling' /\ j \in Registered' \cup retired') THEN 1 ELSE 0]
      BY <1>1, <3>1, <3>2, <3>3 DEF NameInv, Counted
    <3>5. /\ retired \subseteq DOMAIN pads \ Attached
          /\ Registered' \cap retired = {} /\ (Registered' \cup retired) \cap lost' = {}
      <4>1. Registered \cap retired = {} /\ (Registered \cup retired) \cap lost = {}
        BY DEF NameInv, Counted
      <4> QED
        BY <2>2, <3>1, <4>1 DEF NameInv, Counted
    <3> QED
      BY <1>1, <1>2, <1>4, <3>4, <3>5 DEF Counted
  <2> QED
    BY <2>4, <2>5, <2>6, <2>7, <2>8 DEF NameInv
<1>11. i \notin Registered => \A d \in DOMAIN Gamepads : pads[Gamepads[d]] # pads[i]
  BY <1>1, <1>3, AddedIsNew
<1> QED
  BY <1>3, <1>9, <1>10, <1>11

\* A removal is of an instance that left, and leaves the others where they are.
LEMMA RemovedIs ==
  ASSUME HandleInv, EventInv, DeviceRemoved
  PROVE  \E i \in DOMAIN pads \ Attached :
           /\ queue[1] = Removed(i)
           /\ \/ Holders(i) = {} /\ UNCHANGED <<Gamepads, retired>>
              \/ \E id \in Holders(i) : Dropped({id}) /\ retired' = retired \cup {i}
           /\ DOMAIN Gamepads' \subseteq DOMAIN Gamepads
           /\ \A d \in DOMAIN Gamepads' : Gamepads'[d] = Gamepads[d]
           /\ \A d \in DOMAIN Gamepads : Gamepads[d] # i => d \in DOMAIN Gamepads'
<1>1. /\ queue # << >> /\ queue' = Tail(queue) /\ UNCHANGED devices
      /\ Head(queue).type = "removed"
  BY DEF DeviceRemoved
<1>2. Head(queue) = queue[1] /\ 1 \in DOMAIN queue
  BY <1>1, EventTaken
<1>3. PICK i \in DOMAIN pads \ Attached : queue[1] = Removed(i)
  BY <1>1, <1>2, EventsApart DEF EventInv, Announced
<1>4. Head(queue).which = i
  BY <1>2, <1>3, EventsApart
<1>5. \/ Holders(i) = {} /\ UNCHANGED <<Gamepads, retired>>
      \/ \E id \in Holders(i) : Dropped({id}) /\ retired' = retired \cup {i}
  BY <1>4 DEF DeviceRemoved
<1>6. /\ DOMAIN Gamepads' \subseteq DOMAIN Gamepads
      /\ \A d \in DOMAIN Gamepads' : Gamepads'[d] = Gamepads[d]
      /\ \A d \in DOMAIN Gamepads : Gamepads[d] # i => d \in DOMAIN Gamepads'
  BY <1>5 DEF Dropped, Holders
<1> QED
  BY <1>3, <1>5, <1>6

\* A gamepad registered once is then registered no more.
LEMMA RemovedIsGone ==
  ASSUME NameInv, NEW i,
         \/ Holders(i) = {} /\ UNCHANGED <<Gamepads, retired>>
         \/ \E id \in Holders(i) : Dropped({id}) /\ retired' = retired \cup {i}
  PROVE  /\ DOMAIN Gamepads' = {d \in DOMAIN Gamepads : Gamepads[d] # i}
         /\ retired' = IF i \in Registered THEN retired \cup {i} ELSE retired
<1>1. CASE Holders(i) = {} /\ UNCHANGED <<Gamepads, retired>>
  <2>1. i \notin Registered
    BY <1>1, HeldBy
  <2>2. \A d \in DOMAIN Gamepads : Gamepads[d] # i
    BY <2>1 DEF Registered
  <2> QED
    BY <1>1, <2>1, <2>2
<1>2. CASE \E id \in Holders(i) : Dropped({id}) /\ retired' = retired \cup {i}
  <2>1. PICK id \in Holders(i) : Dropped({id}) /\ retired' = retired \cup {i}
    BY <1>2
  <2>2. id \in DOMAIN Gamepads /\ Gamepads[id] = i
    BY DEF Holders
  <2>3. \A d \in DOMAIN Gamepads : Gamepads[d] = i <=> d = id
    BY <2>2 DEF NameInv, Named
  <2>4. DOMAIN Gamepads' = {d \in DOMAIN Gamepads : Gamepads[d] # i}
    BY <2>1, <2>3 DEF Dropped
  <2>5. i \in Registered
    BY <2>2 DEF Registered
  <2> QED
    BY <2>1, <2>4, <2>5
<1> QED
  BY <1>1, <1>2

LEMMA RemovedKeeps ==
  ASSUME HandleInv, EventInv, DeviceRemoved PROVE EventInv' /\ (NameInv => NameInv')
<1>1. /\ queue # << >> /\ queue' = Tail(queue) /\ UNCHANGED devices
      /\ UNCHANGED <<opens, reading, polling, lost>>
  BY DEF DeviceRemoved
<1>2. pads' = pads /\ sdl' = sdl
  BY <1>1 DEF devices
<1>3. PICK i \in DOMAIN pads \ Attached :
        /\ queue[1] = Removed(i)
        /\ \/ Holders(i) = {} /\ UNCHANGED <<Gamepads, retired>>
           \/ \E id \in Holders(i) : Dropped({id}) /\ retired' = retired \cup {i}
        /\ DOMAIN Gamepads' \subseteq DOMAIN Gamepads
        /\ \A d \in DOMAIN Gamepads' : Gamepads'[d] = Gamepads[d]
        /\ \A d \in DOMAIN Gamepads : Gamepads[d] # i => d \in DOMAIN Gamepads'
  BY RemovedIs
<1>4. /\ Apart' /\ Announced' /\ Attached' = Attached
      /\ 1 \in DOMAIN queue
      /\ \A n \in DOMAIN queue' : n \in Nat \ {0} /\ n + 1 \in DOMAIN queue /\ queue'[n] = queue[n + 1]
      /\ \A n \in DOMAIN queue : n # 1 => n - 1 \in DOMAIN queue' /\ queue'[n - 1] = queue[n]
  BY <1>1, EventTaken
<1>5. Registered \ {i} \subseteq Registered' /\ Registered' \subseteq Registered
  BY <1>3 DEF Registered
<1>6. Known'
  <2>1. IsFiniteSet(DOMAIN Gamepads') /\ retired' \subseteq DOMAIN pads
    BY <1>3, FS_Subset DEF EventInv, Known
  <2> QED
    BY <1>1, <1>2, <1>5, <2>1 DEF EventInv, Known
<1>7. \A j : j # i => queue[1] # Removed(j)
  BY <1>3, EventsApart
<1>8. FoundFirst'
  <2> SUFFICES ASSUME NEW n \in DOMAIN queue', NEW k \in DOMAIN sdl,
                      queue'[n] = Added(k - 1), opens[sdl[k]] # 0,
                      NEW m \in 1 .. n, NEW j \in DOMAIN sdl, queue'[m] = Added(j - 1)
               PROVE  sdl[j] \in Registered'
    BY <1>1, <1>2 DEF FoundFirst
  <2>1. n + 1 \in DOMAIN queue /\ queue[n + 1] = Added(k - 1) /\ n \in Nat
    BY <1>4
  <2>2. m \in DOMAIN queue'
    <3>1. DOMAIN queue' = 1 .. Len(queue') /\ Len(queue') \in Nat
      BY <1>4 DEF Announced
    <3> QED
      BY <3>1
  <2>3. m + 1 \in 1 .. n + 1 /\ queue[m + 1] = Added(j - 1)
    BY <1>4, <2>1, <2>2
  <2>4. sdl[j] \in Registered /\ sdl[j] # i
    BY <2>1, <2>3 DEF EventInv, FoundFirst, Attached
  <2> QED
    BY <1>5, <2>4
<1>9. EventInv'
  <2>1. Looked'
    BY <1>1, <1>2 DEF EventInv, Looked
  <2> QED
    BY <1>4, <1>6, <1>8, <2>1 DEF EventInv
<1> SUFFICES ASSUME NameInv PROVE NameInv'
  BY <1>9
<1>10. /\ DOMAIN Gamepads' = {d \in DOMAIN Gamepads : Gamepads[d] # i}
       /\ retired' = IF i \in Registered THEN retired \cup {i} ELSE retired
  BY <1>3, RemovedIsGone
<1>11. /\ Registered' = Registered \ {i}
       /\ \A d \in DOMAIN Gamepads' :
            d \in DOMAIN Gamepads /\ Gamepads'[d] = Gamepads[d] /\ Gamepads[d] # i
  BY <1>3, <1>10 DEF Registered
<1>12. Named'
  BY <1>2, <1>11 DEF NameInv, Named, Bare, Suffixed
<1>13. Alive'
  <2> SUFFICES ASSUME NEW d \in DOMAIN Gamepads'
               PROVE  \/ Gamepads'[d] \in Attached
                      \/ \E n \in DOMAIN queue' : queue'[n] = Removed(Gamepads'[d])
    BY <1>4 DEF Alive
  <2> QED
    BY <1>4, <1>7, <1>11 DEF NameInv, Alive
<1>14. InTurn'
  <2> SUFFICES ASSUME NEW n \in DOMAIN queue', NEW j \in DOMAIN sdl, NEW d \in DOMAIN Gamepads',
                      queue'[n] = Added(j - 1), pads[sdl[j]] = pads[Gamepads'[d]],
                      sdl[j] # Gamepads'[d]
               PROVE  \E m \in 1 .. n - 1 : queue'[m] = Removed(Gamepads'[d])
    BY <1>2 DEF InTurn
  <2>1. PICK m \in 1 .. n + 1 - 1 : queue[m] = Removed(Gamepads[d])
    BY <1>4, <1>11 DEF NameInv, InTurn
  <2>2. m # 1 /\ m \in DOMAIN queue /\ m - 1 \in 1 .. n - 1
    BY <1>4, <1>7, <1>11, <2>1, Types
  <2> QED
    BY <1>4, <1>11, <2>1, <2>2
<1>15. Complete'
  <2> SUFFICES ASSUME NEW k \in DOMAIN sdl
               PROVE  sdl[k] \in Registered' \cup lost \/ \E n \in DOMAIN queue' : queue'[n] = Added(k - 1)
    BY <1>1, <1>2 DEF Complete
  <2>1. sdl[k] # i
    BY DEF Attached
  <2>2. queue[1] # Added(k - 1)
    BY <1>3, EventsApart
  <2> QED
    BY <1>4, <1>11, <2>1, <2>2 DEF NameInv, Complete
<1>16. Counted'
  <2>1. Registered' \cup retired' = Registered \cup retired /\ Registered' \cap retired' = {}
    BY <1>10, <1>11 DEF NameInv, Counted
  <2>2. retired' \subseteq DOMAIN pads \ Attached
    BY <1>10 DEF NameInv, Counted
  <2>3. (Registered' \cup retired') \cap lost' = {}
    BY <1>1, <2>1 DEF NameInv, Counted
  <2> QED
    BY <1>1, <1>2, <1>4, <2>1, <2>2, <2>3 DEF NameInv, Counted
<1> QED
  BY <1>12, <1>13, <1>14, <1>15, <1>16 DEF NameInv

-----------------------------------------------------------------------------
(* Readers, shutdown and start-up.                                          *)

LEMMA HoldersCount ==
  ASSUME NameInv
  PROVE  \A i : Cardinality(Holders(i)) = IF i \in Registered THEN 1 ELSE 0
<1> SUFFICES ASSUME NEW i PROVE Cardinality(Holders(i)) = IF i \in Registered THEN 1 ELSE 0
  OBVIOUS
<1>1. CASE i \in Registered
  <2>1. PICK d \in DOMAIN Gamepads : Gamepads[d] = i
    BY <1>1 DEF Registered
  <2>2. Holders(i) = {d}
    BY <2>1 DEF Holders, NameInv, Named
  <2> QED
    BY <1>1, <2>2, FS_Singleton
<1>2. CASE i \notin Registered
  BY <1>2, HeldBy, FS_EmptySet
<1> QED
  BY <1>1, <1>2

LEMMA QuitKeeps ==
  ASSUME HandleInv, EventInv, Quit PROVE EventInv' /\ (NameInv => NameInv')
<1>1. UNCHANGED <<pads, sdl, queue, Gamepads, retired, reading, lost>> /\ polling /\ polling' = FALSE
  BY DEF Quit, devices
<1>2. /\ Attached' = Attached /\ Registered' = Registered
  BY <1>1 DEF Attached, Registered
<1> DEFINE closes(i) == Cardinality(Holders(i)) + (IF i \in retired THEN 1 ELSE 0)
<1>3. opens' = [i \in Instances |-> IF closes(i) > opens[i] THEN 0 ELSE opens[i] - closes(i)]
  BY DEF Quit
<1>4. ASSUME NEW i \in Instances PROVE closes(i) \in Nat /\ opens[i] \in 0 .. 1
  <2>1. Holders(i) \subseteq DOMAIN Gamepads /\ IsFiniteSet(DOMAIN Gamepads)
    BY DEF Holders, EventInv, Known
  <2>2. Cardinality(Holders(i)) \in Nat
    BY <2>1, FS_Subset, FS_CardinalityType
  <2> QED
    BY <2>2 DEF EventInv, Known
<1> HIDE DEF closes
<1>5. \A i \in Instances : opens'[i] \in 0 .. 1 /\ (opens[i] = 0 => opens'[i] = 0)
  BY <1>3, <1>4
<1>6. Known'
  BY <1>1, <1>2, <1>3, <1>5 DEF EventInv, Known
<1>7. FoundFirst'
  BY <1>1, <1>2, <1>5, Types DEF EventInv, FoundFirst
<1>8. Apart' /\ Announced' /\ Looked'
  BY <1>1, <1>2 DEF EventInv, Apart, Announced, Looked
<1>9. EventInv'
  BY <1>6, <1>7, <1>8 DEF EventInv
<1> SUFFICES ASSUME NameInv PROVE NameInv'
  BY <1>9
<1>10. opens' = [i \in Instances |-> IF i \in lost THEN 1 ELSE 0]
  <2>1. \A i \in Instances : /\ opens[i] = IF i \in lost \cup Registered \cup retired THEN 1 ELSE 0
                             /\ closes(i) = IF i \in Registered \cup retired THEN 1 ELSE 0
                             /\ ~(i \in lost /\ i \in Registered \cup retired)
    BY <1>1, HoldersCount DEF NameInv, Counted, closes
  <2>2. \A i \in Instances : (IF closes(i) > opens[i] THEN 0 ELSE opens[i] - closes(i))
                             = IF i \in lost THEN 1 ELSE 0
    BY <2>1
  <2> QED
    BY <1>3, <2>2
<1>11. Counted'
  BY <1>1, <1>2, <1>10 DEF NameInv, Counted
<1>12. Named' /\ Alive' /\ InTurn' /\ Complete'
  BY <1>1, <1>2 DEF NameInv, Named, Alive, InTurn, Complete, Bare, Suffixed
<1> QED
  BY <1>11, <1>12 DEF NameInv

LEMMA ReadersKeep ==
  ASSUME EventInv,
         \/ \E r \in Readers : Lookup(r) \/ Release(r)
         \/ UNCHANGED vars
  PROVE  EventInv' /\ (NameInv => NameInv')
<1>1. UNCHANGED <<pads, sdl, queue, opens, Gamepads, retired, polling, lost>>
  BY DEF Lookup, Release, devices, vars
<1>2. Attached' = Attached /\ Registered' = Registered
  BY <1>1 DEF Attached, Registered
<1>3. Apart' /\ Announced' /\ Known' /\ FoundFirst'
  BY <1>1, <1>2 DEF EventInv, Apart, Announced, Known, FoundFirst
<1>4. ASSUME NameInv PROVE NameInv'
  <2>1. Complete' /\ Counted'
    BY <1>1, <1>2, <1>4 DEF NameInv, Complete, Counted
  <2>2. Named' /\ Alive' /\ InTurn'
    BY <1>1, <1>2, <1>4 DEF NameInv, Named, Alive, InTurn, Bare, Suffixed
  <2> QED
    BY <2>1, <2>2 DEF NameInv
<1>5. Looked'
  <2>1. \A id \in DOMAIN Gamepads : Gamepads[id] \in DOMAIN pads
    BY DEF EventInv, Known, Registered
  <2>2. CASE \E r \in Readers : Lookup(r)
    BY <1>1, <2>1, <2>2 DEF EventInv, Looked, Lookup
  <2>3. CASE \E r \in Readers : Release(r)
    BY <1>1, <2>3 DEF EventInv, Looked, Release
  <2>4. CASE UNCHANGED vars
    BY <2>4 DEF EventInv, Looked, vars, devices
  <2> QED
    BY <2>2, <2>3, <2>4
<1> QED
  BY <1>3, <1>4, <1>5 DEF EventInv

\* At start-up every gamepad found has an id of its own.
LEMMA FirstIds ==
  ASSUME Init, NEW n \in Nat, DOMAIN pads = 1 .. n
  PROVE  /\ \A d \in DOMAIN Gamepads :
              /\ Gamepads[d] \in DOMAIN pads
              /\ d = Bare(Gamepads[d]) \/ \E m \in Nat : d = Suffixed(Gamepads[d], m)
         /\ \A c, d \in DOMAIN Gamepads : Gamepads[c] = Gamepads[d] => c = d
         /\ Registered = DOMAIN pads /\ Gamepads \in [DOMAIN Gamepads -> DOMAIN pads]
<1> DEFINE taken(k) == \E j \in 1 .. k - 1 : Derived[pads[j]] = Derived[pads[k]]
           id(k) == IF taken(k) THEN <<Derived[pads[k]], k - 1>> ELSE <<Derived[pads[k]]>>
<1>1. Gamepads = [d \in {id(k) : k \in DOMAIN pads} |-> CHOOSE k \in DOMAIN pads : id(k) = d]
  BY DEF Init, Enumerated
<1>2. \A k \in DOMAIN pads : id(k) = Bare(k) \/ id(k) = Suffixed(k, k - 1)
  BY DEF Bare, Suffixed
<1>3. ASSUME NEW j \in DOMAIN pads, NEW k \in DOMAIN pads, id(j) = id(k) PROVE j = k
  <2>1. CASE taken(j) /\ taken(k)
    <3>1. j - 1 = k - 1
      BY <1>3, <2>1
    <3> QED
      BY <3>1
  <2>2. CASE ~taken(j) /\ ~taken(k)
    <3>1. Derived[pads[j]] = Derived[pads[k]]
      BY <1>3, <2>2
    <3>2. j \in Nat /\ k \in Nat /\ j >= 1 /\ k >= 1
      OBVIOUS
    <3>3. ~(j < k) /\ ~(k < j)
      BY <2>2, <3>1, <3>2
    <3> QED
      BY <3>2, <3>3
  <2>3. CASE taken(j) # taken(k)
    <3>1. \A x, y, z : <<x, y>> # <<z>>
      OBVIOUS
    <3> QED
      BY <1>3, <2>3, <3>1
  <2> QED
    BY <2>1, <2>2, <2>3
<1> HIDE DEF id, taken
<1>4. \A k \in DOMAIN pads : id(k) \in DOMAIN Gamepads /\ Gamepads[id(k)] = k
  BY <1>1, <1>3
<1>5. \A d \in DOMAIN Gamepads : \E k \in DOMAIN pads : d = id(k)
  BY <1>1
<1>6. \A k \in DOMAIN pads : k - 1 \in Nat
  OBVIOUS
<1>7. \A d \in DOMAIN Gamepads : Gamepads[d] \in DOMAIN pads /\ d = id(Gamepads[d])
  BY <1>4, <1>5
<1>8. Registered = DOMAIN pads
  BY <1>4, <1>7 DEF Registered
<1>9. Gamepads \in [DOMAIN Gamepads -> DOMAIN pads]
  BY <1>1, <1>7
<1> QED
  BY <1>2, <1>6, <1>7, <1>8, <1>9

LEMMA RegistryStarts == ASSUME Init PROVE EventInv /\ NameInv
<1>1. HandleInv
  BY Starts
<1>2. PICK attached \in SUBSET Pads : pads \in SetToSeqs(attached)
  BY DEF Init
<1>3. Len(pads) \in Nat /\ DOMAIN pads = 1 .. Len(pads) /\ Len(pads) <= MaxPlugs /\ pads \in Seq(Pads)
  BY <1>1 DEF HandleInv, Enumeration
<1>4. \A j, k \in DOMAIN pads : pads[j] = pads[k] => j = k
  BY <1>2 DEF SetToSeqs
<1>5. /\ sdl = [k \in DOMAIN pads |-> k] /\ queue = [k \in DOMAIN pads |-> Added(k - 1)]
      /\ Attached = DOMAIN pads
  BY DEF Init, Attached
<1>6. queue \in Seq(EventType)
  <2>1. \A k \in DOMAIN pads : Added(k - 1) \in EventType
    BY <1>3, EventsApart
  <2>2. queue \in [1 .. Len(pads) -> EventType]
    BY <1>3, <1>5, <2>1
  <2> QED
    BY <1>3, <2>2
<1>7. /\ \A d \in DOMAIN Gamepads :
           /\ Gamepads[d] \in DOMAIN pads
           /\ d = Bare(Gamepads[d]) \/ \E m \in Nat : d = Suffixed(Gamepads[d], m)
      /\ \A c, d \in DOMAIN Gamepads : Gamepads[c] = Gamepads[d] => c = d
      /\ Registered = DOMAIN pads /\ Gamepads \in [DOMAIN Gamepads -> DOMAIN pads]
  BY <1>3, FirstIds
<1>8. Apart
  BY <1>4, <1>5 DEF Apart
<1>9. Announced
  <2>1. \A m, n \in DOMAIN queue : queue[m] = queue[n] => m - 1 = n - 1
    BY <1>5, EventsApart
  <2>2. \A m, n \in DOMAIN queue : queue[m] = queue[n] => m = n
    BY <1>3, <1>5, <2>1
  <2> QED
    BY <1>5, <1>6, <2>2 DEF Announced
<1>10. Named
  BY <1>4, <1>7 DEF Named
<1>11. Alive
  BY <1>5, <1>7 DEF Alive
<1>12. InTurn
  BY <1>4, <1>5, <1>7 DEF InTurn
<1>13. Complete
  BY <1>5, <1>7 DEF Complete
<1>14. Counted
  <2>1. DOMAIN pads \subseteq Instances
    BY <1>3, DeviceAssumption DEF Instances
  <2> QED
    BY <1>7, <2>1 DEF Init, Counted
<1>15. Looked
  BY DEF Init, Looked
<1>16. Known
  <2>1. IsFiniteSet(DOMAIN pads)
    BY <1>3, FS_Interval
  <2>2. IsFiniteSet(DOMAIN Gamepads)
    <3>1. Gamepads \in Injection(DOMAIN Gamepads, DOMAIN pads)
      BY <1>7 DEF Injection, IsInjective
    <3> QED
      BY <2>1, <3>1, FS_Injection
  <2>3. opens \in [Instances -> 0 .. 1] /\ \A i \in Instances \ DOMAIN pads : opens[i] = 0
    BY DEF Init
  <2> QED
    BY <1>7, <2>2, <2>3 DEF Init, Known
<1>17. FoundFirst
  BY <1>3, <1>5, <1>7 DEF FoundFirst
<1> QED
  BY <1>8, <1>9, <1>10, <1>11, <1>12, <1>13, <1>14, <1>15, <1>16, <1>17 DEF EventInv, NameInv

LEMMA RegistryStep ==
  ASSUME HandleInv, HandleInv', EventInv, [Next]_vars
  PROVE  EventInv' /\ (NameInv => NameInv')
BY PlugKeeps, UnplugKeeps, AddedKeeps, RemovedKeeps, QuitKeeps, ReadersKeep DEF Next

LEMMA EventsInvariant == DeviceSpec => []EventInv
<1>1. Init => EventInv
  BY RegistryStarts
<1> QED
  BY <1>1, RegistryStep, HandleInvariant, PTL DEF DeviceSpec

LEMMA NamesInvariant == DeviceSpec => []NameInv
<1>1. Init => NameInv
  BY RegistryStarts
<1>2. HandleInv /\ HandleInv' /\ EventInv /\ NameInv /\ [Next]_vars => NameInv'
  BY RegistryStep
<1> QED
  BY <1>1, <1>2, HandleInvariant, EventsInvariant, PTL DEF DeviceSpec

\* The type invariant, in which every event of the queue names a joystick that is attached or
\* an instance that was, and no instance is open twice.
THEOREM DeviceTypeCorrect ==
  DeviceSpec => []DeviceTypeOK
<1>1. HandleInv /\ EventInv => DeviceTypeOK
  <2> SUFFICES ASSUME HandleInv, EventInv PROVE DeviceTypeOK
    OBVIOUS
  <2>1. pads \in Seq(Pads) /\ Len(pads) <= MaxPlugs /\ Attached \subseteq DOMAIN pads
    BY Types DEF HandleInv, Enumeration
  <2>2. IsInjective(sdl)
    BY DEF IsInjective, EventInv, Apart
  <2>3. \A e \in Range(queue) : e \in {Added(k - 1) : k \in DOMAIN sdl}
                                         \cup {Removed(i) : i \in DOMAIN pads}
    BY DEF Range, EventInv, Announced
  <2>4. opens \in [Instances -> 0 .. 1] /\ retired \cup lost \subseteq DOMAIN pads
    BY DEF EventInv, Known
  <2>5. Range(Gamepads) \subseteq DOMAIN pads
    BY DEF Range, EventInv, Known, Registered
  <2>6. reading \in [Readers -> DOMAIN pads \cup {None}] /\ polling \in BOOLEAN
    BY DEF EventInv, Looked
  <2> QED
    BY <2>1, <2>2, <2>3, <2>4, <2>5, <2>6 DEF DeviceTypeOK
<1> QED
  BY <1>1, HandleInvariant, EventsInvariant, PTL

\* However many gamepads are alike, no handle leaks and none is closed twice, but that of an
\* entry that was overwritten: an announcement opens an instance once, whatever id it is given,
\* and a removal keeps the handle for Quit to close.
THEOREM HandlesAreBalanced ==
  DeviceSpec => []HandlesBalanced
<1>1. NameInv => HandlesBalanced
  <2> SUFFICES ASSUME NameInv, NEW i \in Instances
               PROVE  opens[i] = (IF polling
                                  THEN Cardinality(Holders(i)) + (IF i \in retired THEN 1 ELSE 0)
                                  ELSE 0)
                                 + (IF i \in lost THEN 1 ELSE 0)
    BY DEF HandlesBalanced
  <2>1. /\ opens[i] = IF i \in lost \/ (polling /\ i \in Registered \cup retired) THEN 1 ELSE 0
        /\ ~(i \in Registered /\ i \in retired)
        /\ ~(i \in lost /\ i \in Registered \cup retired)
    BY DEF NameInv, Counted
  <2>2. Cardinality(Holders(i)) = IF i \in Registered THEN 1 ELSE 0
    BY HoldersCount
  <2> QED
    BY <2>1, <2>2
<1> QED
  BY <1>1, NamesInvariant, PTL

\* Whenever the poll loop has caught up with SDL, the registry answers for the attached gamepads
\* it has not overwritten and for no other, each under one id.
THEOREM RegistryIsCurrent ==
  DeviceSpec => []RegistryCurrent
<1>1. HandleInv /\ NameInv => RegistryCurrent
  <2> SUFFICES ASSUME HandleInv, NameInv, queue = << >>, NEW i \in DOMAIN pads
               PROVE  Cardinality(Holders(i)) = IF i \in Attached \ lost THEN 1 ELSE 0
    BY DEF RegistryCurrent
  <2>1. DOMAIN queue = {}
    OBVIOUS
  <2>2. Registered \subseteq Attached
    BY <2>1 DEF NameInv, Alive, Registered
  <2>3. Attached \subseteq Registered \cup lost /\ Registered \cap lost = {}
    BY <2>1 DEF NameInv, Complete, Counted, Attached
  <2>4. i \in Registered <=> i \in Attached \ lost
    BY <2>2, <2>3
  <2> QED
    BY <2>4, HoldersCount
<1> QED
  BY <1>1, HandleInvariant, NamesInvariant, PTL

\* Unless three gamepads that derive one id are about, none is renamed while it is registered,
\* nor its id given to its double: the id that deviceAdded chooses is free.
THEOREM FirstHolderIsKept ==
  DeviceSpec => FirstHolderKeeps
<1> DEFINE Kept(id) == Gamepads'[id] = Gamepads[id] \/ Cardinality(Alike(id)) > 2
<1>1. HandleInv /\ EventInv /\ NameInv /\ [Next]_vars
        => [\A id \in DOMAIN Gamepads \cap DOMAIN Gamepads' : Kept(id)]_vars
  <2> SUFFICES ASSUME HandleInv, EventInv, NameInv, Next,
                      NEW id \in DOMAIN Gamepads \cap DOMAIN Gamepads'
               PROVE  Kept(id)
    OBVIOUS
  <2>1. CASE DeviceAdded
    <3>1. PICK k \in DOMAIN sdl :
            /\ queue[1] = Added(k - 1) /\ sdl[k] \in DOMAIN pads /\ k - 1 \in Nat
            /\ \/ sdl[k] \in Registered /\ UNCHANGED <<opens, Gamepads, lost>>
               \/ /\ sdl[k] \notin Registered
                  /\ Opened(sdl[k]) /\ Register(NewId(sdl[k], k - 1), sdl[k])
      BY <2>1, AddedIs
    <3>2. CASE Gamepads' = Gamepads
      BY <3>2
    <3>3. CASE sdl[k] \notin Registered /\ Register(NewId(sdl[k], k - 1), sdl[k])
      <4>1. queue # << >> /\ sdl[k] \in Attached
        BY <2>1 DEF DeviceAdded, Attached
      <4>2. \A d \in DOMAIN Gamepads : pads[Gamepads[d]] # pads[sdl[k]]
        BY <3>1, <3>3, <4>1, AddedIsNew
      <4>3. CASE id = NewId(sdl[k], k - 1)
        BY <3>1, <4>1, <4>2, <4>3, TakenIds
      <4>4. CASE id # NewId(sdl[k], k - 1)
        BY <3>3, <4>4 DEF Register
      <4> QED
        BY <4>3, <4>4
    <3> QED
      BY <3>1, <3>2, <3>3
  <2>2. CASE DeviceRemoved
    BY <2>2, RemovedIs
  <2>3. CASE ~DeviceAdded /\ ~DeviceRemoved
    BY <2>3 DEF Next, Plug, Unplug, Lookup, Release, Quit
  <2> QED
    BY <2>1, <2>2, <2>3
<1> QED
  BY <1>1, HandleInvariant, EventsInvariant, NamesInvariant, PTL DEF DeviceSpec, FirstHolderKeeps
=============================================================================
