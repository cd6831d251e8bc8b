---------------------------- MODULE DeviceRegistry ----------------------------
(* The gamepad registry (pkg/devices): start-up enumeration, the poll loop    *)
(* that drains SDL's hot-plug events, and the readers that keep a handle they  *)
(* looked up.                                                              *)
(*                                                                         *)
(* SDL is external: a list of attached joysticks, whose positions are the     *)
(* device indices, an instance number for each time a gamepad is plugged in,  *)
(* a count of opens for each instance, and a queue of events.  An ADDED event *)
(* carries an index, which SDL keeps up to date when an earlier joystick      *)
(* leaves, and drops with its joystick; a REMOVED event carries an instance.  *)
EXTENDS Naturals, Sequences, FiniteSets, SequencesExt

CONSTANTS Pads,         \* physical gamepads
          Derived,      \* [Pads -> ids]: DeriveGamepadId, of GUID and name only
          Readers,      \* stream handlers, and the eval loop's evaluations
          MaxPlugs,     \* bound on the instances of a behaviour
          None

ASSUME DeviceAssumption ==
  /\ IsFiniteSet(Pads) /\ DOMAIN Derived = Pads
  /\ MaxPlugs \in Nat

Instances == 1 .. MaxPlugs

VARIABLES
  pads,        \* pads[i]: the gamepad that instance i is
  sdl,         \* the attached instances, by device index
  queue,       \* SDL's events
  opens,       \* opens[i]: SDL's open count of instance i
  Gamepads,    \* the registry: instances by id
  retired,     \* handles kept open after their gamepad left
  reading,     \* the handle each reader holds
  polling,     \* the poll loop runs; Quit ends it
  lost         \* history: instances whose entry was overwritten

devices == <<pads, sdl>>
vars    == <<devices, queue, opens, Gamepads, retired, reading, polling, lost>>

Added(index)      == [type |-> "added", which |-> index]
Removed(instance) == [type |-> "removed", which |-> instance]

\* The id of a gamepad, and the one with its device index appended.
Bare(i)            == <<Derived[pads[i]]>>
Suffixed(i, index) == <<Derived[pads[i]], index>>

Attached == {sdl[k] : k \in DOMAIN sdl}

Holders(i) == {id \in DOMAIN Gamepads : Gamepads[id] = i}

-----------------------------------------------------------------------------
(* Start-up: SDL announces the joysticks it finds, and enumerateDevices opens *)
(* each of them under its id, or with its index appended if that is taken.   *)

Enumerated(found) ==
  LET id(k) == IF \E j \in 1 .. k - 1 : Derived[found[j]] = Derived[found[k]]
               THEN <<Derived[found[k]], k - 1>> ELSE <<Derived[found[k]]>>
  IN [d \in {id(k) : k \in DOMAIN found} |->
        CHOOSE k \in DOMAIN found : id(k) = d]

Init ==
  /\ pads \in UNION {SetToSeqs(attached) : attached \in SUBSET Pads}
  /\ Len(pads) <= MaxPlugs
  /\ sdl = [k \in DOMAIN pads |-> k]
  /\ queue = [k \in DOMAIN pads |-> Added(k - 1)]
  /\ Gamepads = Enumerated(pads)
  /\ opens = [i \in Instances |-> IF i \in DOMAIN pads THEN 1 ELSE 0]
  /\ retired = {} /\ lost = {} /\ polling = TRUE
  /\ reading = [r \in Readers |-> None]

-----------------------------------------------------------------------------
(* SDL, until Quit shuts it down.                                            *)

Plug(p) ==
  /\ polling /\ Len(pads) < MaxPlugs
  /\ p \notin {pads[i] : i \in Attached}
  /\ pads' = Append(pads, p)
  /\ sdl' = Append(sdl, Len(pads'))
  /\ queue' = Append(queue, Added(Len(sdl)))
  /\ UNCHANGED <<opens, Gamepads, retired, reading, polling, lost>>

\* The indices above the one that left move down, in the queue too; the joystick
\* that left has at most one event there.
Unplug(k) ==
  LET left  == RemoveFirst(queue, Added(k - 1))
      moved == [n \in DOMAIN left |->
                  IF left[n].type = "added" /\ left[n].which > k - 1
                  THEN Added(left[n].which - 1) ELSE left[n]]
  IN /\ polling
     /\ queue' = Append(moved, Removed(sdl[k]))
     /\ sdl' = RemoveAt(sdl, k)
     /\ UNCHANGED <<pads, opens, Gamepads, retired, reading, polling, lost>>

-----------------------------------------------------------------------------
(* The poll loop: one event at a time.                                     *)

\* An id given without a look at who holds it.
NewIdBare(i, index) == Bare(i)

\* The id deviceAdded gives to a new instance.
NewId(i, index) ==
  IF Bare(i) \in DOMAIN Gamepads THEN Suffixed(i, index) ELSE Bare(i)

\* Nobody looks whether the id with the index is taken: then the entry there is
\* overwritten, and its handle has no owner left.
Register(id, i) ==
  /\ Gamepads' = [d \in DOMAIN Gamepads \cup {id} |->
                    IF d = id THEN i ELSE Gamepads[d]]
  /\ lost' = lost \cup {Gamepads[d] : d \in DOMAIN Gamepads \cap {id}}

Opened(i) == opens' = [opens EXCEPT ![i] = @ + 1]

\* A duplicate whose second handle is not surrendered.
DeviceAddedLeaks ==
  /\ polling /\ queue # <<>> /\ Head(queue).type = "added"
  /\ queue' = Tail(queue)
  /\ LET index == Head(queue).which
     IN IF index + 1 \notin DOMAIN sdl
        THEN UNCHANGED <<opens, Gamepads, lost>>
        ELSE LET i == sdl[index + 1]
             IN /\ Opened(i)
                /\ IF Holders(i) # {} THEN UNCHANGED <<Gamepads, lost>>
                   ELSE Register(NewId(i, index), i)
  /\ UNCHANGED <<devices, retired, reading, polling>>

DeviceAdded ==
  /\ polling /\ queue # <<>> /\ Head(queue).type = "added"
  /\ queue' = Tail(queue)
  /\ LET index == Head(queue).which
     IN IF index + 1 \notin DOMAIN sdl
        THEN UNCHANGED <<opens, Gamepads, lost>>    \* could not be opened
        ELSE LET i == sdl[index + 1]
             IN IF Holders(i) # {}                 \* opened, and surrendered
                THEN UNCHANGED <<opens, Gamepads, lost>>
                ELSE Opened(i) /\ Register(NewId(i, index), i)
  /\ UNCHANGED <<devices, retired, reading, polling>>

Dropped(ids) == Gamepads' = [d \in DOMAIN Gamepads \ ids |-> Gamepads[d]]

\* A removal that closes the handle, one that forgets it, and one that goes by
\* the derived id.
DeviceRemovedCloses ==
  /\ polling /\ queue # <<>> /\ Head(queue).type = "removed"
  /\ queue' = Tail(queue)
  /\ LET i == Head(queue).which
     IN Dropped(Holders(i)) /\ opens' = [opens EXCEPT ![i] = 0]
  /\ UNCHANGED <<devices, retired, reading, polling, lost>>

DeviceRemovedForgets ==
  /\ polling /\ queue # <<>> /\ Head(queue).type = "removed"
  /\ queue' = Tail(queue)
  /\ Dropped(Holders(Head(queue).which))
  /\ UNCHANGED <<devices, opens, retired, reading, polling, lost>>

DeviceRemovedById ==
  /\ polling /\ queue # <<>> /\ Head(queue).type = "removed"
  /\ queue' = Tail(queue)
  /\ LET id == Bare(Head(queue).which)
     IN /\ Dropped({id})
        /\ retired' = IF id \in DOMAIN Gamepads THEN retired \cup {Gamepads[id]}
                      ELSE retired
  /\ UNCHANGED <<devices, opens, reading, polling, lost>>

DeviceRemoved ==
  /\ polling /\ queue # <<>> /\ Head(queue).type = "removed"
  /\ queue' = Tail(queue)
  /\ LET i == Head(queue).which
     IN \/ Holders(i) = {} /\ UNCHANGED <<Gamepads, retired>>
        \/ \E id \in Holders(i) : Dropped({id}) /\ retired' = retired \cup {i}
  /\ UNCHANGED <<devices, opens, reading, polling, lost>>

-----------------------------------------------------------------------------
(* Readers and shutdown.                                                   *)

\* A reader keeps the handle it looked up, without the registry's lock; the
\* registry answers after Quit, too.
Lookup(r) ==
  /\ reading[r] = None
  /\ \E id \in DOMAIN Gamepads : reading' = [reading EXCEPT ![r] = Gamepads[id]]
  /\ UNCHANGED <<devices, queue, opens, Gamepads, retired, polling, lost>>

Release(r) ==
  /\ reading[r] # None
  /\ reading' = [reading EXCEPT ![r] = None]
  /\ UNCHANGED <<devices, queue, opens, Gamepads, retired, polling, lost>>

\* The poll loop is stopped and waited for, then every handle is closed,
\* whoever reads it.
Quit ==
  /\ polling /\ polling' = FALSE
  /\ opens' = [i \in Instances |->
       LET closes == Cardinality(Holders(i)) + (IF i \in retired THEN 1 ELSE 0)
       IN IF closes > opens[i] THEN 0 ELSE opens[i] - closes]
  /\ UNCHANGED <<devices, queue, Gamepads, retired, reading, lost>>

Next ==
  \/ \E p \in Pads : Plug(p)
  \/ \E k \in DOMAIN sdl : Unplug(k)
  \/ DeviceAdded \/ DeviceRemoved
  \/ \E r \in Readers : Lookup(r) \/ Release(r)
  \/ Quit

DeviceSpec == Init /\ [][Next]_vars

-----------------------------------------------------------------------------
(* Properties.                                                             *)

DeviceTypeOK ==
  /\ pads \in Seq(Pads) /\ Len(pads) <= MaxPlugs
  /\ Attached \subseteq DOMAIN pads /\ IsInjective(sdl)
  /\ \A e \in Range(queue) : e \in {Added(k - 1) : k \in DOMAIN sdl}
                                   \cup {Removed(i) : i \in DOMAIN pads}
  /\ opens \in [Instances -> 0 .. 1]
  /\ Range(Gamepads) \subseteq DOMAIN pads
  /\ retired \cup lost \subseteq DOMAIN pads
  /\ reading \in [Readers -> DOMAIN pads \cup {None}]
  /\ polling \in BOOLEAN

\* SDL's open count is the number of handles the registry answers for, so that
\* Quit closes every one of them and none twice; a handle whose entry was
\* overwritten, and no other, is open for ever.
HandlesBalanced ==
  \A i \in Instances :
    opens[i] = (IF polling
                THEN Cardinality(Holders(i)) + (IF i \in retired THEN 1 ELSE 0)
                ELSE 0)
               + (IF i \in lost THEN 1 ELSE 0)

\* A handle that was handed out stays open until Quit, though its gamepad is
\* unplugged and another takes its id or its entry.
ReadersSafe ==
  polling => \A r \in Readers : reading[r] # None => opens[reading[r]] > 0

\* Once the poll loop has caught up, the registry holds the attached gamepads,
\* each under one id: none is missing but those overwritten, and none that left
\* still resolves.
RegistryCurrent ==
  polling /\ queue = <<>> =>
    \A i \in DOMAIN pads :
      Cardinality(Holders(i)) = IF i \in Attached \ lost THEN 1 ELSE 0

\* The gamepads, attached or still registered, that derive what this id is of.
Alike(id) ==
  {p \in {pads[i] : i \in Attached \cup Range(Gamepads)} : Derived[p] = id[1]}

\* An id keeps its gamepad for as long as the gamepad is registered, unless three
\* that derive one id are about: two identical gamepads never take each other's
\* entry, however often they are plugged in and out.
FirstHolderKeeps ==
  [][\A id \in DOMAIN Gamepads \cap DOMAIN Gamepads' :
       Gamepads'[id] = Gamepads[id] \/ Cardinality(Alike(id)) > 2]_vars
=============================================================================
