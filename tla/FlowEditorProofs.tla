-------------------------- MODULE FlowEditorProofs --------------------------
(***************************************************************************)
(* Proofs about FlowEditor, for any files, values, ids and bounds of the   *)
(* flow: types, fresh ids, and that what is on screen is what is kept.     *)
(***************************************************************************)
EXTENDS FlowEditor, WellFoundedInduction, FiniteSetTheorems, TLAPS

\* A form is on screen only with its page, and what it shows is written back or about to
\* be, before the form goes.
FormOnPage == form # None => page = "open"
FormTimed  == form # None =>
                form.data = form.shown \/ form.due \in {"write", "both"}

\* What is stored has no orphans.
StoredSound == stored # None => Kept(stored.nodes, stored.edges) = stored.edges

\* What a config must be to be mounted.
Whole(c) == c.nodes \subseteq Ids /\ c.edges \subseteq Ids \X Ids /\ c.data \in [c.nodes -> Values]

LEMMA ConfigWhole ==
  ASSUME NEW c \in Configs, DOMAIN c.data = c.nodes PROVE Whole(c)
BY DEF Configs, Whole

LEMMA FilesWhole == \A f \in Files : Whole(f)
BY FlowAssumption, ConfigWhole DEF FlowAssumption

LEMMA NextIdRange == 0 \in 0 .. MaxId
BY FlowAssumption

LEMMA NoConfigType == NoConfig \in Configs /\ NoConfig.nodes = {} /\ NoConfig.edges = {}
                      /\ NoConfig.data \in [{} -> Values] /\ DOMAIN NoConfig.data = {}
<1>1. NoConfig.data \in [{} -> Values]
  BY DEF NoConfig
<1>2. NoConfig.data \in UNION {[i -> Values] : i \in SUBSET Ids}
  BY <1>1
<1> QED
  BY <1>1, <1>2 DEF NoConfig, Configs

LEMMA StoredWhole == FlowTypeOK => Whole(Stored)
BY NoConfigType, ConfigWhole DEF FlowTypeOK, Stored

LEMMA LiveConfigType ==
  FlowTypeOK => LiveConfig \in Configs /\ DOMAIN LiveConfig.data = LiveConfig.nodes
<1> SUFFICES ASSUME FlowTypeOK
             PROVE  LiveConfig \in Configs /\ DOMAIN LiveConfig.data = LiveConfig.nodes
  OBVIOUS
<1>1. live \in [nodes -> Values] /\ nodes \in SUBSET Ids
  BY DEF FlowTypeOK
<1>2. live \in UNION {[i -> Values] : i \in SUBSET Ids}
  BY <1>1
<1>3. Kept(nodes, edges) \in SUBSET (Ids \X Ids)
  BY DEF Kept, FlowTypeOK
<1> QED
  BY <1>1, <1>2, <1>3 DEF LiveConfig, Configs

LEMMA SavedType ==
  FlowTypeOK /\ StoredSound /\ Saved # None
    => /\ Saved \in Configs /\ DOMAIN Saved.data = Saved.nodes
       /\ Kept(Saved.nodes, Saved.edges) = Saved.edges
<1> SUFFICES ASSUME FlowTypeOK, StoredSound, Saved # None
             PROVE  /\ Saved \in Configs /\ DOMAIN Saved.data = Saved.nodes
                    /\ Kept(Saved.nodes, Saved.edges) = Saved.edges
  OBVIOUS
<1>1. CASE flow = "live"
  <2>1. Kept(nodes, Kept(nodes, edges)) = Kept(nodes, edges)
    BY DEF Kept
  <2>2. Saved = LiveConfig /\ LiveConfig.nodes = nodes /\ LiveConfig.edges = Kept(nodes, edges)
    BY <1>1 DEF Saved, LiveConfig
  <2> QED
    BY <2>1, <2>2, LiveConfigType
<1>2. CASE flow = "stale"
  BY <1>2, NoConfigType DEF Saved, Kept
<1>3. CASE flow = "none"
  BY <1>3 DEF Saved, FlowTypeOK, StoredSound
<1> QED
  BY <1>1, <1>2, <1>3 DEF FlowTypeOK

\* What an unmounted flow leaves.
UnmountedSound ==
  /\ nodes = {} /\ edges = {} /\ form = None
  /\ base \in [nodes -> Values] /\ live \in [nodes -> Values]

LEMMA UnmountedType == Unmounted => UnmountedSound'
BY NoConfigType DEF Unmounted, UnmountedSound

FlowInv == FlowTypeOK /\ FormOnPage /\ FormTimed /\ StoredSound

LEMMA FlowStep == FlowInv /\ [Next]_vars => FlowInv'
<1> SUFFICES ASSUME FlowInv, [Next]_vars PROVE FlowInv'
  OBVIOUS
<1> USE FlowAssumption DEF FlowInv, FlowTypeOK, FormOnPage, FormTimed, StoredSound, canvas, ids
<1>1. CASE OtherFlowAdds \/ OtherFlowLoads
  BY <1>1, FilesWhole DEF OtherFlowAdds, OtherFlowLoads, IsNextNodeId, Ids, Whole
<1>2. CASE Mount
  BY <1>2, StoredWhole DEF Mount, Mounted, Whole, Kept
<1>3. CASE FlowInit
  BY <1>3 DEF FlowInit
<1>4. CASE Leave
  <2>1. UnmountedSound'
    BY <1>4, UnmountedType DEF Leave
  <2>2. /\ stored' # None => stored' \in Configs /\ DOMAIN stored'.data = stored'.nodes
        /\ StoredSound'
    BY <1>4, SavedType DEF Leave
  <2> QED
    BY <1>4, <2>1, <2>2 DEF Leave, UnmountedSound
<1>5. CASE CloseTab
  <2>1. UnmountedSound'
    BY <1>5, UnmountedType DEF CloseTab, Restarted
  <2>2. /\ stored' # None => stored' \in Configs /\ DOMAIN stored'.data = stored'.nodes
        /\ StoredSound'
    BY <1>5, SavedType DEF CloseTab, Restarted
  <2> QED
    BY <1>5, <2>1, <2>2, NextIdRange DEF CloseTab, Restarted, UnmountedSound
<1>6. CASE KillTab
  <2>1. UnmountedSound'
    BY <1>6, UnmountedType DEF KillTab, Restarted
  <2> QED
    BY <1>6, <2>1, NextIdRange DEF KillTab, Restarted, UnmountedSound
<1>7. ASSUME NEW id \in Ids, NEW v \in Values, IsNextNodeId(id), Placed(id, v), page = "open",
             form = None
      PROVE  FlowInv'
  <2>1. nextId' \in 0 .. MaxId
    BY <1>7 DEF Placed, Ids
  <2>2. nodes' \subseteq Ids /\ base' \in [nodes' -> Values] /\ live' \in [nodes' -> Values]
    <3>1. CASE inert
      BY <1>7, <3>1 DEF Placed
    <3>2. CASE ~inert
      <4>1. /\ nodes' = nodes \cup {id}
            /\ base' = [n \in nodes \cup {id} |-> IF n = id THEN v ELSE base[n]]
            /\ live' = [n \in nodes \cup {id} |-> IF n = id THEN v ELSE live[n]]
        BY <1>7, <3>2 DEF Placed
      <4> QED
        BY <4>1
    <3> QED
      BY <3>1, <3>2
  <2> QED
    BY <1>7, <2>1, <2>2 DEF Placed
<1>8. CASE CreateNewNode
  BY <1>7, <1>8 DEF CreateNewNode
<1>9. ASSUME NEW n \in nodes, OnCopy(n) PROVE FlowInv'
  BY <1>7, <1>9 DEF OnCopy
<1>10. ASSUME NEW n \in nodes, DeleteNode(n) \/ DeleteSelected(n) PROVE FlowInv'
  BY <1>10 DEF DeleteNode, DeleteSelected, Removed, Kept
<1>11. ASSUME NEW es \in SUBSET (Ids \X Ids), EdgesBecome(es) PROVE FlowInv'
  BY <1>11 DEF EdgesBecome
<1>12. ASSUME NEW a \in nodes, NEW b \in nodes, Connect(a, b) PROVE FlowInv'
  BY <1>11, <1>12 DEF Connect
<1>13. ASSUME NEW e \in edges, DeleteEdge(e) PROVE FlowInv'
  BY <1>11, <1>13 DEF DeleteEdge
<1>14. ASSUME NEW n \in nodes, OnNodeSettings(n) PROVE FlowInv'
  BY <1>14 DEF OnNodeSettings, FormBecomes, Due
<1>15. CASE OnAutoChange \/ HandleClose \/ WriteBack
  <2> DEFINE F == [node : nodes, shown : Values, data : Values, due : Due]
             timed(f) == f.data = f.shown \/ f.due \in {"write", "both"}
  <2>1. ASSUME NEW f \in F, timed(f), FormBecomes(f) PROVE FlowInv'
    BY <2>1 DEF FormBecomes
  <2>2. page = "open" /\ form # None /\ form \in F /\ timed(form)
    BY <1>15 DEF OnAutoChange, HandleClose, WriteBack, Editable, FormBecomes
  <2>3. CASE OnAutoChange
    <3>1. PICK v \in Values : FormBecomes([form EXCEPT !.shown = v, !.due = "write"])
      BY <2>3 DEF OnAutoChange
    <3>2. [form EXCEPT !.shown = v, !.due = "write"] \in F
          /\ timed([form EXCEPT !.shown = v, !.due = "write"])
      BY <2>2 DEF Due
    <3> QED
      BY <2>1, <3>1, <3>2
  <2>4. CASE HandleClose
    <3> DEFINE f == [form EXCEPT !.due = IF form.due = "write" THEN "both" ELSE "close"]
    <3>1. f \in F /\ timed(f)
      BY <2>2, <2>4 DEF HandleClose, Editable, Due
    <3> QED
      BY <2>1, <2>4, <3>1 DEF HandleClose
  <2>5. CASE WriteBack
    <3> DEFINE f == [form EXCEPT !.data = form.shown,
                                 !.due  = IF form.due = "write" THEN "nothing" ELSE "close"]
    <3>1. f \in F /\ timed(f)
      BY <2>2 DEF Due
    <3> QED
      BY <2>1, <2>5, <3>1 DEF WriteBack
  <2> QED
    BY <1>15, <2>3, <2>4, <2>5
<1>16. CASE OnDismount
  BY <1>16 DEF OnDismount
<1>17. CASE SaveConfigToFile
  BY <1>17 DEF SaveConfigToFile
<1>18. ASSUME NEW f \in Files, ReadFile(f) PROVE FlowInv'
  BY <1>18 DEF ReadFile
<1>19. ASSUME NEW f \in Files, FileRead(f) PROVE FlowInv'
  BY <1>19, FilesWhole DEF FileRead, Mounted, Whole, Kept
<1>20. CASE UNCHANGED vars
  BY <1>20 DEF vars
<1> QED
  BY <1>1, <1>2, <1>3, <1>4, <1>5, <1>6, <1>8, <1>9, <1>10, <1>12, <1>13, <1>14, <1>15,
     <1>16, <1>17, <1>18, <1>19, <1>20 DEF Next

\* The type invariant, with the two facts it needs.
LEMMA FlowInvariant == FlowSpec => []FlowInv
<1>1. Init => FlowInv
  <2> SUFFICES ASSUME Init PROVE FlowInv
    OBVIOUS
  <2>1. base \in [nodes -> Values] /\ live \in [nodes -> Values]
    BY NoConfigType DEF Init
  <2> QED
    BY <2>1, NextIdRange DEF Init, FlowInv, FlowTypeOK, FormOnPage, FormTimed, StoredSound
<1> QED
  BY <1>1, FlowStep, PTL DEF FlowSpec
-----------------------------------------------------------------------------
(* Ids.  Whatever a node or an edge names was known, or given, before.       *)

Accounted(id) == id \in known \/ id <= nextId

IdsAccounted ==
  /\ \A n \in nodes : Accounted(n)
  /\ \A e \in edges : Accounted(e[1]) /\ Accounted(e[2])

\* A step that names no new id and forgets none keeps the account.
LEMMA NothingNew ==
  ASSUME FlowInv, FlowInv', IdsAccounted, nodes' \subseteq nodes, edges' \subseteq edges,
         known \subseteq known', nextId <= nextId'
  PROVE  IdsAccounted'
<1>1. \A id \in Ids : Accounted(id) => Accounted(id)'
  BY DEF Accounted, FlowInv, FlowTypeOK, Ids
<1>2. nodes \subseteq Ids /\ \A e \in edges : e[1] \in Ids /\ e[2] \in Ids
  BY DEF FlowInv, FlowTypeOK
<1> QED
  BY <1>1, <1>2 DEF IdsAccounted

\* A flow that is mounted has all its ids known.
LEMMA MountedAccounted ==
  ASSUME NEW c, Whole(c), Mounted(c, Kept(c.nodes, c.edges)) PROVE IdsAccounted'
BY DEF Mounted, Kept, IdsAccounted, Accounted

LEMMA AccountStep ==
  ASSUME FlowInv, FlowInv', IdsAccounted, [Next]_vars PROVE IdsAccounted'
<1> USE DEF canvas, ids
<1>0. nextId \in Nat /\ nextId' \in Nat
  BY FlowAssumption DEF FlowInv, FlowTypeOK
<1>1. CASE OtherFlowAdds
  BY <1>0, <1>1, NothingNew DEF OtherFlowAdds, IsNextNodeId, Ids
<1>2. CASE OtherFlowLoads
  BY <1>0, <1>2, NothingNew DEF OtherFlowLoads
<1>3. CASE Mount
  BY <1>3, StoredWhole, MountedAccounted DEF Mount, FlowInv
<1>4. CASE Leave \/ CloseTab \/ KillTab
  BY <1>4 DEF Leave, CloseTab, KillTab, Restarted, Unmounted, IdsAccounted
<1>5. ASSUME NEW id \in Ids, NEW v \in Values, IsNextNodeId(id), Placed(id, v)
      PROVE  IdsAccounted'
  <2>1. /\ nextId' = id /\ nextId <= id /\ UNCHANGED <<known, edges>>
        /\ nodes' \subseteq nodes \cup {id}
    BY <1>0, <1>5 DEF Placed, IsNextNodeId, Ids
  <2>2. \A i \in Ids : Accounted(i) => Accounted(i)'
    BY <1>0, <2>1 DEF Accounted, Ids
  <2>3. Accounted(id)'
    BY <1>0, <2>1 DEF Accounted
  <2>4. nodes \subseteq Ids /\ \A e \in edges : e[1] \in Ids /\ e[2] \in Ids
    BY DEF FlowInv, FlowTypeOK
  <2> QED
    BY <2>1, <2>2, <2>3, <2>4 DEF IdsAccounted
<1>6. CASE CreateNewNode
  BY <1>5, <1>6, FlowAssumption DEF CreateNewNode
<1>7. ASSUME NEW n \in nodes, OnCopy(n) PROVE IdsAccounted'
  BY <1>5, <1>7 DEF OnCopy, FlowInv, FlowTypeOK
<1>8. ASSUME NEW a \in nodes, NEW b \in nodes, Connect(a, b) PROVE IdsAccounted'
  BY <1>8 DEF Connect, EdgesBecome, IdsAccounted, Accounted
<1>9. ASSUME NEW f \in Files, FileRead(f) PROVE IdsAccounted'
  <2>1. CASE page = "open"
    BY <1>9, <2>1, FilesWhole, MountedAccounted DEF FileRead
  <2>2. CASE page # "open"
    BY <1>0, <1>9, <2>2, NothingNew DEF FileRead
  <2> QED
    BY <2>1, <2>2
<1>10. ASSUME NEW n \in nodes, DeleteNode(n) \/ DeleteSelected(n) PROVE IdsAccounted'
  BY <1>0, <1>10, NothingNew DEF DeleteNode, DeleteSelected, Removed, Kept
<1>11. CASE FlowInit \/ OnAutoChange \/ HandleClose \/ WriteBack \/ OnDismount \/ SaveConfigToFile
            \/ UNCHANGED vars
  <2>1. UNCHANGED <<nodes, edges, known, nextId>>
    <3>1. CASE OnAutoChange
      BY <3>1 DEF OnAutoChange, FormBecomes
    <3>2. CASE HandleClose
      BY <3>2 DEF HandleClose, FormBecomes
    <3>3. CASE WriteBack
      BY <3>3 DEF WriteBack, FormBecomes
    <3>4. CASE FlowInit \/ OnDismount \/ SaveConfigToFile \/ UNCHANGED vars
      BY <3>4 DEF FlowInit, OnDismount, SaveConfigToFile, vars
    <3> QED
      BY <1>11, <3>1, <3>2, <3>3, <3>4
  <2> QED
    BY <1>0, <2>1, NothingNew
<1>12. CASE \/ \E e \in edges : DeleteEdge(e)
            \/ \E n \in nodes : OnNodeSettings(n)
            \/ \E f \in Files : ReadFile(f)
  BY <1>0, <1>12, NothingNew DEF DeleteEdge, EdgesBecome, OnNodeSettings, FormBecomes, ReadFile
<1> QED
  BY <1>1, <1>2, <1>3, <1>4, <1>6, <1>7, <1>8, <1>9, <1>10, <1>11, <1>12 DEF Next

\* The flow, its files and its form stay within their types for any files and any bounds.
THEOREM FlowTypeCorrect == FlowSpec => []FlowTypeOK
<1>1. FlowInv => FlowTypeOK
  BY DEF FlowInv
<1> QED
  BY <1>1, FlowInvariant, PTL

\* The next id is not the id of a node, nor one an edge still names.
THEOREM NewNodesAreFresh == FlowSpec => []NextIdFresh
<1>1. Init => IdsAccounted
  BY DEF Init, IdsAccounted
<1>2. FlowInv /\ IdsAccounted => NextIdFresh
  BY FlowAssumption DEF IdsAccounted, Accounted, NextIdFresh, IsNextNodeId, Ids, FlowInv, FlowTypeOK
<1> QED
  BY <1>1, <1>2, AccountStep, FlowInvariant, PTL DEF FlowSpec
-----------------------------------------------------------------------------
(* What is on screen is what is kept.                                      *)

\* What a field of the form showed when it was closed is what its node holds once the form
\* has gone: the write that is due was set before the form was told to go.
THEOREM EditsAreKept == FlowSpec => EditKept
<1>1. ASSUME FlowInv, OnDismount PROVE live'[form.node] = form.shown
  <2>1. form.node \in nodes /\ live \in [nodes -> Values]
    BY <1>1 DEF FlowInv, FlowTypeOK, OnDismount
  <2>2. form.data = form.shown
    BY <1>1 DEF FlowInv, FormTimed, OnDismount
  <2> QED
    BY <1>1, <2>1, <2>2 DEF OnDismount
<1>2. FlowInv => [OnDismount => live'[form.node] = form.shown]_vars
  BY <1>1
<1> QED
  BY <1>2, FlowInvariant, PTL DEF FlowSpec, EditKept

\* Leaving and returning, or closing the tab, keeps the flow once it was handed over.
THEOREM DocumentsAreKept == FlowSpec => DocumentKept
<1>1. ASSUME FlowInv, Mount PROVE Document' = Document
  <2>1. /\ nodes' = Stored.nodes /\ edges' = Kept(Stored.nodes, Stored.edges)
        /\ live' = Stored.data
    BY <1>1 DEF Mount, Mounted
  <2>2. Kept(Stored.nodes, Stored.edges) = Stored.edges
    BY <1>1, NoConfigType DEF FlowInv, StoredSound, Stored, Kept
  <2>3. Kept(nodes', edges') = Stored.edges
    BY <2>1, <2>2
  <2>4. Stored = [nodes |-> Stored.nodes, edges |-> Stored.edges, data |-> Stored.data]
    BY <1>1, NoConfigType DEF FlowInv, FlowTypeOK, Stored, Configs
  <2>5. Document = Stored /\ Document' = LiveConfig'
    BY <1>1 DEF Mount, Document
  <2> QED
    BY <2>1, <2>3, <2>4, <2>5 DEF LiveConfig
<1>2. LiveConfig # None \/ ~FlowInv
  BY LiveConfigType, FlowAssumption DEF FlowInv
<1>3. ASSUME FlowInv, flow = "live", Leave PROVE Document' = Document
  BY <1>2, <1>3 DEF Leave, Saved, Document, Stored
<1>4. ASSUME FlowInv, flow = "live" \/ page # "open", useLocal, CloseTab
      PROVE  Document' = Document
  <2>1. CASE page = "open"
    BY <1>2, <1>4, <2>1 DEF CloseTab, Restarted, Saved, Document, Stored
  <2>2. CASE page # "open"
    BY <1>4, <2>2 DEF CloseTab, Restarted, Document, Stored
  <2> QED
    BY <2>1, <2>2
<1>5. FlowInv =>
        [ (\/ Mount
           \/ flow = "live" /\ Leave
           \/ (flow = "live" \/ page # "open") /\ useLocal /\ CloseTab)
          => Document' = Document ]_vars
  BY <1>1, <1>3, <1>4
<1> QED
  BY <1>5, FlowInvariant, PTL DEF FlowSpec, DocumentKept
-----------------------------------------------------------------------------
(* Apply sends the whole flow: the levels below the roots grow until they    *)
(* are all of the nodes.                                                    *)

\* A set of numbers has a least one, and induction on the members of a set.
LEMMA LeastNumber ==
  ASSUME NEW S \in SUBSET Nat, S # {} PROVE \E n \in S : \A m \in S : ~(m < n)
<1>1. PICK n \in S : \A m \in S : <<m, n>> \notin OpToRel(<, Nat)
  BY NatLessThanWellFounded, WFMin
<1> QED
  BY <1>1 DEF OpToRel

LEMMA Induction ==
  ASSUME NEW S, 0 \in S, \A n \in Nat : n \in S => n + 1 \in S PROVE Nat \subseteq S
<1> SUFFICES ASSUME Nat \ S # {} PROVE FALSE
  OBVIOUS
<1>1. PICK n \in Nat \ S : \A m \in Nat \ S : ~(m < n)
  BY LeastNumber
<1>2. n # 0 /\ n - 1 \in Nat /\ n - 1 \in S
  BY <1>1
<1> QED
  BY <1>1, <1>2

\* The levels of Visited: the roots, and what feeds the level before.
Feeding(ns)   == {n \in nodes : \E m \in ns : <<n, m>> \in edges}
LevelOf(f, i) == IF i = 0 THEN Roots ELSE f[i - 1] \cup Feeding(f[i - 1])
Levels(f, k)  == f = [i \in 0 .. k |-> LevelOf(f, i)]

LEMMA LevelsExist == \A k \in Nat : \E f : Levels(f, k)
<1> DEFINE S == {k \in Nat : \E f : Levels(f, k)}
<1>1. 0 \in S
  <2> DEFINE f == [i \in 0 .. 0 |-> Roots]
  <2>1. Levels(f, 0)
    BY DEF Levels, LevelOf
  <2> QED
    BY <2>1
<1>2. ASSUME NEW k \in Nat, k \in S PROVE k + 1 \in S
  <2>1. PICK f : Levels(f, k)
    BY <1>2
  <2> DEFINE g == [i \in 0 .. k + 1 |-> IF i = k + 1 THEN LevelOf(f, k + 1) ELSE f[i]]
  <2>2. \A i \in 0 .. k : g[i] = f[i] /\ f[i] = LevelOf(f, i)
    BY <2>1 DEF Levels
  <2>3. g[k + 1] = LevelOf(f, k + 1)
    OBVIOUS
  <2> HIDE DEF g
  <2>4. \A i \in 0 .. k + 1 : LevelOf(g, i) = LevelOf(f, i)
    <3>1. ASSUME NEW i \in 0 .. k + 1, i # 0 PROVE g[i - 1] = f[i - 1]
      BY <2>2, <3>1
    <3> QED
      BY <3>1 DEF LevelOf
  <2>5. \A i \in 0 .. k + 1 : g[i] = LevelOf(g, i)
    BY <2>2, <2>3, <2>4
  <2>6. g = [i \in 0 .. k + 1 |-> g[i]]
    BY DEF g
  <2>7. Levels(g, k + 1)
    BY <2>5, <2>6 DEF Levels
  <2> QED
    BY <2>7
<1>3. Nat \subseteq S
  <2> HIDE DEF S
  <2> QED
    BY <1>1, <1>2, Induction
<1> QED
  BY <1>3

\* In an acyclic flow every level that is not all of the nodes adds at least one.
LEMMA AllVisited ==
  ASSUME IsFiniteSet(nodes), Acyclic PROVE Visited = nodes
<1> DEFINE k == Cardinality(nodes)
           f == CHOOSE f : Levels(f, k)
           Good(i) == /\ f[i] \subseteq nodes /\ Roots \subseteq f[i]
                      /\ f[i] = nodes \/ Cardinality(f[i]) >= i
           S == {i \in Nat : i <= k => Good(i)}
<1>0. k \in Nat
  BY FS_CardinalityType
<1>1. Levels(f, k)
  BY <1>0, LevelsExist
<1>2. Visited = f[k]
  BY DEF Visited, Levels, LevelOf, Feeding
<1>3. \A i \in 0 .. k : f[i] = LevelOf(f, i)
  BY <1>1 DEF Levels
<1> HIDE DEF f
<1>4. 0 \in S
  <2>1. f[0] = Roots
    <3>1. 0 \in 0 .. k
      BY <1>0
    <3>2. LevelOf(f, 0) = Roots
      BY DEF LevelOf
    <3> QED
      BY <1>3, <3>1, <3>2
  <2>2. Roots \subseteq nodes
    BY DEF Roots
  <2>3. Cardinality(Roots) \in Nat
    BY <2>2, FS_Subset, FS_CardinalityType
  <2> QED
    BY <2>1, <2>2, <2>3
<1>5. ASSUME NEW i \in Nat, i \in S PROVE i + 1 \in S
  <2> SUFFICES ASSUME i + 1 <= k PROVE Good(i + 1)
    OBVIOUS
  <2>1. Good(i)
    BY <1>0, <1>5
  <2>2. f[i + 1] = f[i] \cup Feeding(f[i])
    <3>1. i + 1 \in 0 .. k /\ i + 1 # 0 /\ (i + 1) - 1 = i
      BY <1>0
    <3> QED
      BY <1>3, <3>1 DEF LevelOf
  <2>3. f[i + 1] \subseteq nodes /\ Roots \subseteq f[i + 1]
    BY <2>1, <2>2 DEF Feeding
  <2>4. CASE f[i] = nodes
    BY <2>2, <2>3, <2>4
  <2>5. CASE f[i] # nodes
    <3> DEFINE left == nodes \ f[i]
    <3>1. left # {} /\ left \in SUBSET nodes
      BY <2>1, <2>5
    <3>2. PICK n \in left : \A m \in left : <<n, m>> \notin edges
      BY <3>1 DEF Acyclic
    <3>3. n \in Feeding(f[i])
      BY <2>1, <3>2 DEF Roots, Feeding
    <3>4. f[i] \cup {n} \subseteq f[i + 1] /\ n \notin f[i]
      BY <2>2, <3>3
    <3>5. IsFiniteSet(f[i]) /\ IsFiniteSet(f[i + 1])
      BY <2>1, <2>3, FS_Subset
    <3>6. Cardinality(f[i] \cup {n}) = Cardinality(f[i]) + 1 /\ IsFiniteSet(f[i] \cup {n})
      BY <3>4, <3>5, FS_AddElement
    <3>7. Cardinality(f[i] \cup {n}) <= Cardinality(f[i + 1])
      BY <3>4, <3>5, FS_Subset
    <3>8. Cardinality(f[i]) \in Nat /\ Cardinality(f[i + 1]) \in Nat
      BY <3>5, FS_CardinalityType
    <3>9. Cardinality(f[i + 1]) >= i + 1
      BY <2>1, <2>5, <3>6, <3>7, <3>8
    <3> QED
      BY <2>3, <3>9
  <2> QED
    BY <2>4, <2>5
<1>6. Good(k)
  <2>1. Nat \subseteq S
    <3> HIDE DEF S
    <3> QED
      BY <1>4, <1>5, Induction
  <2> QED
    BY <1>0, <2>1
<1>7. f[k] = nodes
  <2>1. IsFiniteSet(f[k]) /\ Cardinality(f[k]) <= k
    BY <1>6, FS_Subset
  <2>2. Cardinality(f[k]) \in Nat
    BY <2>1, FS_CardinalityType
  <2>3. CASE Cardinality(f[k]) = k
    BY <1>6, <2>3, FS_Subset
  <2> QED
    BY <1>0, <1>6, <2>1, <2>2, <2>3
<1> QED
  BY <1>2, <1>7

\* Apply sends every node of an acyclic flow, with its live data and its edges.
THEOREM AllIsApplied == FlowSpec => []ApplyComplete
<1>1. FlowInv => ApplyComplete
  <2> SUFFICES ASSUME FlowInv, Acyclic PROVE CreatedConfig = LiveConfig
    BY DEF ApplyComplete
  <2>1. nodes \subseteq Ids /\ live \in [nodes -> Values]
    BY DEF FlowInv, FlowTypeOK
  <2>2. IsFiniteSet(nodes)
    <3>1. IsFiniteSet(1 .. MaxId)
      BY FlowAssumption, FS_Interval
    <3> QED
      BY <2>1, <3>1, FS_Subset DEF Ids
  <2>3. Visited = nodes
    BY <2>2, AllVisited
  <2>4. {e \in Kept(nodes, edges) : e[2] \in nodes} = Kept(nodes, edges)
    BY DEF Kept
  <2>5. [n \in nodes |-> live[n]] = live
    BY <2>1
  <2> QED
    BY <2>3, <2>4, <2>5 DEF CreatedConfig, LiveConfig
<1> QED
  BY <1>1, FlowInvariant, PTL
=============================================================================
