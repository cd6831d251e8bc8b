----------------------------- MODULE FlowEditor -----------------------------
(* The inputs page of the web editor (webapp/src/components): a flow of nodes *)
(* and edges, the settings form of a node, files, the browser's storage, and   *)
(* the config that Apply builds.                                           *)
(*                                                                         *)
(* React and React Flow are external.  A mounted flow keeps the nodes with    *)
(* the data they were loaded or created with (base); each node component      *)
(* keeps its live data and publishes it by id.  The page reaches its flow      *)
(* through a reference that React Flow hands over some time after mounting     *)
(* (onInit); until then the reference names the flow before, which is empty    *)
(* since it was unmounted, or nothing.  A node's data is one value; edges are  *)
(* told apart by their two ends.  A form is one field: the timer its fields     *)
(* share, with which a second field's edit drops the first's, is left out.     *)
EXTENDS Naturals, FiniteSets

CONSTANTS Files,       \* the configs on disk; hand-edited ones may have orphan edges
          Values,      \* what a node's data can be
          Default,     \* the data of a node just added
          MaxId,       \* bound on the ids of a behaviour
          MaxNodes, MaxEdges,   \* bounds on a flow
          None

Ids == 1 .. MaxId

Configs == [nodes : SUBSET Ids, edges : SUBSET (Ids \X Ids),
            data : UNION {[ids -> Values] : ids \in SUBSET Ids}]

ASSUME FlowAssumption ==
  /\ MaxId \in Nat /\ MaxNodes \in Nat /\ MaxEdges \in Nat /\ Default \in Values
  /\ None \notin Configs
  /\ \A f \in Files : f \in Configs /\ DOMAIN f.data = f.nodes

VARIABLES
  page,      \* "away", "open", or "dead" after an uncaught error
  flow,      \* what the page's reference names: "none", "stale" or "live"
  inert,     \* the flow was mounted without nodes to own, and adds none
  nodes, edges, base,
  live,      \* the live data, by node
  form,      \* the settings form, or None
  reading,   \* the files being read
  known,     \* knownIds
  nextId,    \* nextNodeId
  useLocal,  \* the "use local storage" setting; a behaviour keeps to one
  stored     \* the config in the storage in use, or None

canvas == <<nodes, edges, base, live>>
ids    == <<known, nextId>>
vars   == <<page, flow, inert, canvas, form, reading, ids, useLocal, stored>>

NoConfig == [nodes |-> {}, edges |-> {}, data |-> [n \in {} |-> Default]]

Stored == IF stored = None THEN NoConfig ELSE stored

\* removeOrphanEdges
Kept(ns, es) == {e \in es : e[1] \in ns /\ e[2] \in ns}

\* getLiveConfig.
LiveConfig == [nodes |-> nodes, edges |-> Kept(nodes, edges), data |-> live]

\* The nodes are saved as React Flow has them.
SavedBase ==
  CASE flow = "live"  -> [LiveConfig EXCEPT !.data = base]
    [] flow = "stale" -> NoConfig
    [] flow = "none"  -> stored

\* saveConfigToStorage, through the page's reference: without one it throws.
Saved ==
  CASE flow = "live"  -> LiveConfig
    [] flow = "stale" -> NoConfig
    [] flow = "none"  -> stored

-----------------------------------------------------------------------------
(* Ids.                                                                    *)

\* The count is taken for the next id, whoever has it.
IsNextNodeIdBlind(id) == id = nextId + 1

\* getNextNodeId: the first id above the last one given that is not known.
IsNextNodeId(id) ==
  /\ id \in Ids /\ id > nextId /\ id \notin known
  /\ \A j \in nextId + 1 .. id - 1 : j \in known

\* The telemetry flow of the home page takes ids and loads nodes as well.
OtherFlowAdds ==
  /\ page = "away"
  /\ \E id \in Ids : IsNextNodeId(id) /\ nextId' = id
  /\ UNCHANGED <<page, flow, inert, canvas, form, reading, known, useLocal, stored>>

OtherFlowLoads ==
  /\ page = "away"
  /\ \E f \in Files : known' = known \cup f.nodes
  /\ UNCHANGED <<page, flow, inert, canvas, form, reading, nextId, useLocal, stored>>

-----------------------------------------------------------------------------
(* The page.                                                               *)

Init ==
  /\ page = "away" /\ flow = "none" /\ inert = FALSE
  /\ nodes = {} /\ edges = {}
  /\ base = NoConfig.data /\ live = NoConfig.data
  /\ form = None /\ reading = {}
  /\ known = {} /\ nextId = 0
  /\ useLocal \in BOOLEAN /\ stored = None

Unmounted ==
  /\ nodes' = {} /\ edges' = {}
  /\ base' = NoConfig.data /\ live' = NoConfig.data /\ form' = None

Mounted(c, es) ==
  /\ nodes' = c.nodes /\ edges' = es
  /\ base' = c.data /\ live' = c.data
  /\ known' = known \cup c.nodes

\* loadConfigFromStorage.  An empty memoryStorage answers undefined, not null:
\* the parse fails, and the flow is mounted without default nodes.
Mount ==
  /\ page = "away" /\ page' = "open"
  /\ Mounted(Stored, Kept(Stored.nodes, Stored.edges))
  /\ inert' = (stored = None /\ ~useLocal)
  /\ UNCHANGED <<flow, form, reading, nextId, useLocal, stored>>

\* onInit, and a React Flow that hands over nothing new.
FlowInit ==
  /\ page = "open" /\ flow # "live" /\ flow' = "live"
  /\ UNCHANGED <<page, inert, canvas, form, reading, ids, useLocal, stored>>

\* The clean-up of the page saves; an error in it takes the whole page down.
Leave ==
  /\ page = "open" /\ form = None
  /\ page' = IF flow = "none" THEN "dead" ELSE "away"
  /\ flow' = IF flow = "none" THEN "none" ELSE "stale"
  /\ stored' = Saved
  /\ Unmounted
  /\ UNCHANGED <<inert, reading, ids, useLocal>>

\* A new tab: the modules start afresh, and memoryStorage with them.
Restarted(saved) ==
  /\ page' = "away" /\ flow' = "none" /\ inert' = FALSE
  /\ Unmounted
  /\ reading' = {} /\ known' = {} /\ nextId' = 0
  /\ stored' = IF useLocal THEN saved ELSE None
  /\ UNCHANGED useLocal

\* Closed, with beforeunload heard while the page is open; or killed.
CloseTab == Restarted(IF page = "open" THEN Saved ELSE stored)
KillTab  == Restarted(stored)

-----------------------------------------------------------------------------
(* Editing.                                                                *)

Placed(id, value) ==
  /\ Cardinality(nodes) < MaxNodes
  /\ nextId' = id
  /\ IF inert THEN UNCHANGED <<nodes, base, live>>
     ELSE /\ nodes' = nodes \cup {id}
          /\ base' = [n \in nodes \cup {id} |-> IF n = id THEN value ELSE base[n]]
          /\ live' = [n \in nodes \cup {id} |-> IF n = id THEN value ELSE live[n]]
  /\ UNCHANGED <<page, flow, inert, edges, form, reading, known, useLocal, stored>>

\* createNewNode from the menu, and for the copy of a node: base comes last,
\* over the live data.
CreateNewNode ==
  /\ page = "open" /\ flow = "live" /\ form = None
  /\ \E id \in Ids : IsNextNodeId(id) /\ Placed(id, Default)

OnCopy(n) ==
  /\ page = "open" /\ flow = "live" /\ form = None
  /\ \E id \in Ids : IsNextNodeId(id) /\ Placed(id, base[n])

\* The data of a removed node is kept.
RemovedKeepsData(n, es) ==
  /\ page = "open" /\ flow = "live" /\ form = None
  /\ nodes' = nodes \ {n} /\ edges' = es
  /\ UNCHANGED <<page, flow, inert, base, live, form, reading, ids, useLocal, stored>>

Removed(n, es) ==
  /\ page = "open" /\ flow = "live" /\ form = None
  /\ nodes' = nodes \ {n} /\ edges' = es
  /\ base' = [m \in nodes \ {n} |-> base[m]]
  /\ live' = [m \in nodes \ {n} |-> live[m]]
  /\ UNCHANGED <<page, flow, inert, form, reading, ids, useLocal, stored>>

\* The icon filters the nodes only; the delete key is React Flow's.
DeleteNode(n)     == Removed(n, edges)
DeleteSelected(n) == Removed(n, Kept(nodes \ {n}, edges))

EdgesBecome(es) ==
  /\ page = "open" /\ flow = "live" /\ form = None
  /\ edges' = es
  /\ UNCHANGED <<page, flow, inert, nodes, base, live, form, reading, ids,
                 useLocal, stored>>

\* isConnectionValid refuses only a node with itself.
Connect(a, b) ==
  /\ a # b /\ Cardinality(edges) < MaxEdges
  /\ EdgesBecome(edges \cup {<<a, b>>})

DeleteEdge(e) == EdgesBecome(edges \ {e})

-----------------------------------------------------------------------------
(* The settings form.  Its timers all take 250 ms, so that they fire in the      *)
(* order in which they were set: one to write back what the field shows, set     *)
(* anew by every key, and one to take the form away, set when it was closed and  *)
(* the keyboard has left it.  What is due is nothing, one of them, or both, the  *)
(* write first.                                                            *)

Due == {"nothing", "write", "close", "both"}

FormBecomes(f) ==
  /\ page = "open" /\ form' = f
  /\ UNCHANGED <<page, flow, inert, canvas, reading, ids, useLocal, stored>>

OnNodeSettings(n) ==
  /\ form = None
  /\ FormBecomes([node |-> n, shown |-> live[n], data |-> live[n], due |-> "nothing"])

Editable == form # None /\ form.due \in {"nothing", "write"}

OnAutoChange ==
  /\ Editable
  /\ \E v \in Values \ {form.shown} : FormBecomes([form EXCEPT !.shown = v, !.due = "write"])

\* The form goes before what is due.
HandleCloseAtOnce == Editable /\ FormBecomes([form EXCEPT !.due = "close"])

HandleClose ==
  /\ Editable
  /\ FormBecomes([form EXCEPT !.due = IF form.due = "write" THEN "both" ELSE "close"])

WriteBack ==
  /\ form # None /\ form.due \in {"write", "both"}
  /\ FormBecomes([form EXCEPT !.data = form.shown,
                              !.due  = IF form.due = "write" THEN "nothing" ELSE "close"])

\* The form goes, and hands its data to the node.
OnDismount ==
  /\ page = "open" /\ form # None /\ form.due = "close"
  /\ form' = None /\ live' = [live EXCEPT ![form.node] = form.data]
  /\ UNCHANGED <<page, flow, inert, nodes, edges, base, reading, ids, useLocal,
                 stored>>

-----------------------------------------------------------------------------
(* Files.                                                                  *)

\* saveConfigToFile: getLiveConfig leaves the live data in the nodes.
SaveConfigToFile ==
  /\ page = "open" /\ flow = "live" /\ form = None
  /\ base' = live
  /\ UNCHANGED <<page, flow, inert, nodes, edges, live, form, reading, ids,
                 useLocal, stored>>

\* loadConfigFromFile: the read is awaited, and the page may change meanwhile.
ReadFile(f) ==
  /\ page = "open" /\ form = None /\ reading' = reading \cup {f}
  /\ UNCHANGED <<page, flow, inert, canvas, form, ids, useLocal, stored>>

FileReadKeepsOrphans(f) ==
  /\ f \in reading /\ reading' = reading \ {f}
  /\ IF page = "open"
     THEN /\ Mounted(f, f.edges)
          /\ flow' = IF flow = "none" THEN "none" ELSE "stale"
          /\ inert' = FALSE /\ form' = None
     ELSE known' = known \cup f.nodes /\ UNCHANGED <<flow, inert, canvas, form>>
  /\ UNCHANGED <<page, nextId, useLocal, stored>>

FileRead(f) ==
  /\ f \in reading /\ reading' = reading \ {f}
  /\ IF page = "open"
     THEN /\ Mounted(f, Kept(f.nodes, f.edges))
          /\ flow' = IF flow = "none" THEN "none" ELSE "stale"
          /\ inert' = FALSE /\ form' = None
     ELSE known' = known \cup f.nodes /\ UNCHANGED <<flow, inert, canvas, form>>
  /\ UNCHANGED <<page, nextId, useLocal, stored>>

Next ==
  \/ OtherFlowAdds \/ OtherFlowLoads
  \/ Mount \/ FlowInit \/ Leave \/ CloseTab \/ KillTab
  \/ CreateNewNode
  \/ \E n \in nodes : OnCopy(n) \/ DeleteNode(n) \/ DeleteSelected(n)
  \/ \E a, b \in nodes : Connect(a, b)
  \/ \E e \in edges : DeleteEdge(e)
  \/ \E n \in nodes : OnNodeSettings(n)
  \/ OnAutoChange \/ HandleClose \/ WriteBack \/ OnDismount
  \/ SaveConfigToFile
  \/ \E f \in Files : ReadFile(f) \/ FileRead(f)

FlowSpec == Init /\ [][Next]_vars

-----------------------------------------------------------------------------
(* The config that Apply sends (createConfig): a tree below every node that    *)
(* feeds no other, each node with its live data.                            *)

\* The nodes that feed on none.
RootsLeafs == {n \in nodes : \A m \in nodes : <<m, n>> \notin edges}

\* The nodes below which trees are built.
Roots == {n \in nodes : \A m \in nodes : <<n, m>> \notin edges}

\* The nodes of the trees, level by level, from the roots to their inputs.
Visited ==
  LET level[i \in 0 .. Cardinality(nodes)] ==
        IF i = 0 THEN Roots
        ELSE level[i - 1] \cup {n \in nodes : \E m \in level[i - 1] : <<n, m>> \in edges}
  IN level[Cardinality(nodes)]

CreatedConfig ==
  LET ns == Visited
  IN [nodes |-> ns, edges |-> {e \in Kept(nodes, edges) : e[2] \in ns},
      data |-> [n \in ns |-> live[n]]]

Acyclic ==
  \A ns \in SUBSET nodes : ns # {} =>
    \E n \in ns : \A m \in ns : <<n, m>> \notin edges

-----------------------------------------------------------------------------
(* Properties.                                                             *)

FlowTypeOK ==
  /\ page \in {"away", "open", "dead"} /\ flow \in {"none", "stale", "live"}
  /\ inert \in BOOLEAN /\ useLocal \in BOOLEAN
  /\ nodes \subseteq Ids /\ edges \subseteq Ids \X Ids
  /\ base \in [nodes -> Values] /\ live \in [nodes -> Values]
  /\ form = None \/ form \in [node : nodes, shown : Values, data : Values, due : Due]
  /\ reading \subseteq Files
  /\ known \subseteq Ids /\ nextId \in 0 .. MaxId
  /\ stored # None => stored \in Configs /\ DOMAIN stored.data = stored.nodes

\* The id the next node gets names no node of the flow and no end of an edge,
\* dangling edges included: a new node never takes over another's connections,
\* whatever was loaded, deleted, left or restarted before.
NextIdFresh ==
  \A id \in Ids : IsNextNodeId(id) =>
    /\ id \notin nodes
    /\ \A e \in edges : id # e[1] /\ id # e[2]

\* What the page shows, or will show.
Document == IF page = "open" THEN LiveConfig ELSE Stored

\* Leaving the page and returning, or closing the tab when the browser's storage
\* is used, keeps the flow as it was on screen, live data included, once React
\* Flow has handed over the flow.
DocumentKept ==
  [][ (\/ Mount
       \/ flow = "live" /\ Leave
       \/ (flow = "live" \/ page # "open") /\ useLocal /\ CloseTab)
      => Document' = Document ]_vars

\* What a field of the form showed when it was closed is what its node holds once
\* the form has gone, however soon after the last key it was closed.
EditKept == [][OnDismount => live'[form.node] = form.shown]_vars

\* Apply sends the whole flow on screen, provided it has no cycle.
ApplyComplete ==
  page = "open" /\ Acyclic => CreatedConfig = LiveConfig
=============================================================================
