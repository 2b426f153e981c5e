------------------------------- MODULE Canvas -------------------------------
(***************************************************************************)
(* The graph editor behind the Blueprint canvas (logic/graph): its         *)
(* commands, transactions, undo history and layout gestures, and the       *)
(* interactions that reach it late: the asynchronous system clipboard and  *)
(* pointer gestures, each bound to the document it started from.           *)
(*                                                                         *)
(* A node is its identity (a sequence: the k-th copy of node i is i \o     *)
(* <<k>>), a position, whether it is pinned, whether it declares data      *)
(* ports, and which port sides its presentation hides or shows.  Edges are *)
(* logical triples and an optional route.  The documents that are opened   *)
(* are a parameter: what the host and the codec accept, which includes a   *)
(* port side that is hidden and has edges, and a group without nodes.      *)
(***************************************************************************)
EXTENDS Naturals, FiniteSets, Sequences, SequencesExt

CONSTANTS
  Documents,     \* the documents that are opened
  HistoryCap,    \* HISTORY_CAP
  Sides,         \* the port sides that are patched: of control, inputs, outputs
  Slots,         \* bound: clipboard requests in flight
  Nil,
  MaxCommands,   \* bound: commands that change, select or start something
  MaxTurns,      \* bound: undos, redos, ended or cancelled layouts and locks
  MaxActs,       \* bound: the two together
  MaxNodes,      \* bound: nodes
  MaxOpened      \* bound: documents opened

ASSUME CanvasConstants == HistoryCap \in Nat \ {0} /\ MaxCommands \in Nat /\ MaxNodes \in Nat

VARIABLES
  graph,    \* nodes, edges, groups
  sel,      \* selection
  undos,    \* undoStack of [graph, sel]
  redos,    \* redoStack
  held,     \* layoutBefore: the entry before a pending pointer layout
  clip,     \* the system clipboard
  jobs,     \* per slot: a clipboard request in flight
  gesture,  \* CanvasInteractions.gesture
  locked,   \* busy, locked or composing: no command is taken
  tally     \* commands and turns made, nodes named, documents opened

canvasVars == <<graph, sel, undos, redos, held, clip, jobs, gesture, locked, tally>>
editVars == <<graph, sel, undos, redos, held>>

AutoShow == [s \in {"control", "inputs", "outputs"} |-> "auto"]
NewNode(x) == [x |-> x, pinned |-> FALSE, ports |-> TRUE, show |-> AutoShow]
NodeIds(g) == DOMAIN g.nodes
Entry == [graph |-> graph, sel |-> sel]

Kinds == {"data", "control"}
Names == Seq(Nat) \ {<<>>}
Root(n) == n[1]   \* of a copy: the node it was first copied from

---------------------------------------------------------------------------
(* What the editor accepts *)

\* connectedPortEdges
Connected(g, n, side) ==
  \E e \in g.edges :
    CASE side = "control" -> e.kind = "control" /\ n \in {e.from, e.to}
      [] side = "inputs" -> e.kind = "data" /\ e.to = n
      [] side = "outputs" -> e.kind = "data" /\ e.from = n

\* effectivePortVisibility: a connected side is always visible.
Visible(g, n, side) ==
  \/ Connected(g, n, side)
  \/ g.nodes[n].show[side] = "show"
  \/ g.nodes[n].show[side] = "auto" /\ side # "control" /\ g.nodes[n].ports

\* The search of checkConnection from the target along data edges.
DataSteps(g) == {<<e.from, e.to>> : e \in {x \in g.edges : x.kind = "data"}}
Further(g, S) == S \cup {p[2] : p \in {q \in DataSteps(g) : q[1] \in S}}
ReachedFrom(g, n) ==
  LET reach[k \in 0 .. Cardinality(NodeIds(g))] == IF k = 0 THEN {n} ELSE Further(g, reach[k - 1])
  IN reach[Cardinality(NodeIds(g))]

SideOut(kind) == IF kind = "control" THEN "control" ELSE "outputs"
SideIn(kind) == IF kind = "control" THEN "control" ELSE "inputs"

\* checkConnection against the graph without the edges in `ignored`; restored
\* edges of a pasted fragment need no visible port.
MayConnect(whole, kind, from, to, ignored, restored) ==
  LET g == [whole EXCEPT !.edges = @ \ ignored] IN
  /\ from \in NodeIds(g) /\ to \in NodeIds(g) /\ from # to
  /\ kind = "data" => /\ g.nodes[from].ports /\ g.nodes[to].ports
                      /\ from \notin ReachedFrom(g, to)
  /\ restored \/ (Visible(whole, from, SideOut(kind)) /\ Visible(whole, to, SideIn(kind)))
  /\ \A e \in g.edges : <<e.kind, e.from, e.to>> # <<kind, from, to>>

Edge(kind, from, to) == [kind |-> kind, from |-> from, to |-> to, routed |-> FALSE]

\* What validateDefinition and the codec make sure of in a document: edges and
\* groups of its own nodes, and no data cycle.
Node == [x : 0..1, pinned : BOOLEAN, ports : BOOLEAN, show : [DOMAIN AutoShow -> {"auto", "show", "hide"}]]
EdgesIn(S) == [kind : Kinds, from : S, to : S, routed : BOOLEAN]
IsGraph(g) ==
  /\ g = [nodes |-> g.nodes, edges |-> g.edges, groups |-> g.groups]
  /\ g.nodes \in [NodeIds(g) -> Node] /\ NodeIds(g) \subseteq Names /\ IsFiniteSet(NodeIds(g))
  /\ g.edges \subseteq EdgesIn(NodeIds(g))
  /\ \A m \in g.groups : m \subseteq NodeIds(g)
Acyclic(g) == \A e \in g.edges : e.kind = "data" => e.from \notin ReachedFrom(g, e.to)

ASSUME DocumentsAreValid == \A g \in Documents : IsGraph(g) /\ Acyclic(g)

\* A document hides the port side of this node, or of the node it is a copy of,
\* although it has edges there.
Brought(n, side) ==
  \E g \in Documents : \E m \in NodeIds(g) :
    Root(m) = Root(n) /\ g.nodes[m].show[side] = "hide" /\ Connected(g, m, side)

---------------------------------------------------------------------------
(* History *)

Capped(s) == IF Len(s) > HistoryCap THEN Tail(s) ELSE s

\* An emit reaches the interactions' subscription: requests that were bound to
\* the selection as it was are out of date.
Touched(js) == [s \in Slots |-> IF js[s] = Nil THEN Nil ELSE [js[s] EXCEPT !.touched = TRUE]]

PushHeldKept(g, s) ==   \* mutant: layoutBefore survives the command
  /\ graph' = g /\ sel' = s
  /\ undos' = Capped(Append(undos, IF held # Nil THEN held ELSE Entry))
  /\ redos' = <<>>
  /\ jobs' = Touched(jobs)
  /\ UNCHANGED held
\* pushHistory and the change after it: a pending layout is absorbed.
Push(g, s) ==
  /\ graph' = g /\ sel' = s
  /\ undos' = Capped(Append(undos, IF held # Nil THEN held ELSE Entry))
  /\ redos' = <<>>
  /\ held' = Nil
  /\ jobs' = Touched(jobs)

\* transaction with result g, s: one entry if the graph differs from what it
\* was before the pending layout, and one emit if anything changed.
Transact(g, s) ==
  LET before == IF held # Nil THEN held ELSE Entry IN
  /\ graph' = g /\ sel' = s
  /\ held' = Nil
  /\ IF before.graph # g
     THEN undos' = Capped(Append(undos, before)) /\ redos' = <<>>
     ELSE UNCHANGED <<undos, redos>>
  /\ jobs' = IF <<g, s>> # <<graph, sel>> THEN Touched(jobs) ELSE jobs

Step == [tally EXCEPT !.commands = @ + 1]
Room == tally.commands < MaxCommands /\ tally.commands + tally.turns < MaxActs
Command == ~locked /\ Room
Turn ==
  /\ tally.turns < MaxTurns /\ tally.commands + tally.turns < MaxActs
  /\ tally' = [tally EXCEPT !.turns = @ + 1]

UndoEdit ==
  /\ ~locked /\ held = Nil /\ undos # <<>> /\ Turn
  /\ undos' = Front(undos) /\ redos' = Append(redos, Entry)
  /\ graph' = Last(undos).graph /\ sel' = {}
  /\ jobs' = Touched(jobs)
  /\ UNCHANGED <<held, clip, gesture, locked>>

RedoEdit ==
  /\ ~locked /\ held = Nil /\ redos # <<>> /\ Turn
  /\ redos' = Front(redos) /\ undos' = Append(undos, Entry)
  /\ graph' = Last(redos).graph /\ sel' = {}
  /\ jobs' = Touched(jobs)
  /\ UNCHANGED <<held, clip, gesture, locked>>

---------------------------------------------------------------------------
(* Commands *)

\* add: a node from the palette, or pulled out of a port of another node.
AddNode(origin, kind, out) ==
  LET n == <<tally.named + 1>>
      fresh == [NewNode(0) EXCEPT !.show["control"] =
                  IF origin # Nil /\ kind = "control" THEN "show" ELSE "auto"]
      grown == [graph EXCEPT !.nodes = [m \in DOMAIN @ \cup {n} |-> IF m = n THEN fresh ELSE @[m]]]
      from == IF out THEN origin ELSE n
      to == IF out THEN n ELSE origin
  IN /\ Command /\ Cardinality(NodeIds(graph)) < MaxNodes
     /\ origin # Nil => Visible(graph, origin, IF out THEN SideOut(kind) ELSE SideIn(kind))
     /\ origin # Nil => MayConnect(grown, kind, from, to, {}, FALSE)
     /\ Transact(IF origin = Nil THEN grown
                 ELSE [grown EXCEPT !.edges = @ \cup {Edge(kind, from, to)}], {n})
     /\ tally' = [Step EXCEPT !.named = @ + 1]
     /\ UNCHANGED <<clip, gesture, locked>>

ConnectAny(kind, from, to) ==   \* mutant: a cycle is not looked for
  /\ Command /\ from # to /\ Visible(graph, from, SideOut(kind)) /\ Visible(graph, to, SideIn(kind))
  /\ Push([graph EXCEPT !.edges = @ \cup {Edge(kind, from, to)}], sel)
  /\ tally' = Step
  /\ UNCHANGED <<clip, gesture, locked>>
Connect(kind, from, to) ==
  /\ Command /\ MayConnect(graph, kind, from, to, {}, FALSE)
  /\ Push([graph EXCEPT !.edges = @ \cup {Edge(kind, from, to)}], sel)
  /\ tally' = Step
  /\ UNCHANGED <<clip, gesture, locked>>

Reconnect(e, kind, from, to) ==
  /\ Command /\ e \in graph.edges /\ MayConnect(graph, kind, from, to, {e}, FALSE)
  /\ Transact([graph EXCEPT !.edges = (@ \ {e}) \cup {[e EXCEPT !.kind = kind, !.from = from, !.to = to]}], sel)
  /\ tally' = Step
  /\ UNCHANGED <<clip, gesture, locked>>

RemoveEdge(e) ==
  /\ Command /\ e \in graph.edges
  /\ Push([graph EXCEPT !.edges = @ \ {e}], sel)
  /\ tally' = Step
  /\ UNCHANGED <<clip, gesture, locked>>

\* deleteItems, removeSelected: edges and group memberships go with the nodes.
Without(g, doomed) ==
  [nodes |-> [n \in NodeIds(g) \ doomed |-> g.nodes[n]],
   edges |-> {e \in g.edges : {e.from, e.to} \cap doomed = {}},
   groups |-> {m \in {m \ doomed : m \in g.groups} : m # {}}]

RemoveSelected ==
  /\ Command /\ sel # {}
  /\ Push(Without(graph, sel), {})
  /\ tally' = Step
  /\ UNCHANGED <<clip, gesture, locked>>

GroupSelection ==
  /\ Command /\ sel # {} /\ sel \subseteq NodeIds(graph)
  /\ Push([graph EXCEPT !.groups = @ \cup {sel}], sel)
  /\ tally' = Step
  /\ UNCHANGED <<clip, gesture, locked>>

Ungroup(m) ==
  /\ Command /\ m \in graph.groups
  /\ Push([graph EXCEPT !.groups = @ \ {m}], sel)
  /\ tally' = Step
  /\ UNCHANGED <<clip, gesture, locked>>

\* patchPresentation: a side with edges cannot be hidden.
PatchPorts(n, side, show) ==
  /\ Command
  /\ show = "hide" => ~Connected(graph, n, side)
  /\ Transact([graph EXCEPT !.nodes[n].show[side] = show], sel)
  /\ tally' = Step
  /\ UNCHANGED <<clip, gesture, locked>>

PatchPinned(n) ==
  /\ Command
  /\ Transact([graph EXCEPT !.nodes[n].pinned = ~@], sel)
  /\ tally' = Step
  /\ UNCHANGED <<clip, gesture, locked>>

\* updateNode: the declaration of the ports changes, edges stay.
UpdateNode(n) ==
  /\ Command
  /\ Push([graph EXCEPT !.nodes[n].ports = ~@], sel)
  /\ tally' = Step
  /\ UNCHANGED <<clip, gesture, locked>>

MovedNodes(S) ==
  [n \in NodeIds(graph) |-> IF n \in S THEN [graph.nodes[n] EXCEPT !.x = 1 - @] ELSE graph.nodes[n]]

\* moveGroup, alignSelection, distributeSelection, applyCollisionLayout: one
\* transaction that moves nodes which are not pinned.
LayoutCommand(S) ==
  /\ Command /\ S # {} /\ \A n \in S : ~graph.nodes[n].pinned
  /\ Transact([graph EXCEPT !.nodes = MovedNodes(S)], sel)
  /\ tally' = Step
  /\ UNCHANGED <<clip, gesture, locked>>

Select(S) ==
  /\ S # sel /\ Room /\ tally' = Step
  /\ sel' = S
  /\ jobs' = Touched(jobs)
  /\ UNCHANGED <<graph, undos, redos, held, clip, gesture, locked>>

---------------------------------------------------------------------------
(* Pointer layout: beginLayout, moveNode, commitLayout, cancelLayout *)

MoveNode(n) ==
  /\ Command /\ ~graph.nodes[n].pinned /\ tally' = Step
  /\ held' = IF held # Nil THEN held ELSE Entry
  /\ graph' = [graph EXCEPT !.nodes[n].x = 1 - @]
  /\ jobs' = Touched(jobs)
  /\ UNCHANGED <<sel, undos, redos, clip, gesture, locked>>

CommitLayout ==
  /\ ~locked /\ held # Nil /\ Turn
  /\ held' = Nil
  /\ IF held.graph.nodes # graph.nodes
     THEN undos' = Capped(Append(undos, held)) /\ redos' = <<>>
     ELSE UNCHANGED <<undos, redos>>
  /\ jobs' = Touched(jobs)
  /\ UNCHANGED <<graph, sel, clip, gesture, locked>>

\* CanvasInteractions.cancel: no gesture and no request in flight is current
\* any more, and a pending layout goes back.
Overtaken(js) == [s \in Slots |-> IF js[s] = Nil THEN Nil ELSE [js[s] EXCEPT !.live = FALSE]]
CancelLayout ==
  /\ graph' = IF held # Nil THEN held.graph ELSE graph
  /\ sel' = IF held # Nil THEN held.sel ELSE sel
  /\ held' = Nil
  /\ jobs' = Overtaken(IF held # Nil THEN Touched(jobs) ELSE jobs)
  /\ gesture' = Nil
  /\ UNCHANGED <<undos, redos, clip>>

CancelGesture ==
  /\ Turn
  /\ gesture # Nil \/ held # Nil \/ \E s \in Slots : jobs[s] # Nil /\ jobs[s].live
  /\ CancelLayout
  /\ UNCHANGED locked

\* A foreground action starts or ends, or the user locks the canvas.
Lock ==
  /\ ~locked /\ Turn
  /\ CancelLayout /\ locked' = TRUE

Unlock ==
  /\ locked /\ locked' = FALSE
  /\ UNCHANGED <<editVars, clip, jobs, gesture, tally>>

---------------------------------------------------------------------------
(* Clipboard *)

\* createClipboardFragment refuses what decodeClipboard would: a dangling port.
Copyable(g, S) ==
  /\ S # {} /\ S \subseteq NodeIds(g)
  /\ \A e \in g.edges : (e.kind = "data" /\ e.to \in S) =>
       g.nodes[e.to].ports /\ (e.from \in S => g.nodes[e.from].ports)

Fragment(g, S) ==
  [nodes |-> [n \in S |-> g.nodes[n]],
   edges |-> {e \in g.edges : e.from \in S /\ e.to \in S},
   incoming |-> {e \in g.edges : e.from \notin S /\ e.to \in S},
   groups |-> {m \in {m \cap S : m \in g.groups} : m # {}},
   doc |-> tally.opened]

\* bind: what a request or a gesture was started with, and on which graph.
Bound(cmd, ids, edge, frag) ==
  [cmd |-> cmd, ids |-> ids, edge |-> edge, frag |-> frag,
   graph |-> graph, sel |-> sel, opened |-> tally.opened, live |-> TRUE, touched |-> FALSE]

\* clipboard: a later request makes the earlier ones out of date.
BeginClipboard(s, cmd) ==
  /\ ~locked \/ cmd = "copy"
  /\ Room /\ tally' = Step
  /\ jobs[s] = Nil
  /\ cmd \in {"copy", "cut"} => Copyable(graph, sel)
  /\ jobs' = [Overtaken(jobs) EXCEPT ![s] =
       Bound(cmd, sel, Nil, IF cmd \in {"copy", "cut"} THEN Fragment(graph, sel) ELSE Nil)]
  /\ gesture' = IF gesture = Nil THEN Nil ELSE [gesture EXCEPT !.live = FALSE]
  /\ UNCHANGED <<editVars, clip, locked>>

\* current: is the session still the one the binding was made in?
CurrentBinding(b, selection, lockedToo) ==
  /\ lockedToo \/ ~locked
  /\ b.live /\ b.opened = tally.opened /\ b.graph = graph
  /\ selection => ~b.touched /\ b.sel = sel

\* The browser wrote the text; a cut deletes only now.
Written(s) ==
  /\ jobs[s] # Nil /\ jobs[s].cmd \in {"copy", "cut"}
  /\ clip' = jobs[s].frag
  /\ IF jobs[s].cmd = "cut" /\ CurrentBinding(jobs[s], TRUE, FALSE)
     THEN LET g == Without(graph, sel)
              before == IF held # Nil THEN held ELSE Entry
          IN /\ graph' = g /\ sel' = {} /\ held' = Nil
             /\ undos' = Capped(Append(undos, before)) /\ redos' = <<>>
             /\ jobs' = [Touched(jobs) EXCEPT ![s] = Nil]
     ELSE jobs' = [jobs EXCEPT ![s] = Nil] /\ UNCHANGED editVars
  /\ UNCHANGED <<gesture, locked, tally>>

\* unique: the first copy number that is free.
CopyOf(g, n) ==
  n \o <<CHOOSE k \in 1 .. (Cardinality(NodeIds(g)) + 1) :
           /\ n \o <<k>> \notin NodeIds(g)
           /\ \A j \in 1 .. (k - 1) : n \o <<j>> \in NodeIds(g)>>

\* remap and edge: a name or an edge of the fragment in the pasted graph.
PastedName(g, frag, n) == IF n \in DOMAIN frag.nodes THEN CopyOf(g, n) ELSE n
PastedEdges(g, frag, E) ==
  {[e EXCEPT !.from = PastedName(g, frag, @), !.to = PastedName(g, frag, @)] : e \in E}

\* The nodes of the fragment and the edges between them.
WithFragment(g, frag) ==
  LET origin(m) == CHOOSE n \in DOMAIN frag.nodes : CopyOf(g, n) = m
      names == {CopyOf(g, n) : n \in DOMAIN frag.nodes}
  IN [nodes |-> [m \in NodeIds(g) \cup names |-> IF m \in names THEN frag.nodes[origin(m)] ELSE g.nodes[m]],
      edges |-> g.edges \cup PastedEdges(g, frag, frag.edges), groups |-> g.groups]

\* pasteClipboardFragment: the graph with the fragment under new names, or Nil
\* when an edge is refused.  Edges come one by one; which one closes a cycle does
\* not matter, and the first incoming edge at a port side must find it visible
\* without it.
Pasted(g, frag, incoming) ==
  LET inner == WithFragment(g, frag)
      outer == IF incoming THEN PastedEdges(g, frag, frag.incoming) ELSE {}
      whole == [inner EXCEPT !.edges = @ \cup outer]
      ok == \A e \in outer :
              /\ MayConnect(whole, e.kind, e.from, e.to, {e}, TRUE)
              /\ Visible(inner, e.from, SideOut(e.kind)) /\ Visible(inner, e.to, SideIn(e.kind))
  IN IF ok THEN [whole EXCEPT !.groups = @ \cup {{CopyOf(g, n) : n \in m} : m \in frag.groups}]
     ELSE Nil

\* The browser read the text.  A fragment of another document brings no
\* incoming edges; a refused paste still ends the transaction around it.
ReadText(s) ==
  /\ jobs[s] # Nil /\ jobs[s].cmd \in {"paste", "pasteIncoming"}
  /\ LET incoming == jobs[s].cmd = "pasteIncoming"
         fits == clip # Nil /\ (incoming => clip.doc = tally.opened)
         g == IF fits THEN Pasted(graph, clip, incoming) ELSE Nil
         names == IF g = Nil THEN {} ELSE NodeIds(g) \ NodeIds(graph)
     IN IF CurrentBinding(jobs[s], TRUE, FALSE)
           /\ (g = Nil \/ Cardinality(NodeIds(g)) <= MaxNodes)
        THEN LET after == IF g = Nil THEN graph ELSE g
                 before == IF held # Nil THEN held ELSE Entry
             IN /\ graph' = after /\ sel' = (IF g = Nil THEN sel ELSE names) /\ held' = Nil
                /\ IF before.graph # after
                   THEN undos' = Capped(Append(undos, before)) /\ redos' = <<>>
                   ELSE UNCHANGED <<undos, redos>>
                /\ jobs' = [(IF g = Nil THEN jobs ELSE Touched(jobs)) EXCEPT ![s] = Nil]
        ELSE jobs' = [jobs EXCEPT ![s] = Nil] /\ UNCHANGED editVars
  /\ UNCHANGED <<clip, gesture, locked, tally>>

\* The browser refuses the clipboard.
ClipboardFails(s) ==
  /\ jobs[s] # Nil
  /\ jobs' = [jobs EXCEPT ![s] = Nil]
  /\ UNCHANGED <<editVars, clip, gesture, locked, tally>>

---------------------------------------------------------------------------
(* Gestures: a preview, then one transaction *)

BeginDrag(S, clone) ==
  /\ Command /\ tally' = Step
  /\ S # {} /\ \A n \in S : ~graph.nodes[n].pinned
  /\ clone => Copyable(graph, S)
  /\ gesture' = IF clone THEN Bound("clone", S, Nil, Fragment(graph, S)) ELSE Bound("drag", S, Nil, Nil)
  /\ UNCHANGED <<editVars, clip, jobs, locked>>

BeginRoute(e) ==
  /\ Command /\ tally' = Step
  /\ gesture' = Bound("route", {}, e, Nil)
  /\ UNCHANGED <<editVars, clip, jobs, locked>>

\* A clone that cannot be placed leaves everything as it is.
CommitGesture ==
  /\ ~locked /\ gesture # Nil
  /\ gesture' = Nil
  /\ LET cloned == IF gesture.cmd = "clone" THEN Pasted(graph, gesture.frag, FALSE) ELSE Nil
         g == CASE gesture.cmd = "drag" ->
                     [graph EXCEPT !.nodes = MovedNodes(gesture.ids)]
                [] gesture.cmd = "route" ->
                     [graph EXCEPT !.edges = (@ \ {gesture.edge}) \cup {[gesture.edge EXCEPT !.routed = TRUE]}]
                [] OTHER -> cloned
     IN IF CurrentBinding(gesture, FALSE, FALSE) /\ g # Nil /\ Cardinality(NodeIds(g)) <= MaxNodes
        THEN Transact(g, IF gesture.cmd = "clone" THEN NodeIds(g) \ NodeIds(graph) ELSE sel)
        ELSE UNCHANGED <<editVars, jobs>>
  /\ UNCHANGED <<clip, locked, tally>>

---------------------------------------------------------------------------
\* install: the workspace puts another document, or the saved one, in the
\* place of the editor; the panel cancels what was going on.
Install(g) ==
  /\ tally.opened < MaxOpened /\ tally' = [tally EXCEPT !.opened = @ + 1]
  /\ graph' = g /\ sel' = {} /\ undos' = <<>> /\ redos' = <<>> /\ held' = Nil
  /\ jobs' = Overtaken(jobs) /\ gesture' = Nil
  /\ UNCHANGED <<clip, locked>>

CanvasInit ==
  /\ graph \in Documents /\ sel = {} /\ undos = <<>> /\ redos = <<>> /\ held = Nil
  /\ clip = Nil /\ jobs = [s \in Slots |-> Nil] /\ gesture = Nil /\ locked = FALSE
  /\ tally = [commands |-> 0, turns |-> 0, named |-> 2, opened |-> 0]

CanvasNext ==
  \/ UndoEdit \/ RedoEdit
  \/ AddNode(Nil, "data", TRUE)
  \/ \E n \in NodeIds(graph), kind \in Kinds, out \in BOOLEAN : AddNode(n, kind, out)
  \/ \E a, b \in NodeIds(graph), kind \in Kinds :
       Connect(kind, a, b) \/ \E e \in graph.edges : Reconnect(e, kind, a, b)
  \/ \E e \in graph.edges : RemoveEdge(e) \/ BeginRoute(e)
  \/ RemoveSelected \/ GroupSelection \/ \E m \in graph.groups : Ungroup(m)
  \/ \E n \in NodeIds(graph), side \in Sides, show \in {"show", "hide"} : PatchPorts(n, side, show)
  \/ \E n \in NodeIds(graph) : PatchPinned(n) \/ UpdateNode(n) \/ MoveNode(n)
  \/ \E S \in {{n} : n \in NodeIds(graph)} \cup {{}, NodeIds(graph)} : Select(S)
  \/ \E S \in graph.groups \cup {sel, NodeIds(graph)} : LayoutCommand(S)
  \/ \E S \in graph.groups \cup {sel} \cup {{n} : n \in NodeIds(graph) \ sel}, clone \in BOOLEAN : BeginDrag(S, clone)
  \/ CommitLayout \/ CancelGesture \/ Lock \/ Unlock \/ CommitGesture
  \/ \E s \in Slots :
       \/ \E cmd \in {"copy", "cut", "paste", "pasteIncoming"} : BeginClipboard(s, cmd)
       \/ Written(s) \/ ReadText(s) \/ ClipboardFails(s)
  \/ \E g \in Documents \cup {graph} : Install(g)

CanvasSpec == CanvasInit /\ [][CanvasNext]_canvasVars

---------------------------------------------------------------------------
CanvasTypeOK ==
  /\ Len(undos) <= HistoryCap /\ Len(redos) <= HistoryCap
  /\ sel \subseteq NodeIds(graph)
  /\ locked => held = Nil /\ gesture = Nil

\* The graph on screen and every version undo or redo can bring back.
AllVersions ==
  {graph} \cup {undos[i].graph : i \in DOMAIN undos} \cup {redos[i].graph : i \in DOMAIN redos}

\* Every edge joins two nodes of the graph and every group holds nodes of it, in
\* every version.
Attached ==
  \A g \in AllVersions :
    /\ \A e \in g.edges : e.from \in NodeIds(g) /\ e.to \in NodeIds(g)
    /\ \A m \in g.groups : m \subseteq NodeIds(g)

\* Data edges never close a cycle, whatever is connected, reconnected, pasted
\* or brought back (checkConnection).
DataAcyclic ==
  \A n \in NodeIds(graph) : \A p \in DataSteps(graph) : p[1] = n => n \notin ReachedFrom(graph, p[2])

\* No edit hides a port side that has edges, or connects one that is hidden: where
\* a version does both, a document that was opened did so at that node, or at the
\* node it is a copy of (patchPresentation, checkConnection, canonicalRestore).
HiddenWasOpened ==
  \A g \in AllVersions : \A n \in NodeIds(g), side \in DOMAIN AutoShow :
    g.nodes[n].show[side] = "hide" /\ Connected(g, n, side) => Brought(n, side)

\* A cut deletes exactly what it wrote to the clipboard, as it was written,
\* however long the browser took (clipboard in flow-interactions.ts).
CutIsCopied ==
  [][\A s \in Slots :
       (/\ jobs[s] # Nil /\ jobs[s].cmd = "cut" /\ jobs'[s] = Nil
        /\ graph' # graph)
       => /\ clip' = jobs[s].frag
          /\ \A n \in NodeIds(graph) \ NodeIds(graph') :
               n \in DOMAIN clip'.nodes /\ clip'.nodes[n] = graph.nodes[n]]_canvasVars

\* The editor keeps one line of versions: undo and redo, transactions, absorbed
\* and cancelled pointer layouts, late clipboards and gestures included.
Line == INSTANCE LinearHistory WITH
  Cap <- HistoryCap,
  Versions <- Documents,
  past <- [i \in DOMAIN undos |-> undos[i].graph],
  present <- IF held # Nil THEN held.graph ELSE graph,
  future <- [i \in DOMAIN redos |-> redos[i].graph]
HistoryIsLinear == Line!Spec
============================================================================
