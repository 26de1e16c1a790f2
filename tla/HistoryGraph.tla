---------------------------- MODULE HistoryGraph ----------------------------
(***************************************************************************)
(* History graphs (src/src/history.rs) as owners of RelRc nodes.  A graph  *)
(* has a strong reference for each of its ids (the SecondaryMap `nodes`)   *)
(* and shares an Rc<RefCell<Registry>> with other graphs and the program.  *)
(*                                                                         *)
(* The entry of a graph g for id is the slot <<g, id>> of Handle, so that  *)
(* the model of RelRc counts it among the strong references.  A call that  *)
(* takes several steps (an insertion, the drop of a graph) is recorded     *)
(* with its depth, the number of nodes whose fields were being dropped     *)
(* when it was made: while it is the innermost activity no other code      *)
(* runs, but a node it drops may run the Drop implementation of its value, *)
(* with everything but the graph of the call at its disposal.              *)
(***************************************************************************)
EXTENDS RelRc, FiniteSets

CONSTANT Graphs     \* the HistoryGraph values that may exist at a time

Entry == Graphs \X NodeId
User  == Handle \ Entry         \* the variables of the program

ASSUME EntryAssumption == Entry \subseteq Handle

VARIABLES
  graph_registry,   \* graph_registry[g]: the registry of g; Null if g does not exist
  call              \* call[g]: the call in progress that borrows g mutably

graphVars == <<graph_registry, call>>
historyVars == <<vars, graphVars>>

\* One activation of insert_ancestors, with the parents it has yet to look at.
Frame == [node : Addr, todo : Seq(Addr)]

NoCall == [op |-> "none", arg |-> Null, depth |-> 0, frames |-> <<>>]

\* The fields of HistoryGraph and the calls on it have their types.
GraphTypeOK ==
  /\ TypeOK
  /\ graph_registry \in [Graphs -> Registries \cup {Null}]
  /\ call \in [Graphs -> [op : {"none", "insert_node", "insert_ancestors", "drop"},
                          arg : User \cup {Null},
                          depth : Nat,
                          frames : Seq(Frame)]]

HistoryInit ==
  /\ Init
  /\ graph_registry = [g \in Graphs |-> Null]
  /\ call = [g \in Graphs |-> NoCall]

-----------------------------------------------------------------------------
(* Queries *)

\* HistoryGraph::get_node, contains_id and all_node_ids
GetNode(g, id) == ptr[<<g, id>>]
ContainsId(g, id) == GetNode(g, id) # Null
AllNodeIds(g) == {id \in NodeId : ContainsId(g, id)}
AllNodes(g) == {GetNode(g, id) : id \in AllNodeIds(g)}

\* Mutant: the registry alone is asked.
RegistryNodeId(g, a) == GetId(graph_registry[g], a)

\* HistoryGraph::get_node_id
GetNodeId(g, a) ==
  LET id == GetId(graph_registry[g], a) IN
  IF id # Null /\ ContainsId(g, id) THEN id ELSE Null

\* HistoryGraph::contains
Contains(g, a) == GetNodeId(g, a) # Null

EdgeId == [target : NodeId, index : 1 .. MaxParents]

\* HistoryGraph::get_edge and contains_edge: both ends are in the graph.
ContainsEdge(g, e) ==
  /\ ContainsId(g, e.target)
  /\ e.index \in DOMAIN incoming[GetNode(g, e.target)]
  /\ Contains(g, incoming[GetNode(g, e.target)][e.index])

\* HistoryGraph::source and target, on whose results petgraph calls expect()
Source(g, e) ==
  IF ContainsEdge(g, e) THEN GetNodeId(g, incoming[GetNode(g, e.target)][e.index]) ELSE Null
Target(g, e) ==
  IF ContainsEdge(g, e) THEN e.target ELSE Null

\* HistoryGraph::incoming_edges
IncomingEdges(g, id) == {e \in EdgeId : e.target = id /\ ContainsEdge(g, e)}

\* HistoryGraph::outgoing_edges.  That it prunes the weak edges of the node is
\* AllOutgoing(<<g, id>>).
OutgoingEdges(g, id) ==
  {[target |-> GetNodeId(g, w.target), index |-> w.index] :
     w \in {v \in Retained(GetNode(g, id)) : Contains(g, v.target)}}

Direction == {"outgoing", "incoming"}

\* The views of petgraph: edge_references, edges_directed and
\* neighbors_directed, which HistoryGraph::parents and children are too
EdgeReferences(g) == UNION {IncomingEdges(g, id) : id \in AllNodeIds(g)}
EdgesDirected(g, id, d) ==
  IF d = "outgoing" THEN OutgoingEdges(g, id) ELSE IncomingEdges(g, id)
NeighborsDirected(g, id, d) ==
  {IF d = "outgoing" THEN e.target ELSE Source(g, e) : e \in EdgesDirected(g, id, d)}

-----------------------------------------------------------------------------
(* Calls *)

Busy(g) == call[g].op # "none"

\* The call on g is the innermost activity, and no RelRc::drop is running.
Proceeds(g) ==
  /\ Running
  /\ Busy(g)
  /\ call[g].depth = Len(teardown)

\* The program's code runs, maybe in the Drop of a value.
Idle == Running /\ \A g \in Graphs : ~Proceeds(g)

\* The graph g exists and is not borrowed.
Usable(g) == graph_registry[g] # Null /\ ~Busy(g)

\* The slots of the program that are not lent to a call.
Own == User \ {call[g].arg : g \in Graphs}

Begin(g, op, arg, frames) ==
  /\ Idle
  /\ Usable(g)
  /\ call' = [call EXCEPT ![g] = [op |-> op, arg |-> arg,
                                  depth |-> Len(teardown), frames |-> frames]]
  /\ UNCHANGED <<vars, graph_registry>>

-----------------------------------------------------------------------------
(* Insertion *)

\* The nodes from which a is reached along edges, and a: the least set with a
\* that is closed under parents.
Ancestors(a) ==
  {b \in Addr : \A S \in SUBSET Addr :
     a \in S /\ (\A c \in S : Parents(c) \subseteq S) => b \in S}

\* Bound: the keys of the model suffice to register the nodes of S.
IdsLeft(g, S) ==
  Cardinality({b \in S : GetId(graph_registry[g], b) = Null})
    <= Cardinality(FreshKey(graph_registry[g]))

\* HistoryGraph::insert_node; HistoryGraph::new calls it for each node
InsertNode(g, h) ==
  /\ ptr[h] # Null
  /\ Usable(g) /\ IdsLeft(g, {ptr[h]})
  /\ Begin(g, "insert_node", h, <<[node |-> ptr[h], todo |-> <<>>]>>)

\* HistoryGraph::insert_ancestors
InsertAncestors(g, h) ==
  /\ ptr[h] # Null
  /\ Usable(g) /\ IdsLeft(g, Ancestors(ptr[h]))
  /\ Begin(g, "insert_ancestors", h, <<[node |-> ptr[h], todo |-> incoming[ptr[h]]]>>)

\* Mutant: the loop does not advance.
VisitAgain(g) ==
  LET f == Head(call[g].frames)
      p == Head(f.todo) IN
  /\ f.todo # <<>>
  /\ ~Contains(g, p)
  /\ call' = [call EXCEPT ![g].frames = <<[node |-> p, todo |-> incoming[p]]>> \o @]
  /\ UNCHANGED <<vars, graph_registry>>

\* The loop of insert_ancestors: the next parent is in the graph, or
\* insert_ancestors is called for it.
VisitParent(g) ==
  LET f    == Head(call[g].frames)
      p    == Head(f.todo)
      rest == <<[f EXCEPT !.todo = Tail(@)]>> \o Tail(call[g].frames) IN
  /\ f.todo # <<>>
  /\ call' = [call EXCEPT ![g].frames =
                IF Contains(g, p) THEN rest
                ELSE <<[node |-> p, todo |-> incoming[p]]>> \o rest]
  /\ UNCHANGED <<vars, graph_registry>>

\* insert_node of a node that is in the graph already
FindNode(g) ==
  LET f == Head(call[g].frames) IN
  /\ f.todo = <<>>
  /\ Contains(g, f.node)
  /\ call' = [call EXCEPT ![g].frames = Tail(@)]
  /\ UNCHANGED <<vars, graph_registry>>

\* SecondaryMap::insert evicts the value that an older version of the key left
\* in the slot.  Ids are issued in order, so a newer one is never in its way.
Evicted(g, id) ==
  {k \in NodeId : Slot(k) = Slot(id) /\ k # id /\ ContainsId(g, k)}

\* The entry of id is set to a, and those in S are taken out and dropped.
Store(g, id, a, S) ==
  /\ ptr' = [h \in Handle |-> IF h = <<g, id>> THEN a
                              ELSE IF \E k \in S : h = <<g, k>> THEN Null ELSE ptr[h]]
  /\ \/ S = {} /\ UNCHANGED dropping
     \/ \E k \in S : dropping' = GetNode(g, k)

\* insert_node of a new node: try_register_in, then SecondaryMap::insert
StoreNode(g) ==
  LET f == Head(call[g].frames)
      r == graph_registry[g] IN
  /\ f.todo = <<>>
  /\ ~Contains(g, f.node)
  /\ TrySetRegister(f.node, r)
  /\ registry' = [registry EXCEPT ![f.node] = r]
  /\ AddNodeTo(r, f.node)
  /\ LET id == ptr_to_id'[r][f.node] IN Store(g, id, f.node, Evicted(g, id))
  /\ call' = [call EXCEPT ![g].frames = Tail(@)]
  /\ UNCHANGED <<live, incoming, outgoing, weak, teardown, regs, graph_registry>>

\* The argument of the call on g is dropped.
DropArg(g) == DropHandle(call[g].arg) /\ UNCHANGED graph_registry

\* Mutant: insert_ancestors goes on without the node.
RefuseOne(g) ==
  LET f == Head(call[g].frames) IN
  /\ f.todo = <<>>
  /\ ~Contains(g, f.node)
  /\ ~TrySetRegister(f.node, graph_registry[g])
  /\ call' = [call EXCEPT ![g].frames = Tail(@)]
  /\ UNCHANGED <<vars, graph_registry>>

\* insert_node of a node that try_register_in refuses.  insert_node returns
\* None and insert_ancestors panics; what it has inserted already stays.
Refuse(g) ==
  LET f == Head(call[g].frames) IN
  /\ f.todo = <<>>
  /\ ~Contains(g, f.node)
  /\ ~TrySetRegister(f.node, graph_registry[g])
  /\ call' = [call EXCEPT ![g].frames = <<>>]
  /\ DropArg(g)

\* One step of an insertion.
Insert(g) ==
  /\ call[g].op \in {"insert_node", "insert_ancestors"}
  /\ \/ call[g].frames # <<>> /\ (VisitParent(g) \/ FindNode(g) \/ StoreNode(g) \/ Refuse(g))
     \/ call[g].frames = <<>> /\ DropArg(g) /\ UNCHANGED call

\* The insertion is over and its argument dropped.
Return(g) ==
  /\ call[g].op \in {"insert_node", "insert_ancestors"}
  /\ call[g].frames = <<>>
  /\ ptr[call[g].arg] = Null
  /\ call' = [call EXCEPT ![g] = NoCall]
  /\ UNCHANGED <<vars, graph_registry>>

-----------------------------------------------------------------------------
(* Creating, cloning and dropping graphs *)

\* HistoryGraph::with_registry; from_nodes and default pass a new registry
WithRegistry(g, r) ==
  /\ Idle
  /\ graph_registry[g] = Null
  /\ r \in regs
  /\ graph_registry' = [graph_registry EXCEPT ![g] = r]
  /\ UNCHANGED <<vars, call>>

\* <HistoryGraph as Clone>::clone: the strong references are cloned, the
\* registry is shared.
CloneGraph(g, s) ==
  /\ Idle
  /\ Usable(g)
  /\ graph_registry[s] = Null
  /\ graph_registry' = [graph_registry EXCEPT ![s] = graph_registry[g]]
  /\ ptr' = [h \in Handle |-> IF \E id \in NodeId : h = <<s, id>>
                              THEN GetNode(g, h[2]) ELSE ptr[h]]
  /\ UNCHANGED <<live, incoming, outgoing, registry, weak, dropping, teardown, registryVars, call>>

\* A graph goes out of scope: its nodes are dropped one by one ...
DropGraph(g) == Begin(g, "drop", Null, <<>>)

DropEntry(g) ==
  /\ call[g].op = "drop"
  /\ \E id \in NodeId : DropHandle(<<g, id>>)
  /\ UNCHANGED graphVars

\* ... and then its registry, which may be the last reference to it.
DropGraphRegistry(g) ==
  /\ call[g].op = "drop"
  /\ AllNodeIds(g) = {}
  /\ call' = [call EXCEPT ![g] = NoCall]
  /\ graph_registry' = [graph_registry EXCEPT ![g] = Null]
  /\ \/ UNCHANGED registryVars
     \/ /\ \A s \in Graphs \ {g} : graph_registry[s] # graph_registry[g]
        /\ DestroyRegistry(graph_registry[g])
  /\ UNCHANGED heapVars

-----------------------------------------------------------------------------
(* The specification *)

\* The steps of calls in progress.
CallStep(g) ==
  /\ Proceeds(g)
  /\ Insert(g) \/ Return(g) \/ DropEntry(g) \/ DropGraphRegistry(g)

\* What the program does with nodes and registries beside the graphs; a
\* registry that a graph refers to cannot be dropped.
UseBeside ==
  /\ Idle
  /\ \/ UseNodes(Own)
     \/ UseRegistries(Own)
     \/ \E r \in Registries : (\A g \in Graphs : graph_registry[g] # r) /\ DropRegistry(r)
  /\ UNCHANGED graphVars

\* Drops proceed, those of fields when no call made by a Drop is in progress.
Drops ==
  /\ DropShared \/ DropLast \/ (Idle /\ \E a \in Addr : DropFields(a))
  /\ UNCHANGED graphVars

\* What every program does with graphs; the nodes come in by insert_ancestors.
UseGraphs ==
  \/ \E g \in Graphs, r \in Registries : WithRegistry(g, r)
  \/ \E g, s \in Graphs : CloneGraph(g, s)
  \/ \E g \in Graphs : DropGraph(g)
  \/ \E g \in Graphs, h \in Own : InsertAncestors(g, h)
  \/ \E g \in Graphs : CallStep(g)

\* The ways to get a node into a registry without its history.
InsertAlone ==
  \/ \E g \in Graphs, h \in Own : InsertNode(g, h)
  \/ Idle /\ AddUntracked /\ UNCHANGED graphVars

\* Registry::remove of an id, in use in a graph or not
RemoveIds ==
  /\ Idle
  /\ \E r \in Registries, id \in NodeId : Remove(r, id)
  /\ UNCHANGED graphVars

AncestralNext == UseBeside \/ Drops \/ UseGraphs
KeptNext == AncestralNext \/ InsertAlone
HistoryNext == KeptNext \/ RemoveIds

\* Programs that fill graphs by insert_ancestors and registries by
\* try_register_in only; that take no ids away by hand; and all programs.
AncestralSpec == HistoryInit /\ [][AncestralNext]_historyVars
KeptSpec      == HistoryInit /\ [][KeptNext]_historyVars
HistorySpec   == HistoryInit /\ [][HistoryNext]_historyVars

\* RelRc::drop does not wait for anything.  The drop glue of a node gets to its
\* next step, and a call on a graph proceeds, whenever the Drop implementations
\* of N and E that run in between have returned.
HistoryFairness ==
  /\ WF_historyVars((DropShared \/ DropLast) /\ UNCHANGED graphVars)
  /\ \A a \in Addr : SF_historyVars(Idle /\ DropFields(a) /\ UNCHANGED graphVars)
  /\ \A g \in Graphs : SF_historyVars(CallStep(g))

FairKeptSpec == KeptSpec /\ HistoryFairness

-----------------------------------------------------------------------------
(* Safety *)

\* As long as the program takes no ids away by hand, the registry of a graph
\* knows each node of the graph by the id that the graph has it under, whatever
\* else shares the registry.  HistoryGraph::contains and contains_id agree, and
\* a node is in a graph at most once.
GraphsAgreeWithRegistry ==
  \A g \in Graphs, id \in NodeId : ContainsId(g, id) =>
    graph_registry[g] \in regs /\ GetId(graph_registry[g], GetNode(g, id)) = id

\* The two directions in which petgraph walks a graph agree: edges_directed
\* reports, either way, edges of edge_references whose ends are in the graph,
\* each of those from its source, and neighbors_directed is symmetric.  So
\* neither neighbors_directed nor EdgeRef panics with "edge is valid".
DirectionsAgree ==
  \A g \in Graphs : \A id \in AllNodeIds(g) :
    /\ \A d \in Direction : \A e \in EdgesDirected(g, id, d) :
         /\ {Source(g, e), Target(g, e)} \subseteq AllNodeIds(g)
         /\ e \in EdgeReferences(g)
         /\ e \in EdgesDirected(g, Source(g, e), "outgoing")
    /\ \A j \in AllNodeIds(g) :
         j \in NeighborsDirected(g, id, "outgoing") <=> id \in NeighborsDirected(g, j, "incoming")

\* A graph filled by insert_ancestors has the parents of all its nodes, at every
\* step of an insertion, after one that panicked, and while other graphs that
\* share its registry come and go; only the drop of the graph itself takes it
\* apart.
AncestorClosed ==
  \A g \in Graphs : \A id \in AllNodeIds(g) :
    call[g].op # "drop" => \A p \in Parents(GetNode(g, id)) : p \in AllNodes(g)

\* "Multiple graphs can share the same registry to maintain consistent node
\* identification across graphs" (Registry): two graphs, or a graph and the
\* registry, never have different nodes under one id, not even when ids are
\* removed while graphs still use them and slots are reused.
SharedIdsConsistent ==
  \A g \in Graphs, id \in NodeId : ContainsId(g, id) =>
    /\ nodes[graph_registry[g]][id] \in {GetNode(g, id), Null}
    /\ \A s \in Graphs : graph_registry[s] = graph_registry[g] =>
         GetNode(s, id) \in {GetNode(g, id), Null}

\* An insertion may evict a node from a graph without a word (SecondaryMap::insert
\* in HistoryGraph::insert_node), but never one that HistoryGraph::contains reports:
\* until it is dropped, a graph loses only nodes whose id was removed by hand.
ContainedStays ==
  [][\A g \in Graphs : call[g].op # "drop" =>
       \A a \in AllNodes(g) : Contains(g, a) => a \in AllNodes(g)']_historyVars

-----------------------------------------------------------------------------
(* Liveness *)

\* insert_node, insert_ancestors and the drop of a graph come to an end.
CallsReturn == \A g \in Graphs : Busy(g) ~> ~Busy(g)

=============================================================================
