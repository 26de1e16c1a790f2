----------------------------- MODULE KeptProofs -----------------------------
(***************************************************************************)
(* Proofs about history graphs in programs that take no ids away by hand,  *)
(* for any number of graphs, registries, nodes and ids, and for histories  *)
(* of any shape.  The graphs and the registries agree on the ids of nodes; *)
(* the two directions in which petgraph walks a graph agree, whatever part *)
(* of a history it holds; a graph filled by insert_ancestors has the       *)
(* parents of all its nodes at every step; and where nodes are registered  *)
(* in this way only, their ids are freed with them.                        *)
(***************************************************************************)
EXTENDS HistoryProofs

-----------------------------------------------------------------------------
(* The inductive invariant *)

\* Live nodes keep their ids when none are removed by hand, so the ids of a
\* graph's nodes, which it keeps alive, are those that the registry knows.
HistoryInv == SharedInv /\ GraphsAgreeWithRegistry /\ FieldMeansRegistered

\* The entries of a graph are known to its registry, under their ids.
LEMMA EntryRegistered ==
  ASSUME HistoryInv, NEW g \in Graphs, NEW id \in NodeId, ContainsId(g, id)
  PROVE  /\ <<g, id>> \in Handle /\ GetNode(g, id) \in live /\ GetNode(g, id) \in Addr
         /\ graph_registry[g] \in regs /\ graph_registry[g] \in Registries
         /\ ptr_to_id[graph_registry[g]][GetNode(g, id)] = id
         /\ nodes[graph_registry[g]][id] = GetNode(g, id)
<1>1. /\ <<g, id>> \in Handle /\ GetNode(g, id) \in live /\ GetNode(g, id) \in Addr
      /\ graph_registry[g] \in regs /\ graph_registry[g] \in Registries
  BY EntryHeld, Zenon DEF HistoryInv
<1>2. ptr_to_id[graph_registry[g]][GetNode(g, id)] = id
  BY Zenon DEF HistoryInv, GraphsAgreeWithRegistry, GetId
<1>. QED BY <1>1, <1>2 DEF HistoryInv, SharedInv, HeapInv, RegistryInv, MapsInverse

\* What a step of a program that fills graphs by insert_ancestors does to nodes
\* and registries.
LEMMA AncestralSteps ==
  ASSUME SharedInv, [AncestralNext]_historyVars
  PROVE  \/ [BaseNext /\ TrackedNext]_vars
         \/ \E g, s \in Graphs : CloneGraph(g, s)
         \/ \E g \in Graphs : call[g].frames # <<>> /\ Running /\ StoreNode(g)
<1>0. /\ TypeOK /\ Own \in SUBSET Handle
      /\ \A g \in Graphs, id \in NodeId : <<g, id>> \in Handle
      /\ \A g \in Graphs : CallOK(g)
  BY EntryAssumption DEF SharedInv, CallInv, GraphTypeOK, Own, User, Entry
<1>1. CASE UseBeside
  BY <1>0, <1>1, OwnSlots, Zenon DEF UseBeside, BaseNext, TrackedNext, GiveUp
<1>2. CASE Drops
  BY <1>2, Zenon DEF Drops, Destroy, BaseNext, TrackedNext
<1>3. CASE UNCHANGED historyVars
  BY <1>3, Zenon DEF historyVars
<1>4. ASSUME NEW g \in Graphs, CallStep(g)
      PROVE  [BaseNext /\ TrackedNext]_vars \/ (call[g].frames # <<>> /\ Running /\ StoreNode(g))
  <2>0. Running /\ Busy(g)
    BY <1>4 DEF CallStep, Proceeds
  <2>1. CASE Insert(g)
    <3>1. CASE VisitParent(g) \/ FindNode(g)
      BY <3>1, Zenon DEF VisitParent, FindNode
    <3>2. CASE Refuse(g) \/ DropArg(g)
      <4>1. call[g].arg \in Handle
        BY <1>0, <2>1 DEF Insert, CallOK, Inserting, User
      <4>. QED BY <3>2, <4>1, Zenon DEF Refuse, DropArg, BaseNext, TrackedNext, UseNodes
    <3>. QED BY <2>0, <2>1, <3>1, <3>2, Zenon DEF Insert
  <2>2. CASE Return(g)
    BY <2>2, Zenon DEF Return
  <2>3. CASE DropEntry(g)
    BY <1>0, <2>3, Zenon DEF DropEntry, BaseNext, TrackedNext, UseNodes
  <2>4. CASE DropGraphRegistry(g)
    <3>1. graph_registry[g] \in regs /\ graph_registry[g] \in Registries
      BY <1>0, <2>0, Zenon DEF CallOK, TypeOK, RegistryTypeOK
    <3>. QED BY <2>0, <2>4, <3>1, Zenon
         DEF DropGraphRegistry, BaseNext, TrackedNext, GiveUp, DropRegistry, vars
  <2>. QED BY <1>4, <2>1, <2>2, <2>3, <2>4, Zenon DEF CallStep
<1>5. CASE UseGraphs
  BY <1>4, <1>5, Zenon DEF UseGraphs, WithRegistry, DropGraph, InsertAncestors, Begin
<1>. QED BY <1>1, <1>2, <1>3, <1>5, Zenon DEF AncestralNext

\* ... and one of a program that takes no ids away.
LEMMA KeptSteps ==
  ASSUME SharedInv, [KeptNext]_historyVars
  PROVE  \/ [BaseNext]_vars
         \/ \E g, s \in Graphs : CloneGraph(g, s)
         \/ \E g \in Graphs : call[g].frames # <<>> /\ Running /\ StoreNode(g)
<1>1. CASE [AncestralNext]_historyVars
  BY <1>1, AncestralSteps, Zenon
<1>2. CASE InsertAlone
  BY <1>2, Zenon DEF BaseNext, InsertAlone, InsertNode, Begin
<1>. QED BY <1>1, <1>2, Zenon DEF KeptNext

\* insert_node of a new node gives it an id, and leaves those of others alone.
LEMMA StoreKeepsIds ==
  ASSUME SharedInv, NEW g \in Graphs, call[g].frames # <<>>, StoreNode(g)
  PROVE  /\ \A q \in Registries, b \in Addr :
              ptr_to_id[q][b] # Null => ptr_to_id'[q][b] = ptr_to_id[q][b]
         /\ FieldMeansRegistered => FieldMeansRegistered'
<1>. DEFINE a == Head(call[g].frames).node
            r == graph_registry[g]
<1>0. TypeOK
  BY DEF SharedInv, GraphTypeOK
<1>1. a \in live /\ a \in Addr /\ r \in regs /\ r \in Registries
  BY FirstFrame, Zenon
<1>2. AddNodeTo(r, a) /\ registry' = [registry EXCEPT ![a] = r] /\ UNCHANGED <<live, regs>>
  BY ZenonT(30) DEF StoreNode
<1>. HIDE DEF a, r
<1>3. /\ ptr_to_id'[r][a] # Null
      /\ \A q \in Registries, b \in Addr :
           ptr_to_id[q][b] # Null => ptr_to_id'[q][b] = ptr_to_id[q][b]
  BY <1>0, <1>1, <1>2, AddNodeToKeepsIds, Zenon
<1>4. ASSUME FieldMeansRegistered PROVE FieldMeansRegistered'
  <2>. SUFFICES ASSUME NEW b \in live, registry'[b] \in regs PROVE ptr_to_id'[registry'[b]][b] # Null
    BY <1>2, Zenon DEF FieldMeansRegistered, GetId
  <2>1. CASE b = a
    BY <2>1, <1>0, <1>1, <1>2, <1>3, Zenon DEF TypeOK
  <2>2. CASE b # a
    <3>1. registry'[b] = registry[b] /\ b \in Addr /\ registry[b] \in Registries
      BY <2>2, <1>0, <1>1, <1>2, Zenon DEF TypeOK, RegistryTypeOK
    <3>. QED BY <3>1, <1>3, <1>4, Zenon DEF FieldMeansRegistered, GetId
  <2>. QED BY <2>1, <2>2
<1>. QED BY <1>3, <1>4, Zenon

\* In a program that takes no ids away, live nodes keep their ids, and the
\* `registry` fields their meaning.
LEMMA KeptIds ==
  ASSUME SharedInv, FieldMeansRegistered, [KeptNext]_historyVars
  PROVE  IdsKept /\ FieldMeansRegistered'
<1>0. TypeOK /\ RegistryInv /\ live \subseteq Addr /\ regs \subseteq Registries
  BY DEF SharedInv, GraphTypeOK, HeapInv, TypeOK, RegistryTypeOK
<1>1. CASE [BaseNext]_vars
  BY <1>0, <1>1, BaseStep, FieldStep, Zenon
<1>2. ASSUME NEW g \in Graphs, NEW s \in Graphs, CloneGraph(g, s) PROVE IdsKept /\ FieldMeansRegistered'
  <2>1. UNCHANGED <<live, registry, regs, ptr_to_id>>
    BY <1>2, Zenon DEF CloneGraph, registryVars
  <2>. QED BY <2>1, Zenon DEF IdsKept, FieldMeansRegistered, GetId
<1>3. ASSUME NEW g \in Graphs, call[g].frames # <<>>, StoreNode(g) PROVE IdsKept /\ FieldMeansRegistered'
  BY <1>0, <1>3, StoreKeepsIds DEF IdsKept
<1>. QED BY <1>1, <1>2, <1>3, KeptSteps, Zenon

\* HistoryInv is inductive for programs that take no ids away.
LEMMA HistoryStep ==
  ASSUME HistoryInv, [KeptNext]_historyVars
  PROVE  HistoryInv' /\ HeapKept
<1>1. StaysShared
  BY SharedStep, Zenon DEF HistoryInv, HistoryNext
<1>2. IdsKept /\ FieldMeansRegistered'
  BY KeptIds, Zenon DEF HistoryInv
<1>3. GraphsAgreeWithRegistry'
  <2>. SUFFICES ASSUME NEW g \in Graphs, NEW id \in NodeId, ptr'[<<g, id>>] # Null
                PROVE  /\ graph_registry'[g] \in regs'
                       /\ ptr_to_id'[graph_registry'[g]][ptr'[<<g, id>>]] = id
    BY Zenon DEF GraphsAgreeWithRegistry, ContainsId, GetNode, GetId
  <2>1. ASSUME NEW s \in Graphs, ptr'[<<g, id>>] = ptr[<<s, id>>], graph_registry'[g] = graph_registry[s]
        PROVE  ptr_to_id'[graph_registry[s]][ptr[<<s, id>>]] = id /\ graph_registry[s] \in regs'
    <3>1. ContainsId(s, id) /\ GetNode(s, id) = ptr[<<s, id>>]
      BY <2>1, Zenon DEF ContainsId, GetNode
    <3>2. /\ <<s, id>> \in Handle /\ ptr[<<s, id>>] \in live /\ graph_registry[s] \in regs
          /\ ptr_to_id[graph_registry[s]][ptr[<<s, id>>]] = id
      BY <3>1, EntryRegistered, ZenonT(30)
    <3>3. ptr[<<s, id>>] \in live'
      BY <1>1, <3>2, Zenon DEF StaysShared, HeapKept, Owned
    <3>4. graph_registry[s] \in regs'
      BY <1>1, <2>1, Zenon DEF StaysShared, SharedInv, EntriesIssued, ContainsId, GetNode
    <3>5. id # Null
      BY NullAssumption
    <3>6. graph_registry[s] \in regs \cap regs' /\ ptr[<<s, id>>] \in live \cap live'
      BY <3>2, <3>3, <3>4
    <3>. QED BY <1>2, <3>2, <3>4, <3>5, <3>6, Zenon DEF IdsKept
  <2>2. \/ \E s \in Graphs : ptr'[<<g, id>>] = ptr[<<s, id>>] /\ graph_registry'[g] = graph_registry[s]
        \/ /\ graph_registry'[g] \in regs'
           /\ ptr_to_id'[graph_registry'[g]][ptr'[<<g, id>>]] = id
    BY <1>1, Zenon DEF StaysShared, EntriesKept
  <2>. QED BY <2>1, <2>2, Zenon
<1>. QED BY <1>1, <1>2, <1>3, Zenon DEF HistoryInv, StaysShared

\* The invariant of programs that take no ids away holds at first.
LEMMA HistoryInvInit == HistoryInit => HistoryInv
<1>. SUFFICES ASSUME HistoryInit PROVE HistoryInv
  OBVIOUS
<1>1. SharedInv /\ Init /\ \A g \in Graphs, id \in NodeId : ptr[<<g, id>>] = Null
  BY SharedInvInit, EntryAssumption DEF HistoryInit, Init, Entry
<1>2. GraphsAgreeWithRegistry
  BY <1>1, Zenon DEF GraphsAgreeWithRegistry, ContainsId, GetNode
<1>3. FieldMeansRegistered
  BY <1>1 DEF FieldMeansRegistered, Init, RegistryInit
<1>. QED BY <1>1, <1>2, <1>3 DEF HistoryInv

\* Insertions, drops and registrations keep what graphs rely on, in programs that
\* remove no ids by hand.
LEMMA HistoryInvariant == KeptSpec => []HistoryInv
<1>1. HistoryInv /\ [KeptNext]_historyVars => HistoryInv'
  BY HistoryStep, Zenon
<1>. QED BY <1>1, HistoryInvInit, PTL DEF KeptSpec

\* As long as no ids are taken away by hand, a graph and its registry agree on
\* the ids of the graph's nodes, for any number of graphs, registries and ids:
\* HistoryGraph::contains and contains_id agree.
THEOREM GraphsAgree == KeptSpec => []GraphsAgreeWithRegistry
<1>1. HistoryInv => GraphsAgreeWithRegistry
  BY DEF HistoryInv
<1>. QED BY <1>1, HistoryInvariant, PTL

\* A node whose `registry` field names a registry that exists has an id there,
\* so try_register_in refuses a node only for a registry that knows it.
THEOREM FieldsMeanRegistered == KeptSpec => []FieldMeansRegistered
<1>1. HistoryInv => FieldMeansRegistered
  BY DEF HistoryInv
<1>. QED BY <1>1, HistoryInvariant, PTL

-----------------------------------------------------------------------------
(* Nodes and their ids *)

\* HistoryGraph::get_node_id finds the nodes of the graph ...
LEMMA NodeIdFound ==
  ASSUME HistoryInv, NEW g \in Graphs, NEW id \in NodeId, ContainsId(g, id)
  PROVE  GetNodeId(g, GetNode(g, id)) = id /\ Contains(g, GetNode(g, id))
<1>1. GetId(graph_registry[g], GetNode(g, id)) = id /\ id # Null
  BY EntryRegistered, NullAssumption, ZenonT(30) DEF GetId
<1>. QED BY <1>1 DEF GetNodeId, Contains

\* ... and no others.
LEMMA FoundNode ==
  ASSUME HistoryInv, NEW g \in Graphs, graph_registry[g] \in Registries, NEW a \in Addr,
         Contains(g, a)
  PROVE  /\ GetNodeId(g, a) \in AllNodeIds(g) /\ GetNode(g, GetNodeId(g, a)) = a
         /\ a \in AllNodes(g)
<1>. DEFINE id == GetNodeId(g, a)
<1>1. id = ptr_to_id[graph_registry[g]][a] /\ id # Null /\ ContainsId(g, id)
  BY DEF Contains, GetNodeId, GetId
<1>2. id \in NodeId
  BY <1>1 DEF HistoryInv, SharedInv, GraphTypeOK, TypeOK, RegistryTypeOK
<1>. HIDE DEF id
<1>3. nodes[graph_registry[g]][id] = a
  BY <1>1, <1>2 DEF HistoryInv, SharedInv, HeapInv, RegistryInv, MapsInverse
<1>4. GetNode(g, id) = a
  BY <1>1, <1>2, <1>3, EntryRegistered, ZenonT(30)
<1>. QED BY <1>1, <1>2, <1>4, ZenonT(30) DEF AllNodeIds, AllNodes, id

-----------------------------------------------------------------------------
(* Edges from either end *)

\* An edge of the graph is reported from either end.
LEMMA EdgeReported ==
  ASSUME HistoryInv, NEW g \in Graphs, NEW e \in EdgeId, ContainsEdge(g, e)
  PROVE  /\ Source(g, e) \in AllNodeIds(g) /\ Target(g, e) = e.target
         /\ e.target \in AllNodeIds(g)
         /\ e \in IncomingEdges(g, e.target) /\ e \in EdgeReferences(g)
         /\ e \in OutgoingEdges(g, Source(g, e))
<1>. DEFINE c == GetNode(g, e.target)
            p == incoming[c][e.index]
<1>0. e.target \in NodeId /\ e = [target |-> e.target, index |-> e.index]
  BY DEF EdgeId
<1>1. ContainsId(g, e.target) /\ e.index \in DOMAIN incoming[c] /\ Contains(g, p)
  BY DEF ContainsEdge
<1>2. c \in live /\ c \in Addr /\ graph_registry[g] \in Registries
  BY <1>0, <1>1, EntryRegistered, ZenonT(30)
<1>3. p \in Addr
  BY <1>1, <1>2 DEF HistoryInv, SharedInv, GraphTypeOK, TypeOK
<1>4. Source(g, e) = GetNodeId(g, p) /\ Target(g, e) = e.target
  BY DEF Source, Target
<1>5. Source(g, e) \in AllNodeIds(g) /\ GetNode(g, Source(g, e)) = p
  BY <1>1, <1>2, <1>3, <1>4, FoundNode
<1>6. e.target \in AllNodeIds(g) /\ e \in IncomingEdges(g, e.target) /\ e \in EdgeReferences(g)
  BY <1>0, <1>1 DEF AllNodeIds, IncomingEdges, EdgeReferences
<1>7. GetNodeId(g, c) = e.target /\ Contains(g, c)
  BY <1>0, <1>1, NodeIdFound, Zenon
<1>8. [target |-> c, index |-> e.index] \in outgoing[p]
  BY <1>1, <1>2 DEF HistoryInv, SharedInv, HeapInv, GraphInv, EdgesAgree
<1>9. e \in OutgoingEdges(g, Source(g, e))
  <2>. DEFINE w == [target |-> c, index |-> e.index]
  <2>1. w \in Retained(GetNode(g, Source(g, e))) /\ w.target = c /\ w.index = e.index
    BY <1>2, <1>5, <1>8 DEF Retained
  <2>2. e = [target |-> GetNodeId(g, w.target), index |-> w.index]
    BY <1>0, <1>7, <2>1
  <2>. HIDE DEF w, c
  <2>. QED BY <1>7, <2>1, <2>2, Zenon DEF OutgoingEdges
<1>. QED BY <1>4, <1>5, <1>6, <1>9

\* What HistoryGraph::outgoing_edges reports is an edge from the node.
LEMMA OutgoingEdge ==
  ASSUME HistoryInv, NEW g \in Graphs, NEW id \in AllNodeIds(g), NEW e \in OutgoingEdges(g, id)
  PROVE  e \in EdgeId /\ ContainsEdge(g, e) /\ Source(g, e) = id
<1>0. id \in NodeId /\ ContainsId(g, id)
  BY DEF AllNodeIds
<1>1. PICK w \in Retained(GetNode(g, id)) :
        Contains(g, w.target) /\ e = [target |-> GetNodeId(g, w.target), index |-> w.index]
  BY DEF OutgoingEdges
<1>2. GetNode(g, id) \in Addr /\ graph_registry[g] \in Registries
  BY <1>0, EntryRegistered, ZenonT(30)
<1>3. /\ w \in outgoing[GetNode(g, id)] /\ w.target \in live /\ w.target \in Addr
      /\ w.index \in 1 .. MaxParents
  BY <1>1, <1>2 DEF Retained, HistoryInv, SharedInv, GraphTypeOK, TypeOK, WeakEdge
<1>4. w.index \in DOMAIN incoming[w.target] /\ incoming[w.target][w.index] = GetNode(g, id)
  BY <1>2, <1>3 DEF HistoryInv, SharedInv, HeapInv, GraphInv, EdgesAgree
<1>5. e.target \in NodeId /\ ContainsId(g, e.target) /\ GetNode(g, e.target) = w.target
      /\ e.index = w.index
  BY <1>1, <1>2, <1>3, FoundNode, Zenon DEF AllNodeIds
<1>6. e \in EdgeId
  BY <1>1, <1>3, <1>5 DEF EdgeId
<1>7. GetNodeId(g, GetNode(g, id)) = id /\ Contains(g, GetNode(g, id))
  BY <1>0, NodeIdFound, Zenon
<1>8. ContainsEdge(g, e) /\ Source(g, e) = id
  BY <1>4, <1>5, <1>7 DEF ContainsEdge, Source
<1>. QED BY <1>6, <1>8

\* The two directions in which petgraph walks a history graph agree, and
\* neither neighbors_directed nor EdgeRef panics, for histories of any shape and
\* graphs that hold any part of them.
THEOREM WalksAgree == KeptSpec => []DirectionsAgree
<1>1. HistoryInv => DirectionsAgree
  <2>. SUFFICES ASSUME HistoryInv, NEW g \in Graphs, NEW id \in AllNodeIds(g)
                PROVE  /\ \A d \in Direction : \A e \in EdgesDirected(g, id, d) :
                            /\ {Source(g, e), Target(g, e)} \subseteq AllNodeIds(g)
                            /\ e \in EdgeReferences(g)
                            /\ e \in EdgesDirected(g, Source(g, e), "outgoing")
                       /\ \A j \in AllNodeIds(g) :
                            j \in NeighborsDirected(g, id, "outgoing") <=>
                              id \in NeighborsDirected(g, j, "incoming")
    BY DEF DirectionsAgree
  <2>1. ASSUME NEW d \in Direction, NEW e \in EdgesDirected(g, id, d)
        PROVE  e \in EdgeId /\ ContainsEdge(g, e)
    BY OutgoingEdge DEF EdgesDirected, IncomingEdges
  <2>2. \A q : EdgesDirected(g, q, "outgoing") = OutgoingEdges(g, q)
    BY DEF EdgesDirected
  <2>3. ASSUME NEW d \in Direction, NEW e \in EdgesDirected(g, id, d)
        PROVE  /\ {Source(g, e), Target(g, e)} \subseteq AllNodeIds(g)
               /\ e \in EdgeReferences(g)
               /\ e \in EdgesDirected(g, Source(g, e), "outgoing")
    BY <2>1, <2>2, EdgeReported, Zenon
  <2>4. ASSUME NEW j \in AllNodeIds(g)
        PROVE  j \in NeighborsDirected(g, id, "outgoing") <=> id \in NeighborsDirected(g, j, "incoming")
    <3>1. j \in NeighborsDirected(g, id, "outgoing") <=> \E e \in OutgoingEdges(g, id) : j = e.target
      BY DEF NeighborsDirected, EdgesDirected
    <3>2. id \in NeighborsDirected(g, j, "incoming") <=> \E e \in IncomingEdges(g, j) : id = Source(g, e)
      BY DEF NeighborsDirected, EdgesDirected
    <3>3. ASSUME NEW e \in OutgoingEdges(g, id), j = e.target
          PROVE  e \in IncomingEdges(g, j) /\ id = Source(g, e)
      BY <3>3, OutgoingEdge, EdgeReported, Zenon
    <3>4. ASSUME NEW e \in IncomingEdges(g, j), id = Source(g, e)
          PROVE  e \in OutgoingEdges(g, id) /\ j = e.target
      BY <3>4, EdgeReported, Zenon DEF IncomingEdges
    <3>. QED BY <3>1, <3>2, <3>3, <3>4
  <2>. QED BY <2>3, <2>4
<1>. QED BY <1>1, HistoryInvariant, PTL

-----------------------------------------------------------------------------
(* The invariant of graphs filled by insert_ancestors *)

\* With the nodes N in the graph, the node of the i-th activation has each of
\* its parents in the graph, on the way into it, or yet to be looked at.
Waiting(F, N, i) ==
  \A p \in Parents(F[i].node) :
    p \in N \/ p \in Range(F[i].todo) \/ (i > 1 /\ p = F[i - 1].node)

\* AncestorClosed, for graphs filled by insert_ancestors, amid an insertion.
ClosedOK(g) ==
  /\ call[g].op # "insert_node"
  /\ call[g].op # "drop" =>
       \A id \in AllNodeIds(g) : Parents(GetNode(g, id)) \subseteq AllNodes(g)
  /\ \A i \in DOMAIN call[g].frames : Waiting(call[g].frames, AllNodes(g), i)

ClosedInv == \A g \in Graphs : ClosedOK(g)

-----------------------------------------------------------------------------
(* What each step does to it *)

\* A graph whose entries and call a step leaves alone.
LEMMA ClosedKept ==
  ASSUME HistoryInv, HeapKept, NEW s \in Graphs, ClosedOK(s), call'[s] = call[s],
         \A id \in NodeId : ptr'[<<s, id>>] = ptr[<<s, id>>]
  PROVE  ClosedOK(s)'
<1>1. /\ \A id \in NodeId : GetNode(s, id)' = GetNode(s, id)
      /\ AllNodeIds(s)' = AllNodeIds(s) /\ AllNodes(s)' = AllNodes(s)
  BY ZenonT(30) DEF GetNode, AllNodeIds, AllNodes, ContainsId
<1>2. \A i \in DOMAIN call[s].frames : Waiting(call[s].frames, AllNodes(s), i)'
  <2>. TAKE i \in DOMAIN call[s].frames
  <2>1. Waiting(call[s].frames, AllNodes(s), i)
    BY DEF ClosedOK
  <2>2. incoming'[call[s].frames[i].node] = incoming[call[s].frames[i].node]
    BY FrameNodesKept, ZenonT(30) DEF HistoryInv
  <2>. QED BY <1>1, <2>1, <2>2, Zenon DEF Waiting, Parents
<1>3. ASSUME NEW id \in AllNodeIds(s)
      PROVE  incoming'[GetNode(s, id)] = incoming[GetNode(s, id)]
  <2>1. /\ id \in NodeId /\ ContainsId(s, id) /\ <<s, id>> \in Handle
        /\ GetNode(s, id) \in live /\ ptr[<<s, id>>] = GetNode(s, id)
    BY EntryRegistered, Zenon DEF AllNodeIds, GetNode
  <2>2. Owned(GetNode(s, id))
    BY <2>1, Zenon DEF Owned
  <2>. QED BY <2>1, <2>2, Zenon DEF HeapKept
<1>4. \A id \in AllNodeIds(s) : Parents(GetNode(s, id))' = Parents(GetNode(s, id))
  BY <1>1, <1>3, Zenon DEF Parents, AllNodeIds
<1>. QED BY <1>1, <1>2, <1>4 DEF ClosedOK

\* Nothing is asked of a graph without nodes or that is being dropped.
LEMMA ClosedWithout ==
  ASSUME NEW g \in Graphs, call'[g].frames = <<>>, call'[g].op # "insert_node",
         call'[g].op = "drop" \/ AllNodeIds(g)' = {}
  PROVE  ClosedOK(g)'
<1>1. DOMAIN call'[g].frames = {}
  OBVIOUS
<1>. QED BY <1>1 DEF ClosedOK

\* An activation ends when its node is in the graph.
LEMMA PopWaiting ==
  ASSUME NEW F \in Seq(Frame), F # <<>>, NEW N, NEW M, N \subseteq M, F[1].node \in M,
         \A i \in DOMAIN F : Waiting(F, N, i)
  PROVE  \A i \in DOMAIN Tail(F) : Waiting(Tail(F), M, i)
<1>. DEFINE T == Tail(F)
<1>1. /\ T \in Seq(Frame) /\ Len(F) = Len(T) + 1 /\ Len(T) \in Nat
      /\ DOMAIN T = 1 .. Len(T) /\ DOMAIN F = 1 .. Len(F)
      /\ \A i \in 1 .. Len(T) : T[i] = F[i + 1]
  BY Popped
<1>. HIDE DEF T
<1>2. ASSUME NEW j \in DOMAIN T PROVE Waiting(T, M, j)
  <2>0. j \in Nat /\ j >= 1 /\ (j + 1) - 1 = j
    BY <1>1
  <2>1. j + 1 \in DOMAIN F /\ T[j] = F[j + 1] /\ Waiting(F, N, j + 1)
    BY <1>1
  <2>2. j > 1 => T[j - 1] = F[j]
    <3>1. j > 1 => j - 1 \in 1 .. Len(T) /\ (j - 1) + 1 = j
      BY <1>1
    <3>. QED BY <1>1, <3>1
  <2>3. ASSUME NEW p \in Parents(T[j].node)
        PROVE  p \in M \/ p \in Range(T[j].todo) \/ (j > 1 /\ p = T[j - 1].node)
    <3>1. p \in N \/ p \in Range(T[j].todo) \/ p = F[j].node
      BY <2>0, <2>1, Zenon DEF Waiting
    <3>2. CASE p = F[j].node
      <4>1. j = 1 \/ j > 1
        BY <2>0
      <4>. QED BY <2>2, <3>2, <4>1, Zenon
    <3>. QED BY <3>1, <3>2
  <2>. QED BY <2>3 DEF Waiting
<1>. QED BY <1>2 DEF T

\* The loop of insert_ancestors: the parent is in the graph, or it is inserted.
LEMMA VisitWaiting ==
  ASSUME NEW F \in Seq(Frame), F # <<>>, NEW N, \A i \in DOMAIN F : Waiting(F, N, i),
         NEW next \in Frame, NEW p, next.node = F[1].node,
         Range(F[1].todo) = Range(next.todo) \cup {p}
  PROVE  LET rest == <<next>> \o Tail(F) IN
         /\ rest \in Seq(Frame)
         /\ p \in N => \A i \in DOMAIN rest : Waiting(rest, N, i)
         /\ \A x \in Frame : x.node = p /\ Range(x.todo) = Parents(p) =>
              \A i \in DOMAIN (<<x>> \o rest) : Waiting(<<x>> \o rest, N, i)
<1>. DEFINE rest == <<next>> \o Tail(F)
<1>1. /\ Tail(F) \in Seq(Frame) /\ Len(F) = Len(Tail(F)) + 1 /\ Len(Tail(F)) \in Nat
      /\ DOMAIN F = 1 .. Len(F)
      /\ \A i \in 1 .. Len(Tail(F)) : Tail(F)[i] = F[i + 1]
  BY Popped
<1>2. /\ rest \in Seq(Frame) /\ Len(rest) = Len(Tail(F)) + 1 /\ DOMAIN rest = 1 .. Len(Tail(F)) + 1
      /\ rest[1] = next /\ \A i \in 1 .. Len(Tail(F)) : rest[i + 1] = Tail(F)[i]
  BY <1>1, Pushed
<1>3. DOMAIN rest = DOMAIN F /\ Len(rest) = Len(F) /\ Len(F) \in Nat
  BY <1>1, <1>2
<1>. HIDE DEF rest
<1>4. ASSUME NEW i \in DOMAIN F PROVE i = 1 \/ (i > 1 /\ i - 1 \in DOMAIN F /\ rest[i] = F[i])
  <2>1. CASE i > 1
    <3>1. i - 1 \in 1 .. Len(Tail(F)) /\ (i - 1) + 1 = i /\ i - 1 \in DOMAIN F
      BY <1>1, <2>1
    <3>. QED BY <1>1, <1>2, <2>1, <3>1
  <2>. QED BY <1>1, <2>1
<1>5. \A i \in DOMAIN F : rest[i].node = F[i].node
  BY <1>2, <1>4
<1>6. ASSUME NEW i \in DOMAIN F, i > 1 PROVE Waiting(rest, N, i)
  <2>1. Waiting(F, N, i) /\ rest[i] = F[i] /\ rest[i - 1].node = F[i - 1].node
    BY <1>1, <1>4, <1>5, <1>6
  <2>. QED BY <2>1, Zenon DEF Waiting
<1>7. 1 \in DOMAIN F /\ Waiting(F, N, 1)
  BY <1>1
<1>8. \A q \in Parents(next.node) : q \in N \/ q \in Range(next.todo) \/ q = p
  BY <1>7 DEF Waiting
<1>9. p \in N => \A i \in DOMAIN rest : Waiting(rest, N, i)
  <2>. SUFFICES ASSUME p \in N PROVE Waiting(rest, N, 1)
    BY <1>3, <1>4, <1>6
  <2>. QED BY <1>2, <1>8 DEF Waiting
<1>10. ASSUME NEW x \in Frame, x.node = p, Range(x.todo) = Parents(p)
       PROVE  \A i \in DOMAIN (<<x>> \o rest) : Waiting(<<x>> \o rest, N, i)
  <2>. DEFINE T == <<x>> \o rest
  <2>1. /\ DOMAIN T = 1 .. Len(F) + 1 /\ T[1] = x
        /\ \A i \in 1 .. Len(F) : T[i + 1] = rest[i]
    BY <1>2, <1>3, Pushed
  <2>. HIDE DEF T
  <2>2. Waiting(T, N, 1)
    BY <1>10, <2>1 DEF Waiting
  <2>3. ASSUME NEW j \in DOMAIN F PROVE Waiting(T, N, j + 1)
    <3>0. j \in 1 .. Len(F) /\ (j + 1) - 1 = j /\ j + 1 > 1
      BY <1>1
    <3>1. T[j + 1] = rest[j]
      BY <2>1, <3>0
    <3>2. CASE j = 1
      <4>1. T[j + 1] = next /\ T[j].node = p
        BY <1>2, <1>10, <2>1, <3>1, <3>2
      <4>2. T[(j + 1) - 1].node = p
        BY <3>0, <4>1
      <4>. QED BY <1>8, <3>0, <4>1, <4>2, Zenon DEF Waiting
    <3>3. CASE j # 1
      <4>0. j > 1 /\ j - 1 \in 1 .. Len(F) /\ (j - 1) + 1 = j
        BY <1>3, <3>0, <3>3
      <4>1. Waiting(rest, N, j)
        BY <1>6, <4>0
      <4>2. T[j] = rest[j - 1]
        BY <2>1, <4>0
      <4>3. T[(j + 1) - 1] = rest[j - 1]
        BY <3>0, <4>2
      <4>. QED BY <3>0, <3>1, <4>1, <4>3, Zenon DEF Waiting
    <3>. QED BY <3>2, <3>3
  <2>4. \A i \in DOMAIN T : i = 1 \/ (i - 1 \in DOMAIN F /\ i = (i - 1) + 1)
    BY <1>1, <2>1
  <2>5. \A i \in DOMAIN T : Waiting(T, N, i)
    BY <2>2, <2>3, <2>4
  <2>. QED BY <2>5, Zenon DEF T
<1>. QED BY <1>2, <1>9, <1>10 DEF rest

\* What happens beside the graphs leaves their entries alone.
LEMMA BesideEntries ==
  ASSUME HistoryInv, UseBeside \/ Drops \/ UNCHANGED historyVars
  PROVE  /\ UNCHANGED call
         /\ \A g \in Graphs, id \in NodeId : ptr'[<<g, id>>] = ptr[<<g, id>>]
<1>0. TypeOK /\ Own \in SUBSET Handle
  BY DEF HistoryInv, SharedInv, GraphTypeOK, Own, User
<1>1. \A g \in Graphs, id \in NodeId : <<g, id>> \in Handle \ Own
  BY EntryAssumption DEF Entry, User, Own
<1>2. CASE UseBeside
  <2>1. CASE UseNodes(Own) \/ UseRegistries(Own)
    BY <1>0, <1>1, <1>2, <2>1, OwnSlots, Zenon DEF UseBeside, graphVars
  <2>2. CASE \E r \in Registries : DropRegistry(r)
    BY <1>2, <2>2, ZenonT(30) DEF DropRegistry, heapVars, UseBeside, graphVars
  <2>. QED BY <1>2, <2>1, <2>2, Zenon DEF UseBeside
<1>3. CASE Drops
  BY <1>3, Zenon DEF Drops, graphVars, DropShared, DropLast, DropFields, DropNextEdge, DropOutgoing
<1>4. CASE UNCHANGED historyVars
  BY <1>4, Zenon DEF historyVars, graphVars, vars, heapVars
<1>. QED BY <1>2, <1>3, <1>4, ZenonT(30)

\* A step on one graph leaves the others as they are.
LEMMA OthersClosed ==
  ASSUME HistoryInv, ClosedInv, HeapKept, NEW g \in Graphs, ClosedOK(g)',
         \A s \in Graphs \ {g} :
           call'[s] = call[s] /\ \A id \in NodeId : ptr'[<<s, id>>] = ptr[<<s, id>>]
  PROVE  ClosedInv'
<1>1. \A s \in Graphs \ {g} : ClosedOK(s)'
  BY ClosedKept DEF ClosedInv
<1>. QED BY <1>1 DEF ClosedInv

\* Steps of a call that leave the heap alone.
LEMMA CallAloneClosed ==
  ASSUME HistoryInv, ClosedInv, HeapKept, NEW g \in Graphs, NEW c \in CallType,
         call' = [call EXCEPT ![g] = c], UNCHANGED vars,
         c.op # "insert_node", c.op = "drop" \/ call[g].op # "drop",
         \A i \in DOMAIN c.frames : Waiting(c.frames, AllNodes(g), i)
  PROVE  ClosedInv'
<1>2. UNCHANGED <<ptr, incoming>>
  BY DEF vars, heapVars
<1>3. call'[g] = c /\ \A s \in Graphs \ {g} : call'[s] = call[s]
  BY Zenon DEF HistoryInv, SharedInv, GraphTypeOK
<1>4. /\ AllNodeIds(g)' = AllNodeIds(g) /\ AllNodes(g)' = AllNodes(g)
      /\ \A id \in NodeId : Parents(GetNode(g, id))' = Parents(GetNode(g, id))
  BY <1>2, Zenon DEF AllNodeIds, AllNodes, GetNode, ContainsId, Parents
<1>5. \A i \in DOMAIN c.frames : Waiting(c.frames, AllNodes(g), i)'
  BY <1>2, <1>4, Zenon DEF Waiting, Parents
<1>6. c.op # "drop" => \A id \in AllNodeIds(g) : Parents(GetNode(g, id)) \subseteq AllNodes(g)
  BY DEF ClosedInv, ClosedOK
<1>7. ClosedOK(g)'
  <2>1. \A i \in DOMAIN call'[g].frames : Waiting(call[g].frames, AllNodes(g), i)'
    BY <1>3, <1>5, Zenon DEF Waiting
  <2>2. call'[g].op # "drop" =>
          \A id \in AllNodeIds(g)' : Parents(GetNode(g, id))' \subseteq AllNodes(g)'
    BY <1>3, <1>4, <1>6 DEF AllNodeIds
  <2>. QED BY <1>3, <2>1, <2>2, Zenon DEF ClosedOK
<1>. QED BY <1>2, <1>3, <1>7, OthersClosed, ZenonT(30)

\* Calls begin and return.
LEMMA BeginClosed ==
  ASSUME HistoryInv, ClosedInv, HeapKept, NEW g \in Graphs,
         (\E h \in Own : InsertAncestors(g, h)) \/ DropGraph(g) \/ Return(g)
  PROVE  ClosedInv'
<1>0. TypeOK /\ Len(teardown) \in Nat /\ \A h \in Own : h \in User /\ h \in Handle
  BY DEF HistoryInv, SharedInv, GraphTypeOK, TypeOK, Own, User
<1>1. ASSUME NEW h \in Own, InsertAncestors(g, h) PROVE ClosedInv'
  <2>. DEFINE x == [node |-> ptr[h], todo |-> incoming[ptr[h]]]
              d == [op |-> "insert_ancestors", arg |-> h, depth |-> Len(teardown), frames |-> <<x>>]
  <2>1. /\ call' = [call EXCEPT ![g] = d] /\ UNCHANGED vars /\ call[g].op = "none" /\ ptr[h] # Null
    BY <1>1, Zenon DEF InsertAncestors, Begin, Usable, Busy
  <2>2. ptr[h] \in Addr /\ incoming[ptr[h]] \in Seq(Addr)
    BY <1>0, <2>1, HeldLive, ZenonT(30) DEF HistoryInv, SharedInv, HeapInv, TypeOK
  <2>3. x \in Frame /\ d \in CallType
    <3>1. x \in Frame
      BY <2>2, Zenon DEF Frame
    <3>2. <<x>> \in Seq(Frame)
      <4>. HIDE DEF x
      <4>. QED BY <3>1
    <3>3. h \in User /\ Len(teardown) \in Nat
      BY <1>0, Zenon
    <3>. HIDE DEF x
    <3>. QED BY <3>1, <3>2, <3>3 DEF CallType
  <2>4. Waiting(<<x>>, AllNodes(g), 1)
    BY ZenonT(30) DEF Waiting, Parents
  <2>5. d.op = "insert_ancestors" /\ d.frames = <<x>>
    BY Zenon
  <2>. HIDE DEF d, x
  <2>0. DOMAIN <<x>> = {1}
    OBVIOUS
  <2>6. \A i \in DOMAIN d.frames : Waiting(d.frames, AllNodes(g), i)
    BY <2>0, <2>4, <2>5, Zenon
  <2>. QED BY <2>1, <2>3, <2>5, <2>6, CallAloneClosed, ZenonT(30)
<1>2. CASE DropGraph(g)
  <2>. DEFINE d == [op |-> "drop", arg |-> Null, depth |-> Len(teardown), frames |-> <<>>]
  <2>1. call' = [call EXCEPT ![g] = d] /\ UNCHANGED vars
    BY <1>2, ZenonT(30) DEF DropGraph, Begin
  <2>2. d \in CallType /\ d.op = "drop" /\ DOMAIN d.frames = {}
    <3>1. <<>> \in Seq(Frame) /\ DOMAIN <<>> = {}
      OBVIOUS
    <3>. QED BY <1>0, <3>1, Zenon DEF CallType
  <2>. HIDE DEF d
  <2>. QED BY <2>1, <2>2, CallAloneClosed, ZenonT(30)
<1>3. CASE Return(g)
  <2>1. NoCall \in CallType /\ NoCall.op = "none" /\ DOMAIN NoCall.frames = {}
    BY DEF NoCall, CallType
  <2>2. call' = [call EXCEPT ![g] = NoCall] /\ UNCHANGED vars /\ call[g].op # "drop"
    BY <1>3, Zenon DEF Return
  <2>. QED BY <2>1, <2>2, CallAloneClosed, ZenonT(30)
<1>. QED BY <1>1, <1>2, <1>3, ZenonT(30)

\* The loop of insert_ancestors, and insert_node of a node that is there.
LEMMA VisitClosed ==
  ASSUME HistoryInv, ClosedInv, HeapKept, NEW g \in Graphs, Inserting(g), call[g].frames # <<>>,
         VisitParent(g) \/ FindNode(g)
  PROVE  ClosedInv'
<1>. DEFINE F == call[g].frames
            N == AllNodes(g)
            f == Head(F)
            p == Head(f.todo)
            next == [f EXCEPT !.todo = Tail(@)]
            rest == <<next>> \o Tail(F)
            x == [node |-> p, todo |-> incoming[p]]
<1>0. /\ F \in Seq(Frame) /\ F # <<>> /\ Tail(F) \in Seq(Frame) /\ F[1] = f
      /\ \A i \in DOMAIN F : Waiting(F, N, i)
      /\ call \in [Graphs -> CallType] /\ incoming \in [Addr -> Seq(Addr)]
  <2>1. F \in Seq(Frame) /\ \A i \in DOMAIN F : Waiting(F, N, i)
    BY Zenon DEF HistoryInv, SharedInv, GraphTypeOK, ClosedInv, ClosedOK
  <2>2. call \in [Graphs -> CallType] /\ incoming \in [Addr -> Seq(Addr)]
    BY Zenon DEF HistoryInv, SharedInv, GraphTypeOK, TypeOK, CallType
  <2>3. Tail(F) \in Seq(Frame) /\ F[1] = f
    BY <2>1, Popped, Zenon
  <2>. QED BY <2>1, <2>2, <2>3, Zenon
<1>1. /\ f \in Frame /\ f.node \in Addr /\ f.todo \in Seq(Addr)
      /\ graph_registry[g] \in Registries
  BY FirstFrame, Zenon DEF HistoryInv
<1>2. ASSUME NEW T \in Seq(Frame), \A i \in DOMAIN T : Waiting(T, N, i),
             call' = [call EXCEPT ![g].frames = T], UNCHANGED vars
      PROVE  ClosedInv'
  <2>. DEFINE d == [call[g] EXCEPT !.frames = T]
  <2>1. /\ d \in CallType /\ d.op = call[g].op /\ d.frames = T
        /\ call' = [call EXCEPT ![g] = d]
    BY <1>0, <1>2, Zenon DEF CallType
  <2>2. d.op # "insert_node" /\ call[g].op # "drop"
    BY <2>1 DEF ClosedInv, ClosedOK, Inserting
  <2>. HIDE DEF d, N
  <2>3. \A i \in DOMAIN d.frames : Waiting(d.frames, N, i)
    BY <1>2, <2>1
  <2>. QED BY <1>2, <2>1, <2>2, <2>3, CallAloneClosed, Zenon DEF N
<1>3. CASE FindNode(g)
  <2>1. call' = [call EXCEPT ![g].frames = Tail(F)] /\ UNCHANGED vars /\ Contains(g, f.node)
    BY <1>3, Zenon DEF FindNode
  <2>2. F[1].node \in N
    BY <1>0, <1>1, <2>1, FoundNode
  <2>3. \A i \in DOMAIN Tail(F) : Waiting(Tail(F), N, i)
    <3>. HIDE DEF F, N
    <3>. QED BY <1>0, <2>2, PopWaiting, ZenonT(30)
  <2>. QED BY <1>0, <1>2, <2>1, <2>3, ZenonT(30)
<1>4. CASE VisitParent(g)
  <2>1. f.todo # <<>> /\ UNCHANGED vars
        /\ call' = [call EXCEPT ![g].frames = IF Contains(g, p) THEN rest ELSE <<x>> \o rest]
    BY <1>4, Zenon DEF VisitParent
  <2>2. /\ p \in Addr /\ Tail(f.todo) \in Seq(Addr)
        /\ Range(f.todo) = Range(Tail(f.todo)) \cup {p}
    BY <1>1, <2>1, TailElements, Zenon
  <2>3. next \in Frame /\ next.node = F[1].node /\ Range(F[1].todo) = Range(next.todo) \cup {p}
    BY <1>0, <1>1, <2>2, ZenonT(30) DEF Frame
  <2>4. x \in Frame /\ x.node = p /\ Range(x.todo) = Parents(p)
    BY <1>0, <2>2, Zenon DEF Frame, Parents
  <2>5. /\ rest \in Seq(Frame)
        /\ p \in N => \A i \in DOMAIN rest : Waiting(rest, N, i)
        /\ \A i \in DOMAIN (<<x>> \o rest) : Waiting(<<x>> \o rest, N, i)
    <3>. HIDE DEF F, N, next, p, x
    <3>. QED BY <1>0, <2>3, <2>4, VisitWaiting, ZenonT(30)
  <2>6. <<x>> \o rest \in Seq(Frame)
    <3>. HIDE DEF rest, x
    <3>. QED BY <2>4, <2>5, Pushed, ZenonT(30)
  <2>7. Contains(g, p) => p \in N
    BY <1>1, <2>2, FoundNode, ZenonT(30)
  <2>8. CASE Contains(g, p)
    <3>1. call' = [call EXCEPT ![g].frames = rest]
      BY <2>1, <2>8, Zenon
    <3>. HIDE DEF rest
    <3>. QED BY <1>2, <2>1, <2>5, <2>7, <2>8, <3>1, ZenonT(30)
  <2>9. CASE ~Contains(g, p)
    <3>1. call' = [call EXCEPT ![g].frames = <<x>> \o rest]
      BY <2>1, <2>9, Zenon
    <3>. HIDE DEF rest, x
    <3>. QED BY <1>2, <2>1, <2>5, <2>6, <3>1, ZenonT(30)
  <2>. QED BY <2>8, <2>9, Zenon
<1>. QED BY <1>3, <1>4, ZenonT(30)

\* The slot of the id that a new node gets is free in the graph: the registry
\* knows the graph's nodes, and of the ids it knows no two have the same slot.
LEMMA NothingEvicted ==
  ASSUME HistoryInv, Running, NEW g \in Graphs, call[g].frames # <<>>, StoreNode(g)
  PROVE  \E id \in NodeId :
           /\ ptr[<<g, id>>] = Null /\ ptr'[<<g, id>>] = Head(call[g].frames).node
           /\ \A h \in Handle : h # <<g, id>> => ptr'[h] = ptr[h]
<1>. DEFINE a == Head(call[g].frames).node
            r == graph_registry[g]
<1>0. SharedInv /\ HeapKept
  BY StoreKeepsHeap, Zenon DEF HistoryInv
<1>1. PICK id \in NodeId :
        /\ ptr[<<g, id>>] = Null /\ ptr'[<<g, id>>] = a /\ ptr_to_id'[r][a] = id
        /\ \A h \in Handle : h # <<g, id>> =>
             ptr'[h] = ptr[h] \/ (ptr'[h] = Null /\ \E k \in Evicted(g, id) : h = <<g, k>>)
  BY <1>0, StoreKeepsHeap, ZenonT(30)
<1>2. a \in Addr /\ r \in Registries
  BY <1>0, FirstFrame, Zenon
<1>3. RegistryInv' /\ SlotInv'
  BY <1>0, Zenon DEF HeapKept, HeapInv
<1>. HIDE DEF a, r
<1>4. nodes'[r][id] # Null
  <2>1. a # Null
    BY <1>2, NullAssumption, Zenon
  <2>2. ptr_to_id'[r][a] = id /\ id \in NodeId
    BY <1>1, Zenon
  <2>3. MapsInverse'
    BY <1>3, Zenon DEF RegistryInv
  <2>4. nodes'[r][id] = a
    BY <1>2, <2>2, <2>3 DEF MapsInverse
  <2>. QED BY <2>1, <2>4, Zenon
<1>5. ASSUME NEW k \in Evicted(g, id) PROVE FALSE
  <2>1. k \in NodeId /\ k # id /\ Slot(k) = Slot(id) /\ ContainsId(g, k)
    BY DEF Evicted
  <2>2. GetNode(g, k) \in Addr /\ ptr_to_id[r][GetNode(g, k)] = k /\ k # Null
    BY <2>1, EntryRegistered, NullAssumption, Zenon DEF r
  <2>3. ptr_to_id'[r][GetNode(g, k)] = k
    BY <1>0, <1>2, <2>2, StoreKeepsIds, ZenonT(30)
  <2>4. nodes'[r][k] = GetNode(g, k)
    BY <1>2, <1>3, <2>1, <2>2, <2>3, ZenonT(30) DEF RegistryInv, MapsInverse
  <2>5. nodes'[r][k] # Null
    BY <2>2, <2>4, NullAssumption
  <2>. QED BY <1>2, <1>3, <1>4, <2>1, <2>5, ZenonT(30) DEF SlotInv
<1>. QED BY <1>1, <1>5, Zenon DEF a

\* insert_node of a new node, whose parents are all in the graph.
LEMMA StoreClosed ==
  ASSUME HistoryInv, ClosedInv, HeapKept, Running, NEW g \in Graphs, Inserting(g), call[g].frames # <<>>, StoreNode(g)
  PROVE  ClosedInv'
<1>. DEFINE F == call[g].frames
            n == Head(F).node
            N == AllNodes(g)
            M == N \cup {n}
<1>0. /\ F \in Seq(Frame) /\ F[1] = Head(F) /\ 1 \in DOMAIN F /\ ClosedOK(g)
      /\ call \in [Graphs -> CallType] /\ TypeOK
  BY DEF HistoryInv, SharedInv, GraphTypeOK, ClosedInv, CallType
<1>1. PICK id \in NodeId :
        /\ ptr[<<g, id>>] = Null /\ ptr'[<<g, id>>] = n
        /\ \A h \in Handle : h # <<g, id>> => ptr'[h] = ptr[h]
  BY NothingEvicted, Zenon
<1>2. /\ Head(F).todo = <<>> /\ UNCHANGED <<incoming, live>> /\ n \in Addr
      /\ call'[g].frames = Tail(F) /\ call'[g].op = call[g].op
      /\ \A s \in Graphs \ {g} : call'[s] = call[s]
  BY <1>0, FirstFrame, ZenonT(30) DEF StoreNode, CallType, HistoryInv
<1>3. /\ ptr'[<<g, id>>] = n /\ \A s \in Graphs, k \in NodeId :
           <<s, k>> # <<g, id>> => ptr'[<<s, k>>] = ptr[<<s, k>>]
  BY <1>1, EntryAssumption DEF Entry
<1>4. /\ AllNodeIds(g)' = AllNodeIds(g) \cup {id} /\ n # Null
      /\ \A k \in AllNodeIds(g) : GetNode(g, k)' = GetNode(g, k)
      /\ GetNode(g, id)' = n
  BY <1>1, <1>2, <1>3, NullAssumption, ZenonT(30) DEF AllNodeIds, ContainsId, GetNode
<1>5. AllNodes(g)' = M
  BY <1>4 DEF AllNodes
<1>6. \A i \in DOMAIN F : Waiting(F, N, i)
  BY <1>0, Zenon DEF ClosedOK
<1>7. Parents(n) \subseteq N
  <2>1. Range(F[1].todo) = {}
    BY <1>0, <1>2 DEF Range
  <2>2. Waiting(F, N, 1)
    BY <1>0, <1>6
  <2>. QED BY <1>0, <2>1, <2>2 DEF Waiting
<1>8. \A i \in DOMAIN Tail(F) : Waiting(Tail(F), M, i)
  <2>1. F[1].node \in M
    BY <1>0
  <2>. HIDE DEF F, N, M
  <2>2. N \subseteq M
    BY Zenon DEF M
  <2>. QED BY <1>0, <1>6, <2>1, <2>2, PopWaiting, ZenonT(30) DEF F
<1>9. \A i \in DOMAIN call'[g].frames : Waiting(call[g].frames, AllNodes(g), i)'
  BY <1>2, <1>5, <1>8, ZenonT(30) DEF Waiting, Parents
<1>10. \A k \in AllNodeIds(g)' : Parents(GetNode(g, k))' \subseteq AllNodes(g)'
  <2>1. call[g].op # "drop"
    BY Zenon DEF Inserting
  <2>2. \A k \in AllNodeIds(g) : Parents(GetNode(g, k)) \subseteq N
    BY <1>0, <2>1, Zenon DEF ClosedOK
  <2>. QED BY <1>2, <1>4, <1>5, <1>7, <2>2, ZenonT(30) DEF Parents
<1>11. ClosedOK(g)'
  BY <1>0, <1>2, <1>9, <1>10, Zenon DEF ClosedOK
<1>. QED BY <1>2, <1>3, <1>11, OthersClosed, ZenonT(30)

\* insert_ancestors drops its argument, at the end or as it panics.
LEMMA DropArgClosed ==
  ASSUME HistoryInv, ClosedInv, HeapKept, NEW g \in Graphs, Inserting(g),
         \/ call[g].frames # <<>> /\ Refuse(g)
         \/ call[g].frames = <<>> /\ DropArg(g) /\ UNCHANGED call
  PROVE  ClosedInv'
<1>0. /\ call \in [Graphs -> CallType] /\ CallOK(g) /\ ClosedOK(g)
  BY DEF HistoryInv, SharedInv, GraphTypeOK, CallInv, CallType, ClosedInv
<1>1. call[g].arg \in User /\ call[g].arg \in Handle /\ DropHandle(call[g].arg)
  BY <1>0 DEF CallOK, User, Refuse, DropArg
<1>2. /\ call'[g].frames = <<>> /\ call'[g].op = call[g].op
      /\ \A s \in Graphs \ {g} : call'[s] = call[s]
  BY <1>0 DEF Refuse, CallType
<1>3. \A k \in Handle : ptr'[k] = IF k = call[g].arg THEN Null ELSE ptr[k]
  BY <1>1, DropKeeps, ZenonT(30) DEF HistoryInv
<1>4. \A s \in Graphs, k \in NodeId : ptr'[<<s, k>>] = ptr[<<s, k>>]
  BY <1>1, <1>3, EntryAssumption DEF Entry, User
<1>5. UNCHANGED incoming
  BY <1>1 DEF DropHandle
<1>6. /\ AllNodeIds(g)' = AllNodeIds(g) /\ AllNodes(g)' = AllNodes(g)
      /\ \A id \in NodeId : Parents(GetNode(g, id))' = Parents(GetNode(g, id))
  BY <1>4, <1>5, ZenonT(30) DEF AllNodeIds, AllNodes, GetNode, ContainsId, Parents
<1>7. DOMAIN call'[g].frames = {}
  BY <1>2
<1>8. \A id \in AllNodeIds(g)' : call'[g].op # "drop" => Parents(GetNode(g, id))' \subseteq AllNodes(g)'
  BY <1>0, <1>2, <1>6, ZenonT(30) DEF ClosedOK, AllNodeIds
<1>9. ClosedOK(g)'
  BY <1>0, <1>2, <1>7, <1>8, ZenonT(30) DEF ClosedOK
<1>. QED BY <1>2, <1>4, <1>9, OthersClosed, ZenonT(30)

\* Graphs are created, cloned and dropped.
LEMMA GraphsClosed ==
  ASSUME HistoryInv, ClosedInv, HeapKept, NEW g \in Graphs,
         \/ \E r \in Registries : WithRegistry(g, r)
         \/ \E s \in Graphs : CloneGraph(s, g)
         \/ DropEntry(g)
         \/ Running /\ Busy(g) /\ DropGraphRegistry(g)
  PROVE  ClosedInv'
<1>0. /\ call \in [Graphs -> CallType] /\ \A s \in Graphs : CallOK(s) /\ ClosedOK(s)
      /\ TypeOK
  BY DEF HistoryInv, SharedInv, GraphTypeOK, CallInv, CallType, ClosedInv
<1>1. CASE \E r \in Registries : WithRegistry(g, r)
  <2>1. UNCHANGED vars /\ UNCHANGED <<ptr, call>>
    BY <1>1 DEF WithRegistry, vars, heapVars
  <2>. QED BY <1>0, <2>1, ClosedKept, ZenonT(30) DEF ClosedInv
<1>2. ASSUME NEW s \in Graphs, CloneGraph(s, g) PROVE ClosedInv'
  <2>1. /\ UNCHANGED <<call, incoming>> /\ graph_registry[g] = Null /\ call[s].op = "none"
        /\ \A id \in NodeId : ptr'[<<g, id>>] = ptr[<<s, id>>]
        /\ \A h \in Handle : (\A id \in NodeId : h # <<g, id>>) => ptr'[h] = ptr[h]
    BY <1>2, CloneKeepsHeap, ZenonT(30) DEF CloneGraph, Usable, Busy, HistoryInv
  <2>2. \A q \in Graphs \ {g}, id \in NodeId : ptr'[<<q, id>>] = ptr[<<q, id>>]
    BY <2>1, EntryAssumption DEF Entry
  <2>3. /\ AllNodeIds(g)' = AllNodeIds(s) /\ AllNodes(g)' = AllNodes(s)
        /\ \A id \in NodeId : Parents(GetNode(g, id))' = Parents(GetNode(s, id))
    BY <2>1, Zenon DEF AllNodeIds, AllNodes, GetNode, ContainsId, Parents
  <2>4. call'[g].op = "none" /\ call'[g].frames = <<>>
    BY <2>1, NoGraph, ZenonT(30) DEF HistoryInv
  <2>5. DOMAIN call'[g].frames = {}
    BY <2>4
  <2>6. \A id \in AllNodeIds(g)' : Parents(GetNode(g, id))' \subseteq AllNodes(g)'
    BY <1>0, <2>1, <2>3, Zenon DEF ClosedOK, AllNodeIds
  <2>7. ClosedOK(g)'
    BY <2>4, <2>5, <2>6, Zenon DEF ClosedOK
  <2>. QED BY <2>1, <2>2, <2>7, OthersClosed
<1>3. CASE DropEntry(g)
  <2>1. PICK id \in NodeId : DropHandle(<<g, id>>) /\ UNCHANGED call /\ call[g].op = "drop"
    BY <1>3, ZenonT(30) DEF DropEntry, graphVars
  <2>2. \A k \in Handle : ptr'[k] = IF k = <<g, id>> THEN Null ELSE ptr[k]
    BY <2>1, DropKeeps, EntryAssumption DEF Entry, HistoryInv
  <2>3. \A s \in Graphs \ {g}, k \in NodeId : ptr'[<<s, k>>] = ptr[<<s, k>>]
    BY <2>2, EntryAssumption, Zenon DEF Entry
  <2>4. call[g].frames = <<>>
    BY <1>0, <2>1, Zenon DEF CallOK, Inserting
  <2>5. ClosedOK(g)'
    BY <2>1, <2>4, ClosedWithout, ZenonT(30)
  <2>. QED BY <2>1, <2>3, <2>5, OthersClosed, ZenonT(30)
<1>4. CASE Running /\ Busy(g) /\ DropGraphRegistry(g)
  <2>1. /\ call' = [call EXCEPT ![g] = NoCall] /\ AllNodeIds(g) = {} /\ UNCHANGED heapVars
    BY <1>4, ZenonT(30) DEF DropGraphRegistry
  <2>5. UNCHANGED ptr /\ call'[g] = NoCall /\ \A s \in Graphs \ {g} : call'[s] = call[s]
    BY <1>0, <2>1 DEF heapVars
  <2>6. NoCall.op = "none" /\ NoCall.frames = <<>>
    BY DEF NoCall
  <2>7. AllNodeIds(g)' = {}
    BY <2>1, <2>5, ZenonT(30) DEF AllNodeIds, ContainsId, GetNode
  <2>8. ClosedOK(g)'
    BY <2>5, <2>6, <2>7, ClosedWithout
  <2>. QED BY <2>5, <2>8, OthersClosed
<1>. QED BY <1>1, <1>2, <1>3, <1>4, ZenonT(30)

\* Every step of a program that inserts with insert_ancestors only keeps ClosedInv.
LEMMA ClosedStep ==
  ASSUME HistoryInv, ClosedInv, [AncestralNext]_historyVars
  PROVE  HistoryInv' /\ ClosedInv'
<1>0. HistoryInv' /\ HeapKept
  BY HistoryStep, Zenon DEF KeptNext
<1>1. CASE UseBeside \/ Drops \/ UNCHANGED historyVars
  BY <1>0, <1>1, BesideEntries, ClosedKept, Zenon DEF ClosedInv
<1>2. ASSUME NEW g \in Graphs, CallStep(g) PROVE ClosedInv'
  <2>0. Running /\ Busy(g)
    BY <1>2 DEF CallStep, Proceeds
  <2>1. CASE Insert(g)
    BY <1>0, <2>0, <2>1, VisitClosed, StoreClosed, DropArgClosed, ZenonT(30) DEF Insert, Inserting
  <2>2. CASE Return(g)
    BY <1>0, <2>2, BeginClosed, Zenon
  <2>3. CASE DropEntry(g) \/ DropGraphRegistry(g)
    BY <1>0, <2>0, <2>3, GraphsClosed, Zenon
  <2>. QED BY <1>2, <2>1, <2>2, <2>3, Zenon DEF CallStep
<1>3. CASE UseGraphs
  BY <1>0, <1>2, <1>3, GraphsClosed, BeginClosed, Zenon DEF UseGraphs
<1>. QED BY <1>0, <1>1, <1>3, Zenon DEF AncestralNext

\* A graph filled by insert_ancestors has the parents of all its nodes, at every
\* step, whatever its registry is shared with and however the insertion ends,
\* for histories of any shape.
THEOREM StaysAncestorClosed == AncestralSpec => []AncestorClosed
<1>1. HistoryInit => HistoryInv /\ ClosedInv
  <2>1. ASSUME HistoryInit PROVE ClosedInv
    <3>1. \A g \in Graphs : call[g] = NoCall /\ \A id \in NodeId : ptr[<<g, id>>] = Null
      BY <2>1, EntryAssumption DEF HistoryInit, Init, Entry
    <3>2. NoCall.op = "none" /\ DOMAIN NoCall.frames = {}
      BY DEF NoCall
    <3>3. \A g \in Graphs : AllNodeIds(g) = {}
      BY <3>1 DEF AllNodeIds, ContainsId, GetNode
    <3>. QED BY <3>1, <3>2, <3>3 DEF ClosedInv, ClosedOK
  <2>. QED BY <2>1, HistoryInvInit, Zenon
<1>2. HistoryInv /\ ClosedInv /\ [AncestralNext]_historyVars => HistoryInv' /\ ClosedInv'
  BY ClosedStep, Zenon
<1>3. ClosedInv => AncestorClosed
  BY DEF ClosedInv, ClosedOK, AncestorClosed
<1>. QED BY <1>1, <1>2, <1>3, PTL DEF AncestralSpec

-----------------------------------------------------------------------------
(* Registrations by insert_ancestors *)

\* insert_node registers nodes as try_register_in does, so in a program that
\* uses nothing else the registry field of a node names the registry that knows
\* it.
LEMMA AncestralTracked ==
  ASSUME SharedInv, Tracked, [AncestralNext]_historyVars
  PROVE  Tracked'
<1>0. GraphInv /\ RegistryInv /\ TypeOK
  BY Zenon DEF SharedInv, HeapInv, GraphTypeOK
<1>1. CASE [TrackedNext]_vars
  BY <1>0, <1>1, TrackedStep, Zenon
<1>2. ASSUME NEW g \in Graphs, NEW s \in Graphs, CloneGraph(g, s) PROVE Tracked'
  BY <1>2, Zenon DEF CloneGraph, registryVars, Tracked
<1>3. ASSUME NEW g \in Graphs, call[g].frames # <<>>, StoreNode(g) PROVE Tracked'
  <2>. DEFINE a == Head(call[g].frames).node
              r == graph_registry[g]
  <2>1. a \in Addr /\ r \in Registries
    BY <1>3, FirstFrame, ZenonT(30)
  <2>2. TrySetRegister(a, r) /\ AddNodeTo(r, a) /\ registry' = [registry EXCEPT ![a] = r]
    BY <1>3, ZenonT(30) DEF StoreNode
  <2>. HIDE DEF a, r
  <2>. QED BY <1>0, <2>1, <2>2, RegisterKeepsTracked, Zenon
<1>. QED BY <1>1, <1>2, <1>3, AncestralSteps, Zenon

\* In a program that fills graphs by insert_ancestors and registries by
\* try_register_in, the ids of the nodes that graphs or drops let go of are freed
\* in time, and a node is in one registry at a time.
THEOREM GraphIdsFreedInTime == AncestralSpec => [](NoStaleIds /\ OneRegistry)
<1>1. HistoryInit => SharedInv /\ Tracked
  <2>1. Init => Tracked
    BY DEF Init, RegistryInit, NoPtrs, Tracked
  <2>. QED BY <2>1, SharedInvInit, Zenon DEF HistoryInit
<1>2. SharedInv /\ Tracked /\ [AncestralNext]_historyVars => SharedInv' /\ Tracked'
  BY SharedStep, AncestralTracked, Zenon DEF HistoryNext, KeptNext, StaysShared
<1>3. SharedInv /\ Tracked => NoStaleIds /\ OneRegistry
  BY TrackedMeans, Zenon DEF SharedInv, HeapInv, TrackedInv
<1>. QED BY <1>1, <1>2, <1>3, PTL DEF AncestralSpec

=============================================================================
