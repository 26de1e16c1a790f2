--------------------------- MODULE HistoryProofs ----------------------------
(***************************************************************************)
(* Proofs about history graphs that share nodes and registries, whatever   *)
(* the program does, for any number of graphs, registries, nodes and ids,  *)
(* and for histories of any shape: the ids of graphs that share a registry *)
(* never denote different nodes, and an insertion evicts no node that the  *)
(* registry knows, also when ids are removed while graphs use them.        *)
(***************************************************************************)
EXTENDS RegistryProofs

-----------------------------------------------------------------------------
(* The inductive invariant *)

Inserting(g) == call[g].op \in {"insert_node", "insert_ancestors"}

\* A call is made on a graph that exists, whose registry exists, and its argument
\* is kept while there are activations.
CallOK(g) ==
  /\ graph_registry[g] \in regs \cup {Null}
  /\ Busy(g) => graph_registry[g] # Null
  /\ Inserting(g) => call[g].arg \in User
  /\ call[g].frames # <<>> => Inserting(g) /\ ptr[call[g].arg] # Null
  /\ \A i \in DOMAIN call[g].frames : FrameOK(call[g].frames, ptr[call[g].arg], i)

\* The argument of an insertion is lent to no other call.
ArgsApart ==
  \A g, s \in Graphs : Inserting(g) /\ Inserting(s) /\ call[g].arg = call[s].arg => g = s

CallInv == (\A g \in Graphs : CallOK(g)) /\ ArgsApart

\* The ids of a graph's nodes were issued by its registry.
EntriesIssued ==
  \A g \in Graphs, id \in NodeId : ContainsId(g, id) =>
    graph_registry[g] \in regs /\ id \in issued[graph_registry[g]]

\* A graph never has two ids of one slot.
OnePerSlot ==
  \A g \in Graphs : \A i, j \in AllNodeIds(g) : Slot(i) = Slot(j) => i = j

\* FrameOK is what keeps the nodes of an insertion alive: each is owned by the
\* argument or by the node below it.  EntriesIssued is what makes a fresh id new
\* to every graph of the registry, so that no entry is overwritten, and
\* OnePerSlot what makes SecondaryMap::insert evict one node at most.
SharedInv ==
  /\ GraphTypeOK /\ HeapInv /\ CallInv
  /\ EntriesIssued /\ SharedIdsConsistent /\ OnePerSlot

\* An entry of a graph after a step was one of a graph with the same registry,
\* or is known to the registry.
EntriesKept ==
  \A g \in Graphs, id \in NodeId : ptr'[<<g, id>>] # Null =>
    \/ \E s \in Graphs : ptr'[<<g, id>>] = ptr[<<s, id>>] /\ graph_registry'[g] = graph_registry[s]
    \/ /\ graph_registry'[g] \in regs'
       /\ ptr_to_id'[graph_registry'[g]][ptr'[<<g, id>>]] = id

StaysShared == SharedInv' /\ HeapKept /\ EntriesKept

-----------------------------------------------------------------------------
(* What the steps of a history graph do to the heap *)

\* The entries of a graph are live nodes, with ids that its registry issued.
LEMMA EntryHeld ==
  ASSUME SharedInv, NEW g \in Graphs, NEW id \in NodeId, ContainsId(g, id)
  PROVE  /\ <<g, id>> \in Handle /\ GetNode(g, id) \in live /\ GetNode(g, id) \in Addr
         /\ graph_registry[g] \in regs /\ graph_registry[g] \in Registries
         /\ id \in issued[graph_registry[g]]
         /\ nodes[graph_registry[g]][id] \in {GetNode(g, id), Null}
<1>1. <<g, id>> \in Handle
  BY EntryAssumption DEF Entry
<1>2. GetNode(g, id) \in live /\ GetNode(g, id) \in Addr
  BY <1>1, HeldLive DEF SharedInv, HeapInv, ContainsId, GetNode
<1>3. graph_registry[g] \in regs /\ id \in issued[graph_registry[g]]
  BY Zenon DEF SharedInv, EntriesIssued
<1>4. graph_registry[g] \in Registries
  BY <1>3 DEF SharedInv, GraphTypeOK, TypeOK, RegistryTypeOK
<1>5. nodes[graph_registry[g]][id] \in {GetNode(g, id), Null}
  BY ZenonT(30) DEF SharedInv, SharedIdsConsistent
<1>. QED BY <1>1, <1>2, <1>3, <1>4, <1>5

\* The first activation of an insertion is for a live node, with a registry.
LEMMA FirstFrame ==
  ASSUME SharedInv, NEW g \in Graphs, call[g].frames # <<>>
  PROVE  /\ Head(call[g].frames) \in Frame /\ Head(call[g].frames) = call[g].frames[1]
         /\ 1 \in DOMAIN call[g].frames /\ FrameOK(call[g].frames, ptr[call[g].arg], 1)
         /\ Head(call[g].frames).node \in live /\ Head(call[g].frames).node \in Addr
         /\ Head(call[g].frames).todo \in Seq(Addr)
         /\ graph_registry[g] \in regs /\ graph_registry[g] \in Registries
<1>1. call[g].frames \in Seq(Frame)
  BY DEF SharedInv, GraphTypeOK
<1>2. /\ Head(call[g].frames) \in Frame /\ Head(call[g].frames) = call[g].frames[1]
      /\ 1 \in DOMAIN call[g].frames
  BY <1>1
<1>3. FrameOK(call[g].frames, ptr[call[g].arg], 1)
  BY <1>2 DEF SharedInv, CallInv, CallOK
<1>4. graph_registry[g] \in regs
  BY DEF SharedInv, CallInv, CallOK, Busy, Inserting
<1>5. live \subseteq Addr /\ regs \subseteq Registries
  BY DEF SharedInv, GraphTypeOK, TypeOK, RegistryTypeOK
<1>. QED BY <1>2, <1>3, <1>4, <1>5 DEF FrameOK, Frame

\* insert_node of a new node: the graph has nothing under the id that the node
\* gets.  An older id of the same slot is evicted, and its node dropped.
LEMMA StoreKeepsHeap ==
  ASSUME SharedInv, Running, NEW g \in Graphs, call[g].frames # <<>>, StoreNode(g)
  PROVE  /\ HeapKept /\ OnePerSlot'
         /\ \E id \in NodeId :
              /\ ptr[<<g, id>>] = Null
              /\ ptr'[<<g, id>>] = Head(call[g].frames).node
              /\ ptr_to_id'[graph_registry[g]][Head(call[g].frames).node] = id
              /\ \A h \in Handle : h # <<g, id>> =>
                   \/ ptr'[h] = ptr[h]
                   \/ ptr'[h] = Null /\ \E k \in Evicted(g, id) : h = <<g, k>>
<1>. DEFINE a == Head(call[g].frames).node
            r == graph_registry[g]
            id == ptr_to_id'[r][a]
<1>0. TypeOK /\ GraphInv /\ RegistryInv /\ SlotInv /\ dropping = Null
  BY DEF SharedInv, HeapInv, GraphTypeOK, Running
<1>1. a \in live /\ a \in Addr /\ r \in regs /\ r \in Registries
  BY FirstFrame
<1>2. /\ ~Contains(g, a) /\ AddNodeTo(r, a) /\ Store(g, id, a, Evicted(g, id))
      /\ registry' = [registry EXCEPT ![a] = r]
      /\ UNCHANGED <<live, incoming, outgoing, weak, teardown, regs>>
  BY ZenonT(30) DEF StoreNode
<1>. HIDE DEF a, r
<1>3. RegistryInv' /\ SlotInv' /\ RegistryTypeOK' /\ IdsStable
  BY <1>0, <1>1, <1>2, AddNodeToKeepsMaps, AddNodeToKeepsSlots, AddNodeToType, AddNodeToStable,
     Zenon DEF TypeOK
<1>4. id \in NodeId /\ id # Null /\ (id = ptr_to_id[r][a] \/ id \notin issued[r])
  BY <1>0, <1>1, <1>2, AddNodeToKeepsIds, Zenon
<1>. HIDE DEF id
<1>5. ptr[<<g, id>>] = Null
  <2>. SUFFICES ASSUME ContainsId(g, id) PROVE FALSE
    BY DEF ContainsId, GetNode
  <2>1. id \in issued[r]
    BY <1>4, EntryHeld, Zenon DEF r
  <2>2. GetId(r, a) = id
    BY <2>1, <1>4, Zenon DEF GetId
  <2>. QED BY <2>2, <1>2, <1>4, Zenon DEF Contains, GetNodeId, r
<1>6. <<g, id>> \in Handle /\ \A s \in Graphs, k \in NodeId : <<s, k>> \in Handle
  BY <1>4, EntryAssumption DEF Entry
<1>7. \A k, j \in Evicted(g, id) : k = j
  BY Zenon DEF SharedInv, OnePerSlot, Evicted, AllNodeIds
<1>8. /\ ptr' \in [Handle -> Addr \cup {Null}] /\ ptr'[<<g, id>>] = a
      /\ \A h \in Handle : h # <<g, id>> =>
           \/ ptr'[h] = ptr[h] /\ ~\E k \in Evicted(g, id) : h = <<g, k>>
           \/ ptr'[h] = Null /\ \E k \in Evicted(g, id) : h = <<g, k>>
  <2>1. ptr' = [h \in Handle |-> IF h = <<g, id>> THEN a
                                 ELSE IF \E k \in Evicted(g, id) : h = <<g, k>> THEN Null ELSE ptr[h]]
    BY <1>2, Zenon DEF Store
  <2>2. ptr \in [Handle -> Addr \cup {Null}]
    BY <1>0 DEF TypeOK
  <2>. QED BY <2>1, <2>2, <1>1, <1>6, Zenon
<1>9. \/ dropping' = Null /\ Evicted(g, id) = {}
      \/ \E k \in Evicted(g, id) : dropping' = ptr[<<g, k>>] /\ <<g, k>> \in Handle
  BY <1>0, <1>2, <1>6, Zenon DEF Store, GetNode, Evicted
<1>10. dropping' = Null \/ \E h \in Handle : dropping' = ptr[h]
  BY <1>9, Zenon
<1>11. TypeOK'
  <2>1. dropping' \in Addr \cup {Null} /\ registry' \in [Addr -> Registries \cup {Null}]
    BY <1>0, <1>1, <1>2, <1>10 DEF TypeOK
  <2>. QED BY <1>0, <1>2, <1>3, <1>8, <2>1, ZenonT(30) DEF TypeOK
<1>12. \A h \in Handle :
         \/ ptr'[h] = ptr[h]
         \/ ptr[h] = Null /\ ptr'[h] \in live
         \/ ptr'[h] = Null /\ dropping' = ptr[h]
  <2>. TAKE h \in Handle
  <2>1. CASE h = <<g, id>>
    BY <2>1, <1>1, <1>5, <1>8, Zenon
  <2>2. ASSUME NEW k \in Evicted(g, id), h = <<g, k>>, ptr'[h] = Null PROVE dropping' = ptr[h]
    BY <2>2, <1>7, <1>9, Zenon
  <2>. QED BY <2>1, <2>2, <1>8, Zenon
<1>13. GraphInv'
  <2>1. \A b \in Addr \ live : registry'[b] = registry[b]
    BY <1>0, <1>1, <1>2 DEF TypeOK
  <2>2. UNCHANGED <<live, incoming, outgoing, teardown>>
    BY <1>2, Zenon
  <2>. QED BY <2>1, <2>2, <1>0, <1>10, <1>11, <1>12, HandOverKeepsGraph, Zenon
<1>14. HeapKept
  BY <1>2, <1>3, <1>13, Zenon DEF HeapKept, HeapInv
<1>15. OnePerSlot'
  <2>. SUFFICES ASSUME NEW s \in Graphs, NEW i \in NodeId, NEW j \in NodeId,
                       ptr'[<<s, i>>] # Null, ptr'[<<s, j>>] # Null, Slot(i) = Slot(j), j # id
                PROVE  i = j
    BY Zenon DEF OnePerSlot, AllNodeIds, ContainsId, GetNode
  <2>0. <<s, i>> \in Handle /\ <<s, j>> \in Handle /\ <<s, j>> # <<g, id>>
    BY <1>6
  <2>1. ContainsId(s, j) /\ ~\E k \in Evicted(g, id) : <<s, j>> = <<g, k>>
    BY <2>0, <1>8, Zenon DEF ContainsId, GetNode
  <2>2. CASE <<s, i>> = <<g, id>>
    BY <2>1, <2>2 DEF Evicted
  <2>3. CASE <<s, i>> # <<g, id>>
    <3>1. ContainsId(s, i)
      BY <2>0, <2>3, <1>8, Zenon DEF ContainsId, GetNode
    <3>. QED BY <3>1, <2>1, Zenon DEF SharedInv, OnePerSlot, AllNodeIds
  <2>. QED BY <2>2, <2>3
<1>. QED BY <1>4, <1>5, <1>8, <1>14, <1>15, Zenon DEF a, r, id

\* <HistoryGraph as Clone>::clone gets hold of live nodes.
LEMMA CloneKeepsHeap ==
  ASSUME SharedInv, NEW g \in Graphs, NEW s \in Graphs, CloneGraph(g, s)
  PROVE  /\ HeapKept
         /\ \A id \in NodeId : ptr'[<<s, id>>] = ptr[<<g, id>>]
         /\ \A h \in Handle : (\A id \in NodeId : h # <<s, id>>) => ptr'[h] = ptr[h]
<1>0. TypeOK /\ HeapInv /\ GraphInv
  BY DEF SharedInv, HeapInv, GraphTypeOK
<1>1. /\ UNCHANGED <<live, incoming, outgoing, registry, weak, dropping, teardown, registryVars>>
      /\ ptr' = [h \in Handle |-> IF \E id \in NodeId : h = <<s, id>>
                                  THEN ptr[<<g, h[2]>>] ELSE ptr[h]]
      /\ graph_registry[s] = Null
  BY DEF CloneGraph, GetNode
<1>2. \A k \in NodeId : <<s, k>> \in Handle /\ <<g, k>> \in Handle
  BY EntryAssumption DEF Entry
<1>3. \A k \in NodeId : ptr'[<<s, k>>] = ptr[<<g, k>>]
  BY <1>1, <1>2, Zenon
<1>4. \A h \in Handle : (\A k \in NodeId : h # <<s, k>>) => ptr'[h] = ptr[h]
  BY <1>1
<1>5. \A k \in NodeId : ptr[<<s, k>>] = Null
  <2>1. Null \notin regs
    BY <1>0, NullAssumption DEF TypeOK, RegistryTypeOK
  <2>. QED BY <2>1, <1>1, Zenon DEF SharedInv, EntriesIssued, ContainsId, GetNode
<1>6. \A h \in Handle : ptr'[h] = ptr[h] \/ (ptr[h] = Null /\ ptr'[h] \in live)
  <2>. TAKE h \in Handle
  <2>1. CASE \A k \in NodeId : h # <<s, k>>
    BY <2>1, <1>4
  <2>2. ASSUME NEW k \in NodeId, h = <<s, k>>
        PROVE  ptr'[h] = ptr[h] \/ (ptr[h] = Null /\ ptr'[h] \in live)
    BY <2>2, <1>0, <1>2, <1>3, <1>5, HeldLive, ZenonT(30)
  <2>. QED BY <2>1, <2>2
<1>7. TypeOK'
  <2>1. \A h \in Handle : ptr'[h] \in Addr \cup {Null}
    BY <1>0, <1>6 DEF TypeOK
  <2>2. ptr' \in [Handle -> Addr \cup {Null}]
    BY <1>1, <2>1
  <2>. QED BY <2>2, <1>0, <1>1 DEF TypeOK, RegistryTypeOK, registryVars
<1>8. GraphInv'
  <2>1. \A p \in Addr : outgoing'[p] \subseteq outgoing[p] /\ Retained(p) \subseteq outgoing'[p]
    BY <1>1, Zenon DEF Retained
  <2>. QED BY <2>1, <1>0, <1>1, <1>6, <1>7, UseKeepsGraph
<1>9. UNCHANGED <<regs, nodes, ptr_to_id, issued>>
  BY <1>1, Zenon DEF registryVars
<1>10. RegistryInv'
  BY <1>0, <1>9 DEF HeapInv, RegistryInv, MapsInverse
<1>11. SlotInv' /\ IdsStable
  BY <1>0, <1>9 DEF HeapInv, SlotInv, IdsStable
<1>. QED BY <1>1, <1>3, <1>4, <1>8, <1>10, <1>11, Zenon DEF HeapKept, HeapInv

CallType ==
  [op : {"none", "insert_node", "insert_ancestors", "drop"},
   arg : User \cup {Null}, depth : Nat, frames : Seq(Frame)]

-----------------------------------------------------------------------------
(* Calls that a step does not concern *)

\* The nodes of an insertion are owned, by its argument or by the node of the
\* activation before, so what happens elsewhere leaves them alone.
LEMMA FrameNodesKept ==
  ASSUME SharedInv, HeapKept, NEW s \in Graphs, NEW i \in DOMAIN call[s].frames
  PROVE  LET n == call[s].frames[i].node IN
         n \in live /\ n \in live' /\ incoming'[n] = incoming[n]
<1>. DEFINE F == call[s].frames
            a == ptr[call[s].arg]
<1>0. /\ CallOK(s) /\ F \in Seq(Frame) /\ live \subseteq Addr
      /\ DOMAIN F = 1 .. Len(F) /\ Len(F) \in Nat
  <2>1. CallOK(s) /\ F \in Seq(Frame) /\ live \subseteq Addr
    BY Zenon DEF SharedInv, CallInv, GraphTypeOK, CallType, TypeOK
  <2>. HIDE DEF F
  <2>. QED BY <2>1
<1>1. FrameOK(F, a, i)
  BY <1>0 DEF CallOK
<1>2. Owned(F[i].node)
  <2>1. CASE i = Len(F)
    <3>1. F # <<>> /\ call[s].arg \in Handle
      BY <1>0 DEF CallOK, User
    <3>. QED BY <1>1, <2>1, <3>1 DEF FrameOK, Owned
  <2>2. CASE i # Len(F)
    <3>1. i + 1 \in DOMAIN F
      BY <1>0, <2>2
    <3>2. FrameOK(F, a, i + 1)
      BY <1>0, <3>1, ZenonT(30) DEF CallOK
    <3>3. F[i + 1].node \in Addr /\ F[i].node \in Parents(F[i + 1].node)
      BY <1>0, <1>1, <2>2, <3>2, Zenon DEF FrameOK
    <3>. QED BY <3>3 DEF Owned
  <2>. QED BY <2>1, <2>2
<1>3. F[i].node \in live /\ F[i].node \in live'
  BY <1>1, <1>2 DEF FrameOK, HeapKept
<1>4. incoming'[F[i].node] = incoming[F[i].node]
  BY <1>3, Zenon DEF HeapKept
<1>. QED BY <1>3, <1>4

\* Steps that do not touch a call or its argument leave it in order.
LEMMA CallKept ==
  ASSUME SharedInv, HeapKept, NEW s \in Graphs,
         call'[s] = call[s], graph_registry'[s] = graph_registry[s],
         graph_registry[s] \in regs' \cup {Null},
         call[s].frames # <<>> => ptr'[call[s].arg] = ptr[call[s].arg]
  PROVE  CallOK(s)'
<1>. DEFINE F == call[s].frames
            a == ptr[call[s].arg]
<1>0. /\ CallOK(s) /\ F \in Seq(Frame) /\ live \subseteq Addr
      /\ DOMAIN F = 1 .. Len(F) /\ Len(F) \in Nat
  <2>1. CallOK(s) /\ F \in Seq(Frame) /\ live \subseteq Addr
    BY ZenonT(30) DEF SharedInv, CallInv, GraphTypeOK, CallType, TypeOK
  <2>. HIDE DEF F
  <2>. QED BY <2>1
<1>1. ASSUME NEW i \in DOMAIN F
      PROVE  /\ F[i].node \in live /\ F[i].node \in live'
             /\ Parents(F[i].node)' = Parents(F[i].node)
  BY FrameNodesKept DEF Parents
<1>2. ASSUME NEW i \in DOMAIN F
      PROVE  FrameOK(call[s].frames, ptr[call[s].arg], i)'
  <2>1. F # <<>> /\ F' = F /\ call'[s].frames = F /\ ptr'[call'[s].arg] = a
    BY <1>0, <1>2
  <2>2. FrameOK(F, a, i)
    BY <1>0 DEF CallOK
  <2>3. i # Len(F) => i + 1 \in DOMAIN F
    BY <1>0
  <2>. HIDE DEF F, a
  <2>. QED BY <2>1, <2>2, <2>3, <1>1 DEF FrameOK
<1>3. F # <<>> => Inserting(s)' /\ ptr'[call'[s].arg] # Null
  BY <1>0 DEF CallOK, Inserting
<1>. QED BY <1>0, <1>2, <1>3, Zenon DEF CallOK, Busy, Inserting

\* What a registry knows by an id was issued under it.
LEMMA KnownEntry ==
  ASSUME HeapKept, NEW g \in Graphs, NEW id \in NodeId, ptr'[<<g, id>>] # Null,
         NEW r \in regs', ptr_to_id'[r][ptr'[<<g, id>>]] = id
  PROVE  id \in issued'[r] /\ nodes'[r][id] = ptr'[<<g, id>>]
<1>1. TypeOK' /\ RegistryInv' /\ <<g, id>> \in Handle
  BY EntryAssumption DEF HeapKept, HeapInv, GraphInv, Entry
<1>2. ptr'[<<g, id>>] \in Addr /\ r \in Registries
  BY <1>1 DEF TypeOK, RegistryTypeOK
<1>3. nodes'[r][id] = ptr'[<<g, id>>]
  BY <1>1, <1>2 DEF RegistryInv, MapsInverse
<1>. QED BY <1>1, <1>2, <1>3, Zenon DEF RegistryInv

\* Entries that a step leaves in place.
LEMMA EntriesLeft ==
  ASSUME NEW g \in Graphs, NEW id \in NodeId, ptr'[<<g, id>>] = ptr[<<g, id>>],
         graph_registry'[g] = graph_registry[g]
  PROVE  \E s \in Graphs : ptr'[<<g, id>>] = ptr[<<s, id>>] /\ graph_registry'[g] = graph_registry[s]
OBVIOUS

\* Entries that go do not put two ids in a slot.
LEMMA FewerPerSlot ==
  ASSUME OnePerSlot,
         \A g \in Graphs, id \in NodeId : ptr'[<<g, id>>] \in {ptr[<<g, id>>], Null}
  PROVE  OnePerSlot'
BY Zenon DEF OnePerSlot, AllNodeIds, ContainsId, GetNode

\* The invariant after a step: the calls are in order, and each entry of a graph
\* was one before or is known to the registry.
LEMMA Assemble ==
  ASSUME SharedInv, HeapKept,
         graph_registry' \in [Graphs -> Registries \cup {Null}],
         call' \in [Graphs -> CallType],
         CallInv', OnePerSlot', EntriesKept
  PROVE  StaysShared
<1>1. GraphTypeOK'
  BY Zenon DEF GraphTypeOK, CallType, HeapKept, HeapInv, GraphInv
<1>2. ASSUME NEW g \in Graphs, NEW id \in NodeId, ptr'[<<g, id>>] # Null
      PROVE  /\ graph_registry'[g] \in regs' /\ id \in issued'[graph_registry'[g]]
             /\ nodes'[graph_registry'[g]][id] \in {ptr'[<<g, id>>], Null}
  <2>. DEFINE r == graph_registry'[g]
  <2>1. ASSUME NEW s \in Graphs, ptr'[<<g, id>>] = ptr[<<s, id>>], r = graph_registry[s]
        PROVE  r \in regs' /\ id \in issued'[r] /\ nodes'[r][id] \in {ptr'[<<g, id>>], Null}
    <3>1. ContainsId(s, id) /\ GetNode(s, id) = ptr'[<<g, id>>]
      BY <1>2, <2>1 DEF ContainsId, GetNode
    <3>2. r \in regs /\ id \in issued[r] /\ nodes[r][id] \in {ptr'[<<g, id>>], Null}
      BY <2>1, <3>1, EntryHeld, Zenon
    <3>3. r \in regs'
      <4>1. r \in regs' \cup {Null}
        BY Zenon DEF CallInv, CallOK
      <4>2. r # Null
        BY <3>2, NullAssumption DEF SharedInv, GraphTypeOK, TypeOK, RegistryTypeOK
      <4>. QED BY <4>1, <4>2
    <3>4. id \in issued'[r] /\ nodes'[r][id] \in {nodes[r][id], Null}
      BY <3>2, <3>3, Zenon DEF HeapKept, IdsStable
    <3>. QED BY <3>2, <3>3, <3>4, Zenon
  <2>2. ASSUME r \in regs', ptr_to_id'[r][ptr'[<<g, id>>]] = id
        PROVE  id \in issued'[r] /\ nodes'[r][id] = ptr'[<<g, id>>]
    BY <1>2, <2>2, KnownEntry
  <2>. QED BY <1>2, <2>1, <2>2, ZenonT(30) DEF EntriesKept
<1>3. ASSUME NEW g \in Graphs, NEW s \in Graphs, NEW id \in NodeId,
             ptr'[<<g, id>>] # Null, ptr'[<<s, id>>] # Null, graph_registry'[s] = graph_registry'[g]
      PROVE  ptr'[<<s, id>>] = ptr'[<<g, id>>]
  <2>. DEFINE r == graph_registry'[g]
              Before(q) == \E p \in Graphs : ptr'[<<q, id>>] = ptr[<<p, id>>] /\ r = graph_registry[p]
              Known(q) == r \in regs' /\ ptr_to_id'[r][ptr'[<<q, id>>]] = id
  <2>0. Before(g) \/ Known(g)
    BY <1>3, Zenon DEF EntriesKept
  <2>1. Before(s) \/ Known(s)
    <3>1. \/ \E p \in Graphs :
               ptr'[<<s, id>>] = ptr[<<p, id>>] /\ graph_registry'[s] = graph_registry[p]
          \/ /\ graph_registry'[s] \in regs'
             /\ ptr_to_id'[graph_registry'[s]][ptr'[<<s, id>>]] = id
      BY <1>3, Zenon DEF EntriesKept
    <3>. QED BY <1>3, <3>1, Zenon
  <2>2. CASE Before(g) /\ Before(s)
    <3>1. PICK p \in Graphs : ptr'[<<g, id>>] = ptr[<<p, id>>] /\ r = graph_registry[p]
      BY <2>2, Zenon
    <3>2. PICK q \in Graphs : ptr'[<<s, id>>] = ptr[<<q, id>>] /\ r = graph_registry[q]
      BY <2>2, Zenon
    <3>3. ContainsId(p, id) /\ ContainsId(q, id) /\ graph_registry[q] = graph_registry[p]
      BY <1>3, <3>1, <3>2, Zenon DEF ContainsId, GetNode
    <3>4. GetNode(q, id) \in {GetNode(p, id), Null}
      BY <3>3, ZenonT(30) DEF SharedInv, SharedIdsConsistent
    <3>. QED BY <3>1, <3>2, <3>3, <3>4, Zenon DEF ContainsId, GetNode
  <2>3. ASSUME NEW q \in {g, s}, Known(q) PROVE nodes'[r][id] = ptr'[<<q, id>>]
    BY <1>3, <2>3, KnownEntry
  <2>4. nodes'[r][id] \in {ptr'[<<g, id>>], Null} /\ nodes'[r][id] \in {ptr'[<<s, id>>], Null}
    BY <1>2, <1>3, Zenon
  <2>. HIDE DEF r
  <2>. QED BY <1>3, <2>0, <2>1, <2>2, <2>3, <2>4, Zenon
<1>4. EntriesIssued'
  BY <1>2, Zenon DEF EntriesIssued, ContainsId, GetNode
<1>5. SharedIdsConsistent'
  <2>. SUFFICES ASSUME NEW g \in Graphs, NEW id \in NodeId, ptr'[<<g, id>>] # Null
                PROVE  /\ nodes'[graph_registry'[g]][id] \in {ptr'[<<g, id>>], Null}
                       /\ \A s \in Graphs : graph_registry'[s] = graph_registry'[g] =>
                            ptr'[<<s, id>>] \in {ptr'[<<g, id>>], Null}
    BY Zenon DEF SharedIdsConsistent, ContainsId, GetNode
  <2>. QED BY <1>2, <1>3, ZenonT(30)
<1>. QED BY <1>1, <1>4, <1>5, Zenon DEF SharedInv, StaysShared, HeapKept

\* Steps that leave the calls and the graphs' registries alone: the argument of
\* a call that needs it stays, and entries of graphs stay or go.
LEMMA BesideKeeps ==
  ASSUME SharedInv, HeapKept, UNCHANGED graphVars,
         \A g \in Graphs : graph_registry[g] \in regs' \cup {Null},
         \A g \in Graphs : call[g].frames # <<>> => ptr'[call[g].arg] = ptr[call[g].arg],
         \A g \in Graphs, id \in NodeId : ptr'[<<g, id>>] \in {ptr[<<g, id>>], Null}
  PROVE  StaysShared
<1>0. /\ graph_registry \in [Graphs -> Registries \cup {Null}]
      /\ call \in [Graphs -> CallType] /\ ArgsApart
  BY DEF SharedInv, GraphTypeOK, CallType, CallInv
<1>1. UNCHANGED <<graph_registry, call>>
  BY DEF graphVars
<1>2. \A g \in Graphs : CallOK(g)'
  BY <1>1, CallKept
<1>3. CallInv'
  BY <1>0, <1>1, <1>2, Zenon DEF CallInv, ArgsApart, Inserting
<1>4. OnePerSlot'
  BY FewerPerSlot, Zenon DEF SharedInv
<1>5. EntriesKept
  BY <1>1, EntriesLeft, Zenon DEF EntriesKept
<1>. QED BY <1>0, <1>1, <1>3, <1>4, <1>5, Assemble, Zenon

\* Steps that change the call on g, and maybe get hold of entries of g.
LEMMA CallChanges ==
  ASSUME SharedInv, HeapKept, NEW g \in Graphs, NEW c \in CallType,
         call' = [call EXCEPT ![g] = c], UNCHANGED <<graph_registry, regs>>,
         c.op = "none" \/ graph_registry[g] # Null,
         c.op \in {"insert_node", "insert_ancestors"} =>
           c.arg \in User /\ \A s \in Graphs \ {g} : Inserting(s) => call[s].arg # c.arg,
         c.frames # <<>> => c.op \in {"insert_node", "insert_ancestors"} /\ ptr'[c.arg] # Null,
         \A i \in DOMAIN c.frames : FrameOK(c.frames, ptr[c.arg], i)',
         \A s \in Graphs \ {g} : call[s].frames # <<>> => ptr'[call[s].arg] = ptr[call[s].arg],
         OnePerSlot',
         \A s \in Graphs, id \in NodeId :
           \/ ptr'[<<s, id>>] \in {ptr[<<s, id>>], Null}
           \/ graph_registry[s] \in regs /\ ptr_to_id'[graph_registry[s]][ptr'[<<s, id>>]] = id
  PROVE  StaysShared
<1>0. /\ graph_registry \in [Graphs -> Registries \cup {Null}]
      /\ call \in [Graphs -> CallType] /\ ArgsApart /\ \A s \in Graphs : CallOK(s)
  BY Zenon DEF SharedInv, GraphTypeOK, CallType, CallInv
<1>1. /\ call' \in [Graphs -> CallType] /\ call'[g] = c
      /\ \A s \in Graphs \ {g} : call'[s] = call[s]
  BY <1>0, ZenonT(30)
<1>2. \A s \in Graphs \ {g} : CallOK(s)'
  <2>. TAKE s \in Graphs \ {g}
  <2>1. graph_registry[s] \in regs' \cup {Null}
    BY <1>0, Zenon DEF CallOK
  <2>. QED BY <2>1, <1>1, CallKept
<1>3. CallOK(g)'
  <2>1. \A i \in DOMAIN call'[g].frames : FrameOK(call[g].frames, ptr[call[g].arg], i)'
    BY <1>1, ZenonT(30) DEF FrameOK
  <2>. QED BY <2>1, <1>0, <1>1, Zenon DEF CallOK, Busy, Inserting
<1>4. ArgsApart'
  <2>. SUFFICES ASSUME NEW s \in Graphs, NEW q \in Graphs, Inserting(s)', Inserting(q)',
                       call'[s].arg = call'[q].arg, s # q
                PROVE  FALSE
    BY Zenon DEF ArgsApart
  <2>1. CASE s # g /\ q # g
    BY <2>1, <1>0, <1>1, ZenonT(30) DEF ArgsApart, Inserting
  <2>2. CASE s = g
    BY <2>2, <1>1, Zenon DEF Inserting
  <2>3. CASE q = g
    BY <2>3, <1>1, Zenon DEF Inserting
  <2>. QED BY <2>1, <2>2, <2>3
<1>5. CallInv'
  BY <1>2, <1>3, <1>4, Zenon DEF CallInv
<1>6. EntriesKept
  <2>. SUFFICES ASSUME NEW s \in Graphs, NEW id \in NodeId, ptr'[<<s, id>>] # Null
                PROVE  \/ ptr'[<<s, id>>] = ptr[<<s, id>>]
                       \/ graph_registry[s] \in regs' /\ ptr_to_id'[graph_registry[s]][ptr'[<<s, id>>]] = id
    BY EntriesLeft, ZenonT(30) DEF EntriesKept
  <2>. QED BY Zenon
<1>. QED BY <1>0, <1>1, <1>5, <1>6, Assemble, Zenon

-----------------------------------------------------------------------------
(* What each step does to the invariant *)

\* The program's own slots are all that its other code writes to.
LEMMA OwnSlots ==
  ASSUME TypeOK, NEW H \in SUBSET Handle, UseNodes(H) \/ UseRegistries(H)
  PROVE  /\ UseNodes(Handle) \/ UseRegistries(Handle)
         /\ regs \subseteq regs'
         /\ \A h \in Handle \ H : ptr'[h] = ptr[h]
<1>0. ptr \in [Handle -> Addr \cup {Null}]
  BY DEF TypeOK
<1>1. CASE UseNodes(H)
  <2>1. UNCHANGED regs /\ \A h \in Handle \ H : ptr'[h] = ptr[h]
    BY <1>0, <1>1, ZenonT(30) DEF UseNodes, WithParents, Clone, TakeParent, Upgrade, Acquire,
       AllOutgoing, TakeChild, DropHandle, Downgrade, TakeWeakEdge, DropWeak, SetWeak, registryVars
  <2>2. UseNodes(Handle)
    BY <1>1 DEF UseNodes
  <2>. QED BY <2>1, <2>2, Zenon
<1>2. CASE UseRegistries(H)
  <2>1. regs \subseteq regs' /\ \A h \in Handle \ H : ptr'[h] = ptr[h]
    BY <1>0, <1>2, Zenon DEF UseRegistries, NewRegistry, CreateRegistry, TryRegisterIn, FreeNodeIds,
       Get, Acquire, heapVars, registryVars
  <2>2. UseRegistries(Handle)
    BY <1>2 DEF UseRegistries
  <2>. QED BY <2>1, <2>2, ZenonT(30)
<1>. QED BY <1>1, <1>2

\* The steps that take no ids away are steps of RelRc.
LEMMA BaseSteps == BaseNext => Next
BY ZenonT(30) DEF BaseNext, Next, TrackedNext, GiveUp

\* Steps of the heap beside the graphs.
LEMMA HeapBeside ==
  ASSUME SharedInv, [Next]_vars, UNCHANGED graphVars,
         \A g \in Graphs : graph_registry[g] \in regs => graph_registry[g] \in regs',
         \A h \in Handle \ Own : ptr'[h] = ptr[h]
  PROVE  StaysShared
<1>1. HeapKept
  BY NextKeepsHeap, Zenon DEF SharedInv
<1>2. \A g \in Graphs : CallOK(g)
  BY Zenon DEF SharedInv, CallInv
<1>3. \A g \in Graphs : call[g].frames # <<>> => call[g].arg \in Handle \ Own
  BY <1>2, Zenon DEF CallOK, User, Own
<1>4. \A g \in Graphs, id \in NodeId : <<g, id>> \in Handle \ Own
  BY EntryAssumption, Zenon DEF Entry, User, Own
<1>5. \A g \in Graphs : graph_registry[g] \in regs' \cup {Null}
  BY <1>2 DEF CallOK
<1>. QED BY <1>1, <1>3, <1>4, <1>5, BesideKeeps, Zenon

\* What the program does beside the graphs, and drops.
LEMMA BesideStep ==
  ASSUME SharedInv,
         \/ UseBeside \/ Drops \/ UNCHANGED historyVars
         \/ Idle /\ AddUntracked /\ UNCHANGED graphVars
         \/ RemoveIds
  PROVE  StaysShared
<1>0. TypeOK /\ Own \in SUBSET Handle
  BY DEF SharedInv, GraphTypeOK, Own, User
<1>1. CASE UseBeside
  <2>1. CASE UseNodes(Own) \/ UseRegistries(Own)
    <3>1. BaseNext /\ regs \subseteq regs' /\ \A h \in Handle \ Own : ptr'[h] = ptr[h]
      BY <1>0, <2>1, OwnSlots, Zenon DEF BaseNext
    <3>2. Next /\ UNCHANGED graphVars
      BY <1>1, <3>1, BaseSteps, Zenon DEF UseBeside
    <3>. QED BY <3>1, <3>2, HeapBeside
  <2>2. ASSUME NEW r \in Registries, \A g \in Graphs : graph_registry[g] # r, DropRegistry(r)
        PROVE  StaysShared
    <3>1. UNCHANGED ptr /\ regs' = regs \ {r} /\ BaseNext /\ UNCHANGED graphVars
      BY <1>1, <2>2, Zenon DEF DropRegistry, DestroyRegistry, heapVars, BaseNext, UseBeside
    <3>. QED BY <3>1, <2>2, BaseSteps, HeapBeside
  <2>. QED BY <1>1, <2>1, <2>2, Zenon DEF UseBeside
<1>2. CASE Drops
  <2>1. Destroy /\ UNCHANGED graphVars
    BY <1>2, Zenon DEF Drops, Destroy
  <2>2. UNCHANGED <<ptr, regs>>
    BY <2>1 DEF Destroy, DropShared, DropLast, DropFields, DropNextEdge, DropOutgoing, registryVars
  <2>. QED BY <2>1, <2>2, BaseSteps, HeapBeside DEF BaseNext
<1>3. CASE UNCHANGED historyVars
  <2>1. UNCHANGED vars /\ UNCHANGED graphVars
    BY <1>3 DEF historyVars
  <2>2. UNCHANGED <<ptr, regs>>
    BY <2>1 DEF vars, heapVars, registryVars
  <2>. QED BY <2>1, <2>2, HeapBeside
<1>4. CASE AddUntracked /\ UNCHANGED graphVars
  <2>1. UNCHANGED ptr /\ regs \subseteq regs'
    BY <1>4, Zenon DEF AddUntracked, AddNode, CloneRegistry, CopyRegistry, heapVars
  <2>. QED BY <1>4, <2>1, BaseSteps, HeapBeside DEF BaseNext
<1>5. CASE RemoveIds
  <2>1. PICK r \in Registries, id \in NodeId : Remove(r, id)
    BY <1>5 DEF RemoveIds
  <2>2. Next /\ UNCHANGED graphVars /\ UNCHANGED <<ptr, regs>>
    BY <1>5, <2>1, Zenon DEF RemoveIds, Next, TrackedNext, GiveUp, Remove, RemoveFrom, heapVars
  <2>. QED BY <2>2, HeapBeside, Zenon
<1>. QED BY <1>1, <1>2, <1>3, <1>4, <1>5

\* Steps that change nothing but the call on g.
LEMMA CallAlone ==
  ASSUME SharedInv, NEW g \in Graphs, NEW c \in CallType,
         call' = [call EXCEPT ![g] = c], UNCHANGED <<vars, graph_registry>>,
         c.op = "none" \/ graph_registry[g] # Null,
         c.op \in {"insert_node", "insert_ancestors"} =>
           c.arg \in User /\ \A s \in Graphs \ {g} : Inserting(s) => call[s].arg # c.arg,
         c.frames # <<>> => c.op \in {"insert_node", "insert_ancestors"} /\ ptr[c.arg] # Null,
         \A i \in DOMAIN c.frames : FrameOK(c.frames, ptr[c.arg], i)
  PROVE  StaysShared
<1>1. HeapKept
  BY NextKeepsHeap, ZenonT(30) DEF SharedInv
<1>2. UNCHANGED <<live, incoming, ptr, regs>>
  BY Zenon DEF vars, heapVars, registryVars
<1>3. \A i \in DOMAIN c.frames : FrameOK(c.frames, ptr[c.arg], i)'
  BY <1>2, Zenon DEF FrameOK, Parents
<1>4. OnePerSlot'
  BY <1>2, ZenonT(30) DEF SharedInv, OnePerSlot, AllNodeIds, ContainsId, GetNode
<1>. QED BY <1>1, <1>2, <1>3, <1>4, CallChanges, Zenon

\* A call begins.
LEMMA BeginStep ==
  ASSUME SharedInv, NEW g \in Graphs,
         \/ \E h \in Own : InsertNode(g, h) \/ InsertAncestors(g, h)
         \/ DropGraph(g)
  PROVE  StaysShared
<1>0. /\ TypeOK /\ Len(teardown) \in Nat /\ \A h \in Own : h \in User /\ h \in Handle
      /\ \A h \in Own, s \in Graphs : call[s].arg # h
  BY DEF SharedInv, GraphTypeOK, TypeOK, Own, User
<1>1. ASSUME NEW h \in Own, InsertNode(g, h) \/ InsertAncestors(g, h) PROVE StaysShared
  <2>1. PICK op \in {"insert_node", "insert_ancestors"}, todo \in {<<>>, incoming[ptr[h]]} :
          ptr[h] # Null /\ Begin(g, op, h, <<[node |-> ptr[h], todo |-> todo]>>)
    BY <1>1, Zenon DEF InsertNode, InsertAncestors
  <2>. DEFINE x == [node |-> ptr[h], todo |-> todo]
              c == [op |-> op, arg |-> h, depth |-> Len(teardown), frames |-> <<x>>]
  <2>2. ptr[h] \in live /\ ptr[h] \in Addr
    BY <1>0, <2>1, HeldLive, Zenon DEF SharedInv, HeapInv
  <2>3. todo \in Seq(Addr) /\ Range(todo) \subseteq Parents(ptr[h])
    <3>1. CASE todo = <<>>
      BY <3>1 DEF Range
    <3>2. CASE todo = incoming[ptr[h]]
      <4>1. incoming \in [Addr -> Seq(Addr)]
        BY <1>0, Zenon DEF TypeOK
      <4>. QED BY <2>2, <3>2, <4>1, Zenon DEF Parents
    <3>. QED BY <3>1, <3>2, Zenon
  <2>4. x \in Frame /\ c \in CallType
    <3>1. x \in Frame
      BY <2>2, <2>3, Zenon DEF Frame
    <3>2. <<x>> \in Seq(Frame)
      <4>. HIDE DEF x
      <4>. QED BY <3>1
    <3>3. h \in User /\ Len(teardown) \in Nat
      BY <1>0, Zenon
    <3>. HIDE DEF x
    <3>. QED BY <3>1, <3>2, <3>3 DEF CallType
  <2>5. FrameOK(<<x>>, ptr[h], 1)
    BY <2>2, <2>3, Zenon DEF FrameOK
  <2>6. \A i \in DOMAIN c.frames : FrameOK(c.frames, ptr[c.arg], i)
    <3>1. c.frames = <<x>> /\ c.arg = h
      BY Zenon
    <3>. HIDE DEF x, c
    <3>2. DOMAIN <<x>> = {1}
      OBVIOUS
    <3>. QED BY <2>5, <3>1, <3>2, Zenon
  <2>7. /\ call' = [call EXCEPT ![g] = c] /\ UNCHANGED <<vars, graph_registry>>
        /\ graph_registry[g] # Null
    BY <2>1, Zenon DEF Begin, Usable
  <2>8. c.op = op /\ c.arg = h
    BY Zenon
  <2>. HIDE DEF c
  <2>. QED BY <1>0, <2>1, <2>4, <2>6, <2>7, <2>8, CallAlone, ZenonT(30)
<1>2. CASE DropGraph(g)
  <2>. DEFINE c == [op |-> "drop", arg |-> Null, depth |-> Len(teardown), frames |-> <<>>]
  <2>1. c \in CallType
    <3>1. <<>> \in Seq(Frame)
      OBVIOUS
    <3>. QED BY <1>0, <3>1, Zenon DEF CallType
  <2>2. /\ call' = [call EXCEPT ![g] = c] /\ UNCHANGED <<vars, graph_registry>>
        /\ graph_registry[g] # Null
    BY <1>2 DEF DropGraph, Begin, Usable
  <2>3. c.op = "drop" /\ c.frames = <<>> /\ DOMAIN c.frames = {}
    OBVIOUS
  <2>. HIDE DEF c
  <2>. QED BY <2>1, <2>2, <2>3, CallAlone, Zenon
<1>. QED BY <1>1, <1>2, Zenon

\* The activations of the insertion on g change, and nothing else.
LEMMA FramesAlone ==
  ASSUME SharedInv, NEW g \in Graphs, Inserting(g), call[g].frames # <<>>, NEW F \in Seq(Frame),
         call' = [call EXCEPT ![g].frames = F], UNCHANGED <<vars, graph_registry>>,
         \A i \in DOMAIN F : FrameOK(F, ptr[call[g].arg], i)
  PROVE  StaysShared
<1>. DEFINE c == [call[g] EXCEPT !.frames = F]
<1>1. CallOK(g) /\ ArgsApart /\ call \in [Graphs -> CallType]
  BY DEF SharedInv, CallInv, GraphTypeOK, CallType
<1>2. /\ c \in CallType /\ c.op = call[g].op /\ c.arg = call[g].arg /\ c.frames = F
      /\ call' = [call EXCEPT ![g] = c]
  BY <1>1, Zenon DEF CallType
<1>3. /\ graph_registry[g] # Null /\ call[g].arg \in User /\ ptr[call[g].arg] # Null
      /\ call[g].op \in {"insert_node", "insert_ancestors"}
  BY <1>1 DEF CallOK, Inserting, Busy
<1>4. \A s \in Graphs \ {g} : Inserting(s) => call[s].arg # call[g].arg
  BY <1>1 DEF ArgsApart
<1>. HIDE DEF c
<1>5. \A i \in DOMAIN c.frames : FrameOK(c.frames, ptr[c.arg], i)
  BY <1>2
<1>6. /\ c.arg \in User /\ \A s \in Graphs \ {g} : Inserting(s) => call[s].arg # c.arg
      /\ c.op \in {"insert_node", "insert_ancestors"} /\ ptr[c.arg] # Null
  BY <1>2, <1>3, <1>4
<1>. QED BY <1>2, <1>3, <1>5, <1>6, CallAlone, Zenon

\* The loop of insert_ancestors, and insert_node of a node that is there.
LEMMA VisitStep ==
  ASSUME SharedInv, NEW g \in Graphs, Inserting(g), call[g].frames # <<>>,
         VisitParent(g) \/ FindNode(g)
  PROVE  StaysShared
<1>. DEFINE F == call[g].frames
            a == ptr[call[g].arg]
            f == Head(F)
            p == Head(f.todo)
            next == [f EXCEPT !.todo = Tail(@)]
            rest == <<next>> \o Tail(F)
            x == [node |-> p, todo |-> incoming[p]]
<1>0. /\ F \in Seq(Frame) /\ F # <<>> /\ \A i \in DOMAIN F : FrameOK(F, a, i)
      /\ TypeOK /\ AncestorsAlive /\ Tail(F) \in Seq(Frame) /\ F[1] = f
  <2>1. /\ F \in Seq(Frame) /\ \A i \in DOMAIN F : FrameOK(F, a, i)
        /\ TypeOK /\ AncestorsAlive
    BY Zenon DEF SharedInv, HeapInv, GraphTypeOK, CallInv, CallOK, GraphInv
  <2>2. Tail(F) \in Seq(Frame) /\ F[1] = f
    BY <2>1, Popped, Zenon
  <2>. QED BY <2>1, <2>2, Zenon
<1>1. /\ \A i \in DOMAIN Tail(F) : FrameOK(Tail(F), a, i)
      /\ Tail(F) = <<>> => f.node = a
      /\ Tail(F) # <<>> => f.node \in Parents(Tail(F)[1].node)
  BY <1>0, PopFrame, ZenonT(30)
<1>2. /\ f \in Frame /\ f.node \in live /\ f.node \in Addr /\ f.todo \in Seq(Addr)
      /\ Range(f.todo) \subseteq Parents(f.node)
  BY FirstFrame, Zenon DEF FrameOK
<1>3. CASE FindNode(g)
  <2>1. call' = [call EXCEPT ![g].frames = Tail(F)] /\ UNCHANGED <<vars, graph_registry>>
    BY <1>3 DEF FindNode
  <2>. HIDE DEF F, a
  <2>. QED BY <1>0, <1>1, <2>1, FramesAlone, Zenon DEF F, a
<1>4. CASE VisitParent(g)
  <2>1. f.todo # <<>>
    BY <1>4, ZenonT(30) DEF VisitParent
  <2>2. /\ p \in Addr /\ Tail(f.todo) \in Seq(Addr)
        /\ Range(f.todo) = Range(Tail(f.todo)) \cup {p}
    BY <1>2, <2>1, TailElements, Zenon
  <2>3. /\ next \in Frame /\ next.node = f.node /\ next.todo = Tail(f.todo)
    BY <1>2, <2>2, Zenon DEF Frame
  <2>4. p \in Parents(f.node) /\ p \in live /\ incoming[p] \in Seq(Addr)
    BY <1>0, <1>2, <2>2, ZenonT(30) DEF AncestorsAlive, TypeOK
  <2>5. x \in Frame /\ x.node = p /\ Range(x.todo) = Parents(p)
    BY <2>2, <2>4, Zenon DEF Frame, Parents
  <2>6. rest \in Seq(Frame) /\ rest # <<>> /\ rest[1] = next
    <3>. HIDE DEF F, next
    <3>. QED BY <1>0, <2>3, Pushed
  <2>7. \A i \in DOMAIN rest : FrameOK(rest, a, i)
    <3>. HIDE DEF F, a, next, f
    <3>. QED BY <1>0, <1>1, <1>2, <2>2, <2>3, PushFrame, ZenonT(30)
  <2>8. <<x>> \o rest \in Seq(Frame) /\ \A i \in DOMAIN (<<x>> \o rest) : FrameOK(<<x>> \o rest, a, i)
    <3>. HIDE DEF rest, a, x, f, p, next
    <3>. QED BY <2>3, <2>4, <2>5, <2>6, <2>7, PushFrame, Pushed
  <2>9. /\ \/ call' = [call EXCEPT ![g].frames = rest]
           \/ call' = [call EXCEPT ![g].frames = <<x>> \o rest]
        /\ UNCHANGED <<vars, graph_registry>>
    BY <1>4, Zenon DEF VisitParent
  <2>. HIDE DEF rest, x
  <2>. QED BY <1>0, <2>6, <2>7, <2>8, <2>9, FramesAlone, Zenon
<1>. QED BY <1>3, <1>4, ZenonT(30)

\* insert_node of a new node.
LEMMA StoreStep ==
  ASSUME SharedInv, Running, NEW g \in Graphs, Inserting(g), call[g].frames # <<>>, StoreNode(g)
  PROVE  StaysShared
<1>. DEFINE F == call[g].frames
            a == ptr[call[g].arg]
<1>0. /\ F \in Seq(Frame) /\ Tail(F) \in Seq(Frame) /\ \A i \in DOMAIN F : FrameOK(F, a, i)
      /\ TypeOK /\ call \in [Graphs -> CallType] /\ ArgsApart /\ \A s \in Graphs : CallOK(s)
  <2>1. /\ F \in Seq(Frame) /\ \A i \in DOMAIN F : FrameOK(F, a, i)
        /\ TypeOK /\ ArgsApart /\ \A s \in Graphs : CallOK(s)
    BY Zenon DEF SharedInv, GraphTypeOK, CallInv, CallOK
  <2>2. call \in [Graphs -> CallType]
    BY Zenon DEF SharedInv, GraphTypeOK, CallType
  <2>3. Tail(F) \in Seq(Frame)
    BY <2>1, Popped, Zenon
  <2>. QED BY <2>1, <2>2, <2>3, Zenon
<1>1. PICK c \in CallType :
        /\ c.op = call[g].op /\ c.arg = call[g].arg /\ c.frames = Tail(F)
        /\ call' = [call EXCEPT ![g] = c] /\ UNCHANGED <<graph_registry, regs, live, incoming>>
  <2>. DEFINE c == [call[g] EXCEPT !.frames = Tail(F)]
  <2>1. /\ c \in CallType /\ c.op = call[g].op /\ c.arg = call[g].arg /\ c.frames = Tail(F)
        /\ call' = [call EXCEPT ![g] = c] /\ UNCHANGED <<graph_registry, regs, live, incoming>>
    BY <1>0, Zenon DEF CallType, StoreNode
  <2>. QED BY <2>1, Zenon
<1>2. HeapKept /\ OnePerSlot'
  BY StoreKeepsHeap, Zenon
<1>3. PICK id \in NodeId :
        /\ ptr'[<<g, id>>] = Head(F).node
        /\ ptr_to_id'[graph_registry[g]][Head(F).node] = id
        /\ \A h \in Handle : h # <<g, id>> =>
             \/ ptr'[h] = ptr[h]
             \/ ptr'[h] = Null /\ \E k \in Evicted(g, id) : h = <<g, k>>
  BY StoreKeepsHeap, ZenonT(30)
<1>4. \A h \in Handle : h # <<g, id>> => ptr'[h] \in {ptr[h], Null}
  BY <1>3, Zenon
<1>5. \A h \in User : ptr'[h] = ptr[h]
  <2>. TAKE h \in User
  <2>1. h \in Handle /\ h # <<g, id>> /\ \A k \in Evicted(g, id) : h # <<g, k>>
    BY DEF User, Entry, Evicted
  <2>. QED BY <2>1, <1>3, Zenon
<1>6. /\ graph_registry[g] # Null /\ call[g].arg \in User /\ a # Null
      /\ call[g].op \in {"insert_node", "insert_ancestors"} /\ graph_registry[g] \in regs
  BY <1>0, Zenon DEF CallOK, Inserting, Busy
<1>7. \A s \in Graphs \ {g} : Inserting(s) => call[s].arg # call[g].arg
  BY <1>0 DEF ArgsApart
<1>8. \A s \in Graphs : call[s].frames # <<>> => ptr'[call[s].arg] = ptr[call[s].arg]
  BY <1>0, <1>5, Zenon DEF CallOK
<1>9. \A i \in DOMAIN Tail(F) : FrameOK(Tail(F), a, i)
  BY <1>0, PopFrame, ZenonT(30)
<1>10. \A s \in Graphs, k \in NodeId :
         \/ ptr'[<<s, k>>] \in {ptr[<<s, k>>], Null}
         \/ graph_registry[s] \in regs /\ ptr_to_id'[graph_registry[s]][ptr'[<<s, k>>]] = k
  <2>. TAKE s \in Graphs, k \in NodeId
  <2>1. CASE s = g /\ k = id
    BY <1>3, <1>6, <2>1, ZenonT(30)
  <2>2. CASE ~(s = g /\ k = id)
    BY <1>4, <2>2, EntryAssumption DEF Entry
  <2>. QED BY <2>1, <2>2, Zenon
<1>11. \A i \in DOMAIN c.frames : FrameOK(c.frames, ptr[c.arg], i)'
  BY <1>1, <1>5, <1>6, <1>9, ZenonT(30) DEF FrameOK, Parents
<1>12. /\ c.arg \in User /\ \A s \in Graphs \ {g} : Inserting(s) => call[s].arg # c.arg
       /\ c.op \in {"insert_node", "insert_ancestors"} /\ ptr'[c.arg] # Null
  BY <1>1, <1>5, <1>6, <1>7, Zenon
<1>. QED BY <1>1, <1>2, <1>6, <1>8, <1>10, <1>11, <1>12, CallChanges, ZenonT(30)

\* A variable or an entry of a graph is dropped, and every call is left with the
\* argument that it needs.
LEMMA DropKeeps ==
  ASSUME SharedInv, NEW h \in Handle, DropHandle(h)
  PROVE  /\ HeapKept /\ UNCHANGED regs
         /\ \A k \in Handle : ptr'[k] = IF k = h THEN Null ELSE ptr[k]
         /\ \A g \in Graphs : graph_registry[g] \in regs' \cup {Null}
         /\ \A g \in Graphs, id \in NodeId : ptr'[<<g, id>>] \in {ptr[<<g, id>>], Null}
<1>1. HeapKept
  BY NextKeepsHeap, Zenon DEF SharedInv, Next, TrackedNext, UseNodes
<1>2. UNCHANGED regs /\ \A k \in Handle : ptr'[k] = IF k = h THEN Null ELSE ptr[k]
  BY DEF DropHandle, registryVars, SharedInv, GraphTypeOK, TypeOK
<1>3. \A g \in Graphs, id \in NodeId : <<g, id>> \in Handle
  BY EntryAssumption, ZenonT(30) DEF Entry
<1>4. \A g \in Graphs : graph_registry[g] \in regs \cup {Null}
  BY Zenon DEF SharedInv, CallInv, CallOK
<1>. QED BY <1>1, <1>2, <1>3, <1>4, Zenon

\* insert_node refuses its node, or the insertion is over: the argument is
\* dropped.
LEMMA DropArgStep ==
  ASSUME SharedInv, NEW g \in Graphs, Inserting(g),
         \/ call[g].frames # <<>> /\ Refuse(g)
         \/ call[g].frames = <<>> /\ DropArg(g) /\ UNCHANGED call
  PROVE  StaysShared
<1>0. /\ call \in [Graphs -> CallType] /\ ArgsApart /\ \A s \in Graphs : CallOK(s)
  BY Zenon DEF SharedInv, GraphTypeOK, CallInv, CallType
<1>1. PICK c \in CallType :
        /\ c.op = call[g].op /\ c.arg = call[g].arg /\ c.frames = <<>>
        /\ call' = [call EXCEPT ![g] = c]
  <2>1. CASE call[g].frames # <<>> /\ Refuse(g)
    <3>. DEFINE c == [call[g] EXCEPT !.frames = <<>>]
    <3>1. <<>> \in Seq(Frame)
      OBVIOUS
    <3>2. c \in CallType /\ c.op = call[g].op /\ c.arg = call[g].arg /\ c.frames = <<>>
      BY <1>0, <3>1, ZenonT(30) DEF CallType
    <3>3. call' = [call EXCEPT ![g] = c]
      BY <2>1, Zenon DEF Refuse
    <3>. QED BY <3>2, <3>3, ZenonT(30)
  <2>2. CASE call[g].frames = <<>> /\ UNCHANGED call
    BY <1>0, <2>2
  <2>. QED BY <2>1, <2>2
<1>2. DropHandle(call[g].arg) /\ UNCHANGED graph_registry
  BY DEF Refuse, DropArg
<1>3. /\ graph_registry[g] # Null /\ call[g].arg \in User /\ call[g].arg \in Handle
      /\ call[g].op \in {"insert_node", "insert_ancestors"}
  BY <1>0, Zenon DEF CallOK, Inserting, Busy, User
<1>4. \A s \in Graphs \ {g} : Inserting(s) => call[s].arg # call[g].arg
  BY <1>0, ZenonT(30) DEF ArgsApart
<1>5. \A s \in Graphs \ {g} : call[s].frames # <<>> => call[s].arg \in Handle /\ Inserting(s)
  BY <1>0, Zenon DEF CallOK, User
<1>6. /\ HeapKept /\ UNCHANGED regs
      /\ \A k \in Handle : ptr'[k] = IF k = call[g].arg THEN Null ELSE ptr[k]
      /\ \A s \in Graphs, id \in NodeId : ptr'[<<s, id>>] \in {ptr[<<s, id>>], Null}
  BY <1>2, <1>3, DropKeeps, ZenonT(30)
<1>7. \A s \in Graphs \ {g} : call[s].frames # <<>> => ptr'[call[s].arg] = ptr[call[s].arg]
  BY <1>4, <1>5, <1>6, Zenon
<1>8. \A i \in DOMAIN c.frames : FrameOK(c.frames, ptr[c.arg], i)'
  <2>1. DOMAIN c.frames = {}
    BY <1>1
  <2>. QED BY <2>1, Zenon
<1>9. c.arg \in User /\ \A s \in Graphs \ {g} : Inserting(s) => call[s].arg # c.arg
  BY <1>1, <1>3, <1>4, Zenon
<1>10. OnePerSlot'
  BY <1>6, FewerPerSlot, ZenonT(30) DEF SharedInv
<1>. QED BY <1>1, <1>2, <1>3, <1>6, <1>7, <1>8, <1>9, <1>10, CallChanges, ZenonT(30)

\* An entry of a graph that is being dropped.
LEMMA DropEntryStep ==
  ASSUME SharedInv, NEW g \in Graphs, DropEntry(g)
  PROVE  StaysShared
<1>1. PICK id \in NodeId : DropHandle(<<g, id>>) /\ UNCHANGED graphVars
  BY DEF DropEntry
<1>2. <<g, id>> \in Handle /\ <<g, id>> \notin User
  BY EntryAssumption, ZenonT(30) DEF Entry, User
<1>3. \A s \in Graphs : call[s].frames # <<>> => call[s].arg \in User
  BY Zenon DEF SharedInv, CallInv, CallOK
<1>4. \A s \in Graphs : call[s].frames # <<>> => ptr'[call[s].arg] = ptr[call[s].arg]
  <2>1. \A k \in Handle : ptr'[k] = IF k = <<g, id>> THEN Null ELSE ptr[k]
    BY <1>1, <1>2, DropKeeps, Zenon
  <2>2. \A h \in User : h \in Handle /\ h # <<g, id>>
    BY <1>2, Zenon DEF User
  <2>. QED BY <1>3, <2>1, <2>2, Zenon
<1>. QED BY <1>1, <1>2, <1>4, DropKeeps, BesideKeeps

\* A graph that does not exist has no entries and no call.
LEMMA NoGraph ==
  ASSUME SharedInv, NEW g \in Graphs, graph_registry[g] = Null
  PROVE  /\ call[g].op = "none" /\ call[g].frames = <<>>
         /\ \A id \in NodeId : ptr[<<g, id>>] = Null
<1>1. CallOK(g) /\ Null \notin regs
  BY NullAssumption DEF SharedInv, CallInv, GraphTypeOK, TypeOK, RegistryTypeOK
<1>2. call[g].op = "none" /\ call[g].frames = <<>>
  BY <1>1 DEF CallOK, Busy, Inserting
<1>3. \A id \in NodeId : ptr[<<g, id>>] = Null
  BY <1>1, Zenon DEF SharedInv, EntriesIssued, ContainsId, GetNode
<1>. QED BY <1>2, <1>3

\* Nothing is asked of a graph without a call but that its registry exists.
LEMMA NoCallOK ==
  ASSUME NEW g \in Graphs, graph_registry'[g] \in regs' \cup {Null},
         call'[g].op = "none", call'[g].frames = <<>>
  PROVE  CallOK(g)'
<1>1. DOMAIN call'[g].frames = {}
  OBVIOUS
<1>. QED BY <1>1 DEF CallOK, Busy, Inserting

\* Graphs are created, cloned and dropped.
LEMMA GraphsStep ==
  ASSUME SharedInv, NEW g \in Graphs,
         \/ \E r \in Registries : WithRegistry(g, r)
         \/ \E s \in Graphs : CloneGraph(s, g)
         \/ Running /\ Busy(g) /\ DropGraphRegistry(g)
  PROVE  StaysShared
<1>0. /\ graph_registry \in [Graphs -> Registries \cup {Null}]
      /\ call \in [Graphs -> CallType] /\ ArgsApart /\ \A s \in Graphs : CallOK(s)
      /\ TypeOK /\ HeapInv /\ regs \subseteq Registries
  BY ZenonT(30) DEF SharedInv, GraphTypeOK, CallType, CallInv, TypeOK, RegistryTypeOK
<1>1. \A s \in Graphs : call[s].frames # <<>> => call[s].arg \in User
  BY <1>0, Zenon DEF CallOK
<1>2. ASSUME NEW r \in Registries, WithRegistry(g, r) PROVE StaysShared
  <2>1. /\ UNCHANGED <<vars, call>> /\ graph_registry[g] = Null /\ r \in regs
        /\ graph_registry' = [graph_registry EXCEPT ![g] = r]
    BY <1>2 DEF WithRegistry
  <2>2. UNCHANGED <<ptr, regs>> /\ HeapKept
    BY <1>0, <2>1, NextKeepsHeap, ZenonT(30) DEF vars, heapVars, registryVars
  <2>3. ASSUME NEW s \in Graphs \ {g}
        PROVE  graph_registry'[s] = graph_registry[s] /\ CallOK(s)'
    <3>1. graph_registry'[s] = graph_registry[s] /\ graph_registry[s] \in regs' \cup {Null}
      BY <1>0, <2>1, <2>2, Zenon DEF CallOK
    <3>. QED BY <3>1, <2>1, <2>2, CallKept, Zenon
  <2>4. CallOK(g)'
    BY <1>0, <2>1, <2>2, NoGraph, NoCallOK, ZenonT(30)
  <2>5. CallInv'
    BY <1>0, <2>1, <2>3, <2>4 DEF CallInv, ArgsApart, Inserting
  <2>6. EntriesKept
    <3>1. \A s \in Graphs, id \in NodeId : ptr'[<<s, id>>] # Null =>
            ptr'[<<s, id>>] = ptr[<<s, id>>] /\ graph_registry'[s] = graph_registry[s]
      BY <2>1, <2>2, <2>3, NoGraph
    <3>. QED BY <3>1, EntriesLeft, ZenonT(30) DEF EntriesKept
  <2>8. OnePerSlot'
    BY <2>2, Zenon DEF SharedInv, OnePerSlot, AllNodeIds, ContainsId, GetNode
  <2>7. graph_registry' \in [Graphs -> Registries \cup {Null}] /\ call' \in [Graphs -> CallType]
    BY <1>0, <2>1, Zenon
  <2>. QED BY <2>2, <2>5, <2>6, <2>7, <2>8, Assemble, ZenonT(30)
<1>3. ASSUME NEW s \in Graphs, CloneGraph(s, g) PROVE StaysShared
  <2>1. /\ UNCHANGED <<call, registryVars>> /\ graph_registry[g] = Null /\ graph_registry[s] # Null
        /\ graph_registry' = [graph_registry EXCEPT ![g] = graph_registry[s]]
    BY <1>3 DEF CloneGraph, Usable
  <2>2. UNCHANGED <<regs, ptr_to_id>> /\ HeapKept
    BY <1>3, <2>1, CloneKeepsHeap, ZenonT(30) DEF registryVars
  <2>3. /\ \A id \in NodeId : ptr'[<<g, id>>] = ptr[<<s, id>>]
        /\ \A h \in Handle : (\A id \in NodeId : h # <<g, id>>) => ptr'[h] = ptr[h]
    BY <1>3, CloneKeepsHeap
  <2>4. \A h \in User : ptr'[h] = ptr[h]
    BY <2>3 DEF User, Entry
  <2>5. ASSUME NEW q \in Graphs \ {g}
        PROVE  graph_registry'[q] = graph_registry[q] /\ CallOK(q)'
    <3>1. graph_registry'[q] = graph_registry[q] /\ graph_registry[q] \in regs' \cup {Null}
      BY <1>0, <2>1, <2>2, ZenonT(30) DEF CallOK
    <3>2. call[q].frames # <<>> => ptr'[call[q].arg] = ptr[call[q].arg]
      BY <1>1, <2>4
    <3>. QED BY <3>1, <3>2, <2>1, <2>2, CallKept, Zenon
  <2>6. CallOK(g)'
    <3>1. graph_registry'[g] \in regs' \cup {Null}
      BY <1>0, <2>1, <2>2, Zenon DEF CallOK
    <3>2. call'[g].op = "none" /\ call'[g].frames = <<>>
      BY <2>1, NoGraph, Zenon
    <3>. QED BY <3>1, <3>2, NoCallOK, ZenonT(30)
  <2>7. CallInv'
    BY <1>0, <2>1, <2>5, <2>6, Zenon DEF CallInv, ArgsApart, Inserting
  <2>8. EntriesKept
    <3>1. graph_registry'[g] = graph_registry[s]
      BY <1>0, <2>1, Zenon
    <3>2. \A q \in Graphs \ {g}, id \in NodeId : ptr'[<<q, id>>] = ptr[<<q, id>>]
      BY <2>3, EntryAssumption DEF Entry
    <3>. QED BY <2>3, <2>5, <3>1, <3>2, ZenonT(30) DEF EntriesKept
  <2>10. OnePerSlot'
    <3>1. \A q \in Graphs : \E p \in Graphs : \A id \in NodeId : ptr'[<<q, id>>] = ptr[<<p, id>>]
      BY <2>3, EntryAssumption DEF Entry
    <3>. SUFFICES ASSUME NEW q \in Graphs, NEW i \in NodeId, NEW j \in NodeId,
                         ptr'[<<q, i>>] # Null, ptr'[<<q, j>>] # Null, Slot(i) = Slot(j)
                  PROVE  i = j
      BY Zenon DEF OnePerSlot, AllNodeIds, ContainsId, GetNode
    <3>2. PICK p \in Graphs : ptr[<<p, i>>] # Null /\ ptr[<<p, j>>] # Null
      BY <3>1, Zenon
    <3>. QED BY <3>2, Zenon DEF SharedInv, OnePerSlot, AllNodeIds, ContainsId, GetNode
  <2>9. graph_registry' \in [Graphs -> Registries \cup {Null}] /\ call' \in [Graphs -> CallType]
    BY <1>0, <2>1
  <2>. QED BY <2>2, <2>7, <2>8, <2>9, <2>10, Assemble, ZenonT(30)
<1>4. ASSUME Running, Busy(g), DropGraphRegistry(g) PROVE StaysShared
  <2>1. /\ call' = [call EXCEPT ![g] = NoCall] /\ AllNodeIds(g) = {}
        /\ graph_registry' = [graph_registry EXCEPT ![g] = Null] /\ UNCHANGED heapVars
    BY <1>4, ZenonT(30) DEF DropGraphRegistry
  <2>2. graph_registry[g] \in regs /\ graph_registry[g] \in Registries
    BY <1>0, <1>4 DEF CallOK
  <2>3. \/ UNCHANGED registryVars
        \/ /\ \A s \in Graphs \ {g} : graph_registry[s] # graph_registry[g]
           /\ DestroyRegistry(graph_registry[g])
    BY <1>4 DEF DropGraphRegistry
  <2>4. HeapKept
    <3>1. CASE UNCHANGED registryVars
      BY <1>0, <2>1, <3>1, NextKeepsHeap DEF vars
    <3>2. CASE DestroyRegistry(graph_registry[g])
      <4>1. BaseNext
        BY <1>4, <2>1, <2>2, <3>2, Zenon DEF BaseNext, DropRegistry
      <4>. QED BY <1>0, <4>1, BaseSteps, NextKeepsHeap, Zenon
    <3>. QED BY <2>3, <3>1, <3>2
  <2>5. UNCHANGED ptr /\ \A s \in Graphs \ {g} : graph_registry[s] \in regs' \cup {Null}
    BY <1>0, <2>1, <2>3, ZenonT(30) DEF heapVars, registryVars, DestroyRegistry, CallOK
  <2>6. \A s \in Graphs \ {g} : graph_registry'[s] = graph_registry[s] /\ CallOK(s)'
    <3>. TAKE s \in Graphs \ {g}
    <3>1. graph_registry'[s] = graph_registry[s] /\ call'[s] = call[s]
      BY <1>0, <2>1
    <3>. QED BY <3>1, <2>4, <2>5, CallKept
  <2>7. NoCall \in CallType /\ NoCall.op = "none" /\ NoCall.frames = <<>>
    BY DEF NoCall, CallType
  <2>8. call'[g] = NoCall /\ graph_registry'[g] = Null
    BY <1>0, <2>1
  <2>9. CallOK(g)'
    BY <2>7, <2>8, NoCallOK, Zenon
  <2>10. CallInv'
    <3>1. \A s \in Graphs \ {g} : call'[s] = call[s]
      BY <1>0, <2>1, ZenonT(30)
    <3>2. ~Inserting(g)'
      BY <2>7, <2>8 DEF Inserting
    <3>3. ArgsApart'
      BY <1>0, <3>1, <3>2, Zenon DEF ArgsApart, Inserting
    <3>. QED BY <2>6, <2>9, <3>3, Zenon DEF CallInv
  <2>11. EntriesKept
    <3>1. \A s \in Graphs, id \in NodeId : ptr'[<<s, id>>] # Null =>
            ptr'[<<s, id>>] = ptr[<<s, id>>] /\ graph_registry'[s] = graph_registry[s]
      BY <2>1, <2>5, <2>6, Zenon DEF AllNodeIds, ContainsId, GetNode
    <3>. QED BY <3>1, EntriesLeft, Zenon DEF EntriesKept
  <2>13. OnePerSlot'
    BY <2>5, ZenonT(30) DEF SharedInv, OnePerSlot, AllNodeIds, ContainsId, GetNode
  <2>12. graph_registry' \in [Graphs -> Registries \cup {Null}] /\ call' \in [Graphs -> CallType]
    BY <1>0, <2>1, <2>7
  <2>. QED BY <2>4, <2>10, <2>11, <2>12, <2>13, Assemble, ZenonT(30)
<1>. QED BY <1>2, <1>3, <1>4

\* An insertion returns.
LEMMA ReturnStep ==
  ASSUME SharedInv, NEW g \in Graphs, Return(g)
  PROVE  StaysShared
<1>1. NoCall \in CallType /\ NoCall.op = "none" /\ NoCall.frames = <<>> /\ DOMAIN NoCall.frames = {}
  BY DEF NoCall, CallType
<1>2. call' = [call EXCEPT ![g] = NoCall] /\ UNCHANGED <<vars, graph_registry>>
  BY DEF Return
<1>. QED BY <1>1, <1>2, CallAlone, ZenonT(30)

-----------------------------------------------------------------------------
(* Theorems for every program *)

\* SharedInv is inductive, whatever the program does.
LEMMA SharedStep ==
  ASSUME SharedInv, [HistoryNext]_historyVars
  PROVE  StaysShared
<1>1. CASE UseBeside \/ Drops \/ UNCHANGED historyVars \/ RemoveIds
  BY <1>1, BesideStep, Zenon
<1>2. CASE UseGraphs
  <2>1. ASSUME NEW g \in Graphs, CallStep(g) PROVE StaysShared
    <3>0. Running /\ Busy(g)
      BY <2>1 DEF CallStep, Proceeds
    <3>1. CASE Insert(g)
      BY <3>0, <3>1, VisitStep, StoreStep, DropArgStep, Zenon DEF Insert, Inserting
    <3>2. CASE Return(g) \/ DropEntry(g)
      BY <3>2, ReturnStep, DropEntryStep, Zenon
    <3>3. CASE DropGraphRegistry(g)
      BY <3>0, <3>3, GraphsStep, Zenon
    <3>. QED BY <2>1, <3>1, <3>2, <3>3, Zenon DEF CallStep
  <2>2. CASE (\E g \in Graphs, r \in Registries : WithRegistry(g, r))
             \/ (\E g, s \in Graphs : CloneGraph(g, s))
    BY <2>2, GraphsStep, Zenon
  <2>3. CASE (\E g \in Graphs : DropGraph(g))
             \/ (\E g \in Graphs, h \in Own : InsertAncestors(g, h))
    BY <2>3, BeginStep, Zenon
  <2>. QED BY <1>2, <2>1, <2>2, <2>3, Zenon DEF UseGraphs
<1>3. CASE InsertAlone
  BY <1>3, BeginStep, BesideStep, Zenon DEF InsertAlone
<1>. QED BY <1>1, <1>2, <1>3, Zenon DEF HistoryNext, KeptNext, AncestralNext

\* A program starts without graphs and without calls.
LEMMA SharedInvInit == HistoryInit => SharedInv
<1>. SUFFICES ASSUME HistoryInit PROVE SharedInv
  OBVIOUS
<1>1. Init /\ GraphInv /\ RegistryInv
  BY GraphInit, RegistryInvInit DEF HistoryInit
<1>2. /\ graph_registry = [g \in Graphs |-> Null] /\ call = [g \in Graphs |-> NoCall]
      /\ \A g \in Graphs, id \in NodeId : ptr[<<g, id>>] = Null
  BY <1>1, EntryAssumption DEF HistoryInit, Init, Entry
<1>3. NoCall \in CallType /\ NoCall.op = "none" /\ NoCall.frames = <<>> /\ DOMAIN NoCall.frames = {}
  BY DEF NoCall, CallType
<1>4. GraphTypeOK
  BY <1>1, <1>2, <1>3 DEF GraphTypeOK, CallType, GraphInv
<1>5. SlotInv
  BY <1>1, ZenonT(30) DEF SlotInv, Init, RegistryInit, NoNodes
<1>6. CallInv
  BY <1>2, <1>3 DEF CallInv, CallOK, ArgsApart, Busy, Inserting
<1>7. EntriesIssued /\ SharedIdsConsistent /\ OnePerSlot
  BY <1>2, Zenon DEF EntriesIssued, SharedIdsConsistent, OnePerSlot, AllNodeIds, ContainsId, GetNode
<1>. QED BY <1>1, <1>4, <1>5, <1>6, <1>7, Zenon DEF SharedInv, HeapInv

\* Insertions, drops, registrations and removals keep what the graphs that share
\* a registry rely on.
LEMMA SharedInvariant == HistorySpec => []SharedInv
<1>1. SharedInv /\ [HistoryNext]_historyVars => SharedInv'
  BY SharedStep, Zenon DEF StaysShared
<1>. QED BY <1>1, SharedInvInit, PTL DEF HistorySpec

\* The fields of history graphs and the calls on them have their types.
THEOREM GraphTypes == HistorySpec => []GraphTypeOK
<1>1. SharedInv => GraphTypeOK
  BY DEF SharedInv
<1>. QED BY <1>1, SharedInvariant, PTL

\* A program that works with history graphs breaks nothing of what RelRc and its
\* registries promise: the entries of graphs are owners like any other, and
\* insertions register nodes like any other.
THEOREM GraphsKeepPromises ==
  HistorySpec => [](/\ AncestorsAlive /\ NoLeak /\ EdgesAgree /\ Acyclic /\ Accounted
                    /\ MapsInverse /\ PointersNotDangling)
<1>1. SharedInv => /\ AncestorsAlive /\ NoLeak /\ EdgesAgree /\ Acyclic /\ Accounted
                   /\ MapsInverse /\ PointersNotDangling
  BY AcyclicGraphsDoNotLeak, PointersValid, Zenon DEF SharedInv, HeapInv, GraphInv, RegistryInv
<1>. QED BY <1>1, SharedInvariant, PTL

\* Graphs that share a registry never have different nodes under one id, and
\* neither have a graph and its registry: also when Registry::remove takes away
\* an id that graphs still use and the registry reuses its slot.
THEOREM SharedIds == HistorySpec => []SharedIdsConsistent
<1>1. SharedInv => SharedIdsConsistent
  BY DEF SharedInv
<1>. QED BY <1>1, SharedInvariant, PTL

-----------------------------------------------------------------------------
(* What an insertion may evict *)

\* Only the drop of a graph, and insert_node of a new node, touch its entries.
LEMMA EntriesStay ==
  ASSUME SharedInv, [HistoryNext]_historyVars,
         NEW g \in Graphs, call[g].op # "drop", NEW id \in NodeId, ContainsId(g, id)
  PROVE  \/ ptr'[<<g, id>>] = ptr[<<g, id>>]
         \/ Running /\ call[g].frames # <<>> /\ StoreNode(g)
<1>0. /\ TypeOK /\ Own \in SUBSET User /\ User \in SUBSET Handle /\ <<g, id>> \in Handle
      /\ <<g, id>> \notin User /\ graph_registry[g] # Null
  <2>1. TypeOK /\ graph_registry[g] \in Registries /\ <<g, id>> \in Handle
    BY EntryHeld, Zenon DEF SharedInv, GraphTypeOK
  <2>2. graph_registry[g] # Null
    BY <2>1, NullAssumption, Zenon
  <2>3. Own \in SUBSET User /\ User \in SUBSET Handle /\ <<g, id>> \notin User
    BY Zenon DEF Entry, User, Own
  <2>. QED BY <2>1, <2>2, <2>3, Zenon
<1>1. ASSUME UNCHANGED ptr PROVE ptr'[<<g, id>>] = ptr[<<g, id>>]
  BY <1>1, Zenon
<1>2. CASE UNCHANGED historyVars \/ RemoveIds \/ Drops
  <2>1. CASE UNCHANGED historyVars
    BY <1>1, <2>1, Zenon DEF historyVars, vars, heapVars
  <2>2. CASE RemoveIds
    BY <1>1, <2>2, Zenon DEF RemoveIds, Remove, heapVars
  <2>3. CASE Drops
    BY <1>1, <2>3, Zenon DEF Drops, DropShared, DropLast, DropFields, DropNextEdge, DropOutgoing
  <2>. QED BY <1>2, <2>1, <2>2, <2>3, Zenon
<1>3. CASE UseBeside
  <2>1. CASE UseNodes(Own) \/ UseRegistries(Own)
    BY <1>0, <2>1, OwnSlots, Zenon
  <2>2. CASE \E r \in Registries : DropRegistry(r)
    BY <1>1, <2>2, Zenon DEF DropRegistry, heapVars
  <2>. QED BY <1>3, <2>1, <2>2, Zenon DEF UseBeside
<1>4. ASSUME NEW s \in Graphs, CallStep(s)
      PROVE  \/ ptr'[<<g, id>>] = ptr[<<g, id>>]
             \/ Running /\ call[g].frames # <<>> /\ StoreNode(g)
  <2>0. Running /\ Busy(s)
    BY <1>4, Zenon DEF CallStep, Proceeds
  <2>1. CASE Return(s) \/ DropGraphRegistry(s)
    BY <1>1, <2>1, Zenon DEF Return, DropGraphRegistry, vars, heapVars
  <2>2. CASE DropEntry(s)
    <3>1. PICK k \in NodeId : DropHandle(<<s, k>>)
      BY <2>2, Zenon DEF DropEntry
    <3>2. s # g /\ <<s, k>> # <<g, id>> /\ <<s, k>> \in Handle
      BY <2>2, EntryAssumption DEF DropEntry, Entry
    <3>. QED BY <1>0, <3>1, <3>2, DropKeeps, Zenon
  <2>3. CASE Inserting(s) /\ call[s].frames # <<>> /\ (VisitParent(s) \/ FindNode(s))
    BY <1>1, <2>3, Zenon DEF VisitParent, FindNode, vars, heapVars
  <2>4. CASE Inserting(s) /\ call[s].frames # <<>> /\ StoreNode(s)
    <3>1. CASE s = g
      BY <2>0, <2>4, <3>1, Zenon
    <3>2. CASE s # g
      <4>1. \A k \in NodeId : <<s, k>> # <<g, id>>
        BY <3>2
      <4>2. PICK k \in NodeId :
              \/ ptr'[<<g, id>>] = ptr[<<g, id>>]
              \/ \E j \in Evicted(s, k) : <<g, id>> = <<s, j>>
        BY <1>0, <2>0, <2>4, <4>1, StoreKeepsHeap, ZenonT(30)
      <4>. QED BY <4>1, <4>2, Zenon DEF Evicted
    <3>. QED BY <3>1, <3>2
  <2>5. CASE Inserting(s) /\ (Refuse(s) \/ DropArg(s))
    <3>1. DropHandle(call[s].arg) /\ call[s].arg \in User
      BY <2>5, Zenon DEF Refuse, DropArg, SharedInv, CallInv, CallOK
    <3>. QED BY <1>0, <3>1, DropKeeps, Zenon
  <2>. QED BY <1>4, <2>1, <2>2, <2>3, <2>4, <2>5, Zenon DEF CallStep, Insert, Inserting
<1>5. CASE UseGraphs
  <2>1. ASSUME NEW s \in Graphs, NEW q \in Graphs, CloneGraph(q, s)
        PROVE  ptr'[<<g, id>>] = ptr[<<g, id>>]
    <3>1. s # g
      BY <1>0, <2>1, Zenon DEF CloneGraph
    <3>2. \A k \in NodeId : <<g, id>> # <<s, k>>
      BY <3>1
    <3>. QED BY <1>0, <2>1, <3>2, CloneKeepsHeap, Zenon
  <2>2. CASE (\E s \in Graphs, r \in Registries : WithRegistry(s, r)) \/ (\E s \in Graphs : DropGraph(s))
             \/ (\E s \in Graphs, h \in Own : InsertAncestors(s, h))
    BY <1>1, <2>2, Zenon DEF WithRegistry, DropGraph, InsertAncestors, Begin, vars, heapVars
  <2>. QED BY <1>4, <1>5, <2>1, <2>2, Zenon DEF UseGraphs
<1>6. CASE InsertAlone
  BY <1>1, <1>6, Zenon DEF InsertAlone, InsertNode, Begin, AddUntracked, AddNode, CloneRegistry, vars, heapVars
<1>. QED BY <1>2, <1>3, <1>5, <1>6, Zenon DEF HistoryNext, KeptNext, AncestralNext

\* A registry has a node under the id that it knows the node by.
LEMMA KnownNode ==
  ASSUME MapsInverse, NEW r \in Registries, NEW a \in Addr, NEW id \in NodeId, ptr_to_id[r][a] = id
  PROVE  nodes[r][id] = a
BY DEF MapsInverse

\* Registry::add_node leaves the ids in use alone.
LEMMA AddNodeToKeepsNodes ==
  ASSUME RegistryTypeOK, NEW r \in Registries, NEW a \in Addr, AddNodeTo(r, a),
         NEW id \in NodeId, id \in issued[r]
  PROVE  nodes'[r][id] = nodes[r][id]
<1>1. nodes \in [Registries -> [NodeId -> Addr \cup {Null}]]
  BY DEF RegistryTypeOK
<1>2. ASSUME NEW j \in NodeId, j # id, nodes' = [nodes EXCEPT ![r][j] = a]
      PROVE  nodes'[r][id] = nodes[r][id]
  BY <1>1, <1>2
<1>. QED BY <1>2, Zenon DEF AddNodeTo, FreshKey

\* The node that insert_node evicts had an id whose slot the registry has given
\* to another node, so the registry no longer knew it.
LEMMA StoreKeepsContained ==
  ASSUME SharedInv, Running, NEW g \in Graphs, call[g].frames # <<>>, StoreNode(g),
         NEW a \in AllNodes(g), Contains(g, a)
  PROVE  a \in AllNodes(g)'
<1>. DEFINE r == graph_registry[g]
            n == Head(call[g].frames).node
            k == ptr_to_id[r][a]
<1>1. n \in Addr /\ r \in Registries /\ AddNodeTo(r, n)
  BY FirstFrame, Zenon DEF StoreNode
<1>2. a \in Addr /\ k # Null /\ ContainsId(g, k) /\ ptr_to_id[r][a] = k
  <2>1. a \in Addr
    BY EntryHeld, Zenon DEF AllNodes, AllNodeIds
  <2>. QED BY <2>1, Zenon DEF Contains, GetNodeId, GetId
<1>3. PICK id \in NodeId :
        /\ ptr_to_id'[r][n] = id
        /\ \A h \in Handle : h # <<g, id>> =>
             \/ ptr'[h] = ptr[h]
             \/ ptr'[h] = Null /\ \E j \in Evicted(g, id) : h = <<g, j>>
        /\ ptr[<<g, id>>] = Null
  BY StoreKeepsHeap, Zenon
<1>4. RegistryTypeOK /\ MapsInverse
  BY Zenon DEF SharedInv, HeapInv, GraphTypeOK, TypeOK, RegistryInv
<1>5. SlotInv' /\ MapsInverse'
  BY StoreKeepsHeap, Zenon DEF HeapKept, HeapInv, RegistryInv
<1>6. k \in NodeId
  <2>1. ptr_to_id \in [Registries -> [Addr -> NodeId \cup {Null}]]
    BY <1>4, Zenon DEF RegistryTypeOK
  <2>. QED BY <1>1, <1>2, <2>1, Zenon
<1>7. /\ <<g, k>> \in Handle /\ GetNode(g, k) # Null /\ k \in issued[r]
      /\ nodes[r][k] \in {GetNode(g, k), Null}
  BY <1>2, <1>6, EntryHeld, Zenon DEF ContainsId
<1>. HIDE DEF r, n, k
<1>8. a # Null /\ n # Null
  BY <1>1, <1>2, NullAssumption, Zenon
<1>9. nodes[r][k] = a /\ nodes'[r][id] = n
  <2>1. nodes[r][k] = a
    BY <1>1, <1>2, <1>4, <1>6, KnownNode, ZenonT(30)
  <2>2. nodes'[r][id] = n
    BY <1>1, <1>3, <1>5 DEF MapsInverse
  <2>. QED BY <2>1, <2>2, Zenon
<1>10. GetNode(g, k) = a /\ nodes'[r][k] = a
  BY <1>1, <1>4, <1>6, <1>7, <1>8, <1>9, AddNodeToKeepsNodes, Zenon
<1>11. k \notin Evicted(g, id)
  BY <1>1, <1>5, <1>6, <1>8, <1>9, <1>10, Zenon DEF SlotInv, Evicted
<1>12. <<g, k>> # <<g, id>> /\ ~\E j \in Evicted(g, id) : <<g, k>> = <<g, j>>
  BY <1>3, <1>7, <1>11, Zenon DEF GetNode
<1>13. ptr'[<<g, k>>] = a
  BY <1>3, <1>7, <1>10, <1>12, Zenon DEF GetNode
<1>. QED BY <1>6, <1>8, <1>13, Zenon DEF AllNodes, AllNodeIds, ContainsId, GetNode

\* A graph never loses a node that HistoryGraph::contains reports, until it is
\* dropped: what HistoryGraph::insert_node evicts had its id removed by hand.
THEOREM ContainedNodesStay == HistorySpec => ContainedStays
<1>. DEFINE Kept(g) == \A a \in AllNodes(g) : Contains(g, a) => a \in AllNodes(g)'
<1>1. ASSUME SharedInv, [HistoryNext]_historyVars,
             NEW g \in Graphs, call[g].op # "drop", NEW a \in AllNodes(g), Contains(g, a)
      PROVE  a \in AllNodes(g)'
  <2>1. PICK id \in NodeId : ContainsId(g, id) /\ a = ptr[<<g, id>>]
    BY Zenon DEF AllNodes, AllNodeIds, GetNode
  <2>2. CASE ptr'[<<g, id>>] = ptr[<<g, id>>]
    BY <2>1, <2>2, Zenon DEF AllNodes, AllNodeIds, ContainsId, GetNode
  <2>3. CASE Running /\ call[g].frames # <<>> /\ StoreNode(g)
    BY <1>1, <2>3, StoreKeepsContained, Zenon
  <2>. QED BY <1>1, <2>1, <2>2, <2>3, EntriesStay, Zenon
<1>2. SharedInv /\ [HistoryNext]_historyVars =>
        [\A g \in Graphs : call[g].op # "drop" => Kept(g)]_historyVars
  BY <1>1, Zenon
<1>. QED BY <1>2, SharedInvariant, PTL DEF HistorySpec, ContainedStays

=============================================================================
