--------------------------- MODULE RegistryProofs ---------------------------
(***************************************************************************)
(* Proofs about the registries of RelRc, for any number of registries and  *)
(* ids: the two maps of a registry stay inverse, raw pointers never        *)
(* dangle, and an id never comes to denote another node; for programs that *)
(* register nodes through RelRc::try_register_in only, ids never go stale. *)
(* Then what history graphs rely on: a slot of a registry has one id in    *)
(* use, live nodes that someone owns stay alive with their parents, and    *)
(* but for Registry::remove they keep their ids.                           *)
(***************************************************************************)
EXTENDS HistoryGraph, RelRcProofs

-----------------------------------------------------------------------------
(* The inductive invariant of the registries *)

\* The inductive invariant of the registries: besides MapsInverse, an id in
\* use was issued, so that a fresh key never overwrites an entry, and a
\* registry that does not exist holds nothing.
RegistryInv ==
  /\ MapsInverse
  /\ \A r \in Registries, id \in NodeId : nodes[r][id] # Null => id \in issued[r]
  /\ \A r \in Registries \ regs : nodes[r] = NoNodes /\ ptr_to_id[r] = NoPtrs

-----------------------------------------------------------------------------
(* What a step may do to the registries *)

RegistryChange ==
  \/ UNCHANGED registryVars
  \/ \E r \in Registries \ regs : CreateRegistry(r)
  \/ \E r \in regs, s \in Registries \ regs : CopyRegistry(r, s)
  \/ \E r \in regs : DestroyRegistry(r)
  \/ \E r \in regs, a \in Addr : AddNodeTo(r, a) /\ UNCHANGED regs
  \/ \E r \in regs, id \in NodeId : RemoveFrom(r, id) /\ UNCHANGED regs
  \/ \E r \in regs : FreeDead(r, live) /\ UNCHANGED regs

\* The end of RelRc::drop removes an id or none.
LEMMA DeregisterChange ==
  ASSUME TypeOK, NEW a \in Addr, Deregister(a), UNCHANGED regs
  PROVE  RegistryChange
<1>1. CASE registry[a] \in regs /\ GetId(registry[a], a) # Null
  <2>1. registry[a] \in Registries
    BY <1>1 DEF TypeOK, RegistryTypeOK
  <2>2. GetId(registry[a], a) \in NodeId
    BY <1>1, <2>1 DEF GetId, TypeOK, RegistryTypeOK
  <2>3. RemoveFrom(registry[a], GetId(registry[a], a))
    BY <1>1, Zenon DEF Deregister
  <2>. QED BY <1>1, <2>2, <2>3, Zenon DEF RegistryChange
<1>2. CASE ~(registry[a] \in regs /\ GetId(registry[a], a) # Null)
  BY <1>2, Zenon DEF Deregister, RegistryChange, registryVars
<1>. QED BY <1>1, <1>2, Zenon

\* Every step does one of these, or leaves the registries alone.
LEMMA RegistryChanges == TypeOK /\ [Next]_vars => RegistryChange
<1>. SUFFICES ASSUME TypeOK, [Next]_vars PROVE RegistryChange
  OBVIOUS
<1>0. \A h \in Handle : ptr[h] # Null => ptr[h] \in Addr
  BY DEF TypeOK
<1>1. CASE UNCHANGED registryVars
  BY <1>1, Zenon DEF RegistryChange
<1>2. CASE UseNodes(Handle) \/ UNCHANGED vars
  BY <1>1, <1>2, Zenon DEF UseNodes, WithParents, Clone, TakeParent, Upgrade, AllOutgoing, TakeChild,
     DropHandle, Downgrade, TakeWeakEdge, DropWeak, Acquire, SetWeak, vars
<1>3. CASE UseRegistries(Handle) \/ GiveUp
  <2>1. CASE \E r \in Registries : NewRegistry(r) \/ DropRegistry(r) \/ FreeNodeIds(r)
    BY <2>1, Zenon DEF NewRegistry, DropRegistry, FreeNodeIds, RegistryChange
  <2>2. ASSUME NEW r \in Registries, NEW h \in Handle, TryRegisterIn(h, r) PROVE RegistryChange
    <3>1. r \in regs /\ ptr[h] # Null /\ AddNodeTo(r, ptr[h]) /\ UNCHANGED regs
      BY <2>2, Zenon DEF TryRegisterIn
    <3>. QED BY <1>0, <3>1, Zenon DEF RegistryChange
  <2>3. CASE \E r \in Registries, id \in NodeId : Remove(r, id)
    BY <2>3, Zenon DEF Remove, RegistryChange
  <2>4. CASE \E h \in Handle, r \in Registries, id \in NodeId : Get(h, r, id)
    BY <1>1, <2>4, Zenon DEF Get, Acquire
  <2>. QED BY <1>3, <2>1, <2>2, <2>3, <2>4, Zenon DEF UseRegistries, GiveUp
<1>4. CASE AddUntracked
  <2>1. ASSUME NEW r \in Registries, NEW h \in Handle, AddNode(r, h) PROVE RegistryChange
    <3>1. r \in regs /\ ptr[h] # Null /\ AddNodeTo(r, ptr[h]) /\ UNCHANGED regs
      BY <2>1, Zenon DEF AddNode
    <3>. QED BY <1>0, <3>1, Zenon DEF RegistryChange
  <2>2. CASE \E r, s \in Registries : CloneRegistry(r, s)
    BY <2>2, Zenon DEF CloneRegistry, RegistryChange
  <2>. QED BY <1>4, <2>1, <2>2, Zenon DEF AddUntracked
<1>5. CASE Destroy
  <2>1. CASE DropShared \/ \E a \in Addr : DropFields(a)
    BY <1>1, <2>1, Zenon DEF DropShared, DropFields, DropNextEdge, DropOutgoing
  <2>2. CASE DropLast
    <3>1. dropping \in Addr /\ Deregister(dropping) /\ UNCHANGED regs
      BY <2>2 DEF DropLast, TypeOK
    <3>. QED BY <3>1, DeregisterChange, Zenon
  <2>. QED BY <1>5, <2>1, <2>2, Zenon DEF Destroy
<1>. QED BY <1>2, <1>3, <1>4, <1>5, Zenon DEF Next, TrackedNext

-----------------------------------------------------------------------------
(* One lemma per operation of Registry *)

\* Registry::add_node enters a node in both maps, under a key that was free.
LEMMA AddNodeToKeepsMaps ==
  ASSUME TypeOK, RegistryInv, NEW r \in regs, NEW a \in Addr,
         AddNodeTo(r, a), UNCHANGED regs
  PROVE  RegistryInv'
<1>. USE DEF RegistryInv, TypeOK, RegistryTypeOK
<1>1. CASE UNCHANGED <<nodes, ptr_to_id, issued>>
  BY <1>1 DEF MapsInverse
<1>2. ASSUME NEW k \in NodeId \ issued[r], ptr_to_id[r][a] = Null,
             nodes' = [nodes EXCEPT ![r][k] = a],
             ptr_to_id' = [ptr_to_id EXCEPT ![r][a] = k],
             issued' = [issued EXCEPT ![r] = @ \cup {k}]
      PROVE  RegistryInv'
  <2>1. nodes[r][k] = Null
    BY <1>2
  <2>2. MapsInverse'
    <3>. SUFFICES ASSUME NEW q \in Registries, NEW b \in Addr, NEW id \in NodeId
                  PROVE  nodes'[q][id] = b <=> ptr_to_id'[q][b] = id
      BY DEF MapsInverse
    <3>1. nodes'[q][id] = IF q = r /\ id = k THEN a ELSE nodes[q][id]
      BY <1>2
    <3>2. ptr_to_id'[q][b] = IF q = r /\ b = a THEN k ELSE ptr_to_id[q][b]
      BY <1>2
    <3>3. nodes[q][id] = b <=> ptr_to_id[q][b] = id
      BY DEF MapsInverse
    <3>. QED BY <3>1, <3>2, <3>3, <2>1, <1>2, NullAssumption
  <2>3. \A q \in Registries, id \in NodeId : nodes'[q][id] # Null => id \in issued'[q]
    BY <1>2
  <2>4. \A q \in Registries \ regs' : nodes'[q] = NoNodes /\ ptr_to_id'[q] = NoPtrs
    BY <1>2
  <2>. QED BY <2>2, <2>3, <2>4
<1>. QED BY <1>1, <1>2, Zenon DEF AddNodeTo, FreshKey, GetId

\* Registry::remove takes the entry from both maps.
LEMMA RemoveFromKeepsMaps ==
  ASSUME TypeOK, RegistryInv, NEW r \in regs, NEW k \in NodeId,
         RemoveFrom(r, k), UNCHANGED regs
  PROVE  RegistryInv'
<1>. USE DEF RegistryInv, TypeOK, RegistryTypeOK, RemoveFrom
<1>1. MapsInverse'
  <2>. SUFFICES ASSUME NEW q \in Registries, NEW b \in Addr, NEW id \in NodeId
                PROVE  nodes'[q][id] = b <=> ptr_to_id'[q][b] = id
    BY DEF MapsInverse
  <2>1. nodes'[q][id] = IF q = r /\ id = k THEN Null ELSE nodes[q][id]
    OBVIOUS
  <2>2. ptr_to_id'[q][b] = IF q = r /\ nodes[r][k] = b THEN Null ELSE ptr_to_id[q][b]
    OBVIOUS
  <2>3. /\ nodes[q][id] = b <=> ptr_to_id[q][b] = id
        /\ nodes[q][k] = b <=> ptr_to_id[q][b] = k
    BY DEF MapsInverse
  <2>. QED BY <2>1, <2>2, <2>3, NullAssumption
<1>2. \A q \in Registries, id \in NodeId : nodes'[q][id] # Null => id \in issued'[q]
  OBVIOUS
<1>3. \A q \in Registries \ regs' : nodes'[q] = NoNodes /\ ptr_to_id'[q] = NoPtrs
  OBVIOUS
<1>. QED BY <1>1, <1>2, <1>3

\* Registry::free_node_ids takes the same nodes from both maps.
LEMMA FreeDeadKeepsMaps ==
  ASSUME TypeOK, RegistryInv, NEW r \in regs, FreeDead(r, live), UNCHANGED regs
  PROVE  RegistryInv'
<1>. USE DEF RegistryInv, TypeOK, RegistryTypeOK, FreeDead
<1>1. MapsInverse'
  <2>. SUFFICES ASSUME NEW q \in Registries, NEW b \in Addr, NEW id \in NodeId
                PROVE  nodes'[q][id] = b <=> ptr_to_id'[q][b] = id
    BY DEF MapsInverse
  <2>1. nodes'[q][id] = IF q = r /\ nodes[r][id] \notin live \cup {Null}
                        THEN Null ELSE nodes[q][id]
    OBVIOUS
  <2>2. ptr_to_id'[q][b] = IF q = r /\ \E j \in NodeId : nodes[r][j] = b /\ b \notin live \cup {Null}
                           THEN Null ELSE ptr_to_id[q][b]
    OBVIOUS
  <2>3. \A j \in NodeId : nodes[q][j] = b <=> ptr_to_id[q][b] = j
    BY DEF MapsInverse
  <2>. QED BY <2>1, <2>2, <2>3, NullAssumption
<1>2. \A q \in Registries, id \in NodeId : nodes'[q][id] # Null => id \in issued'[q]
  OBVIOUS
<1>3. \A q \in Registries \ regs' : nodes'[q] = NoNodes /\ ptr_to_id'[q] = NoPtrs
  BY Zenon
<1>. QED BY <1>1, <1>2, <1>3, Zenon

\* Registries that are created, cloned or dropped have inverse maps.
LEMMA LifetimeKeepsMaps ==
  ASSUME TypeOK, RegistryInv,
         \/ \E r \in Registries \ regs : CreateRegistry(r)
         \/ \E r \in regs, s \in Registries \ regs : CopyRegistry(r, s)
         \/ \E r \in regs : DestroyRegistry(r)
  PROVE  RegistryInv'
<1>. USE DEF RegistryInv, TypeOK, RegistryTypeOK, MapsInverse
<1>1. ASSUME NEW r \in Registries \ regs, CreateRegistry(r) PROVE RegistryInv'
  BY <1>1 DEF CreateRegistry
<1>2. ASSUME NEW r \in regs, NEW s \in Registries \ regs, CopyRegistry(r, s) PROVE RegistryInv'
  BY <1>2 DEF CopyRegistry
<1>3. ASSUME NEW r \in regs, DestroyRegistry(r) PROVE RegistryInv'
  BY <1>3, NullAssumption DEF DestroyRegistry, NoNodes, NoPtrs
<1>. QED BY <1>1, <1>2, <1>3, Zenon

\* There is no registry at first.
LEMMA RegistryInvInit == Init => RegistryInv
BY NullAssumption DEF Init, RegistryInit, RegistryInv, MapsInverse, NoNodes, NoPtrs

\* Every step keeps the invariant of the registries.
LEMMA RegistryStep == TypeOK /\ RegistryInv /\ [Next]_vars => RegistryInv'
<1>. SUFFICES ASSUME TypeOK, RegistryInv, [Next]_vars PROVE RegistryInv'
  OBVIOUS
<1>1. CASE UNCHANGED registryVars
  <2>1. UNCHANGED <<regs, nodes, ptr_to_id, issued>>
    BY <1>1, Zenon DEF registryVars
  <2>2. MapsInverse'
    BY <2>1 DEF RegistryInv, MapsInverse
  <2>. QED BY <2>1, <2>2, Zenon DEF RegistryInv
<1>2. RegistryChange
  BY RegistryChanges
<1>. QED BY <1>1, <1>2, LifetimeKeepsMaps, AddNodeToKeepsMaps, RemoveFromKeepsMaps, FreeDeadKeepsMaps, Zenon
     DEF RegistryChange

-----------------------------------------------------------------------------
(* Theorems for every way of registering *)

\* The inductive invariant of the registries holds in every state of RelRc.
THEOREM RegistryInvariant == Spec => []RegistryInv
<1>1. TypeOK /\ RegistryInv /\ [Next]_vars => RegistryInv'
  BY RegistryStep
<1>. QED BY <1>1, RegistryInvInit, TypeCorrect, PTL DEF Spec

\* Registry::get_id and Registry::get agree on every node and every id.
THEOREM MapsStayInverse == Spec => []MapsInverse
<1>1. RegistryInv => MapsInverse
  BY DEF RegistryInv
<1>. QED BY <1>1, RegistryInvariant, PTL

\* The weak reference stored with each id keeps the allocation.
LEMMA PointersValid == TypeOK /\ RegistryInv => PointersNotDangling
<1>. SUFFICES ASSUME TypeOK, RegistryInv, NEW r \in Registries, NEW a \in Addr,
                     ptr_to_id[r][a] # Null
              PROVE  ~Free(a)
  BY DEF PointersNotDangling
<1>1. ptr_to_id[r][a] \in NodeId
  BY DEF TypeOK, RegistryTypeOK
<1>2. nodes[r][ptr_to_id[r][a]] = a
  BY <1>1 DEF RegistryInv, MapsInverse
<1>. QED BY <1>1, <1>2 DEF Free, RegistryWeak

\* The weak reference stored with each id keeps the address that
\* Registry::get_id compares against from being given to another node.
THEOREM PointersStayValid == Spec => []PointersNotDangling
BY PointersValid, TypeCorrect, RegistryInvariant, PTL

\* When the program has given up every reference and registry and no drop is
\* in progress, every allocation has been returned.
THEOREM AllMemoryReturned == Spec => []MemoryReturned
<1>1. GraphInv /\ RegistryInv => MemoryReturned
  <2>. SUFFICES ASSUME GraphInv, RegistryInv,
                       Held = {}, dropping = Null, teardown = <<>>,
                       \A w \in Weak : weak[w] = Null, regs = {},
                       NEW a \in Addr
                PROVE  Free(a)
    BY DEF MemoryReturned
  <2>0. TypeOK /\ Accounted
    BY DEF GraphInv
  <2>1. \A b \in Addr : ~InTeardown(b)
    BY DEF InTeardown, Range
  <2>2. live = {}
    <3>. SUFFICES ASSUME live # {} PROVE FALSE
      OBVIOUS
    <3>1. PICK b \in live : b \in Held \/ b = dropping \/ \E c \in Addr \ live : b \in Parents(c)
      BY AcyclicGraphsDoNotLeak DEF NoLeak
    <3>2. b # Null
      BY <2>0, NullAssumption DEF TypeOK
    <3>3. PICK c \in Addr \ live : b \in Parents(c)
      BY <3>1, <3>2
    <3>4. incoming[c] = <<>>
      BY <2>0, <2>1 DEF Accounted
    <3>. QED BY <3>3, <3>4 DEF Parents, Range
  <2>3. \A p \in Addr : outgoing[p] = {}
    BY <2>0, <2>1, <2>2 DEF Accounted
  <2>4. ~RegistryWeak(a)
    BY NullAssumption DEF RegistryWeak, RegistryInv, NoNodes
  <2>. QED BY <2>1, <2>2, <2>3, <2>4, NullAssumption DEF Free
<1>. QED BY <1>1, GraphInvariant, RegistryInvariant, PTL

\* The ids issued stay issued, and each of them denotes the node it denoted, or
\* none any more.
IdsStable ==
  \A r \in regs \cap regs' : \A id \in issued[r] :
    id \in issued'[r] /\ nodes'[r][id] \in {nodes[r][id], Null}

\* A fresh key was not issued before.
LEMMA AddNodeToStable ==
  ASSUME TypeOK, NEW q \in Registries, NEW a \in Addr, AddNodeTo(q, a)
  PROVE  IdsStable
<1>. SUFFICES ASSUME NEW r \in Registries, NEW id \in issued[r]
              PROVE  id \in issued'[r] /\ nodes'[r][id] = nodes[r][id]
  BY DEF IdsStable, TypeOK, RegistryTypeOK
<1>0. RegistryTypeOK /\ id \in NodeId
  BY DEF TypeOK, RegistryTypeOK
<1>1. CASE UNCHANGED <<nodes, issued>>
  BY <1>1
<1>2. ASSUME NEW k \in NodeId \ issued[q], nodes' = [nodes EXCEPT ![q][k] = a],
             issued' = [issued EXCEPT ![q] = @ \cup {k}]
      PROVE  id \in issued'[r] /\ nodes'[r][id] = nodes[r][id]
  BY <1>0, <1>2 DEF RegistryTypeOK
<1>. QED BY <1>1, <1>2 DEF AddNodeTo, FreshKey

\* Every step leaves the ids in use alone or takes them away.
LEMMA IdsStep == TypeOK /\ [Next]_vars => IdsStable
<1>. SUFFICES ASSUME TypeOK, [Next]_vars PROVE IdsStable
  OBVIOUS
<1>0. RegistryTypeOK /\ regs \subseteq Registries
  BY DEF TypeOK, RegistryTypeOK
<1>1. ASSUME UNCHANGED issued,
             \A r \in Registries, id \in NodeId : nodes'[r][id] \in {nodes[r][id], Null}
      PROVE  IdsStable
  <2>1. \A r \in regs : \A id \in issued[r] : r \in Registries /\ id \in NodeId
    BY <1>0 DEF RegistryTypeOK
  <2>. QED BY <1>1, <2>1, Zenon DEF IdsStable
<1>2. CASE UNCHANGED <<nodes, issued>>
  BY <1>2, Zenon DEF IdsStable
<1>3. ASSUME NEW r \in regs, NEW s \in Registries \ regs, CopyRegistry(r, s) PROVE IdsStable
  BY <1>0, <1>3 DEF CopyRegistry, RegistryTypeOK, IdsStable
<1>4. ASSUME NEW r \in regs, DestroyRegistry(r) PROVE IdsStable
  BY <1>0, <1>4 DEF DestroyRegistry, RegistryTypeOK, IdsStable
<1>5. ASSUME NEW r \in regs, NEW a \in Addr, AddNodeTo(r, a) PROVE IdsStable
  BY <1>0, <1>5, AddNodeToStable
<1>6. ASSUME NEW r \in regs, NEW id \in NodeId, RemoveFrom(r, id) PROVE IdsStable
  <2>1. \A q \in Registries, i \in NodeId : nodes'[q][i] \in {nodes[q][i], Null}
    BY <1>0, <1>6 DEF RemoveFrom, RegistryTypeOK
  <2>. QED BY <1>1, <1>6, <2>1, Zenon DEF RemoveFrom
<1>7. ASSUME NEW r \in regs, FreeDead(r, live) PROVE IdsStable
  <2>1. \A q \in Registries, i \in NodeId : nodes'[q][i] \in {nodes[q][i], Null}
    BY <1>0, <1>7 DEF FreeDead, RegistryTypeOK
  <2>. QED BY <1>1, <1>7, <2>1, Zenon DEF FreeDead
<1>8. RegistryChange
  BY RegistryChanges
<1>. QED BY <1>2, <1>3, <1>4, <1>5, <1>6, <1>7, <1>8, Zenon DEF RegistryChange, registryVars, CreateRegistry

-----------------------------------------------------------------------------
(* Theorems for programs that register through try_register_in *)

\* A registry knows a node only if the node's registry field names it.
Tracked == \A r \in Registries, a \in Addr : ptr_to_id[r][a] # Null => registry[a] = r

\* RelRc::try_register_in sets the registry field of the node.
LEMMA RegisterKeepsTracked ==
  ASSUME TypeOK, Tracked, NEW r \in Registries, NEW a \in Addr, TrySetRegister(a, r),
         registry' = [registry EXCEPT ![a] = r], AddNodeTo(r, a)
  PROVE  Tracked'
<1>1. \A q \in Registries : q # r => ptr_to_id[q][a] = Null
  BY NullAssumption DEF Tracked, TrySetRegister
<1>2. \A q \in Registries, b \in Addr :
        ptr_to_id'[q][b] = ptr_to_id[q][b] \/ (q = r /\ b = a)
  BY DEF AddNodeTo, TypeOK, RegistryTypeOK
<1>3. ASSUME NEW q \in Registries, NEW b \in Addr, ptr_to_id'[q][b] # Null
      PROVE  registry'[b] = q
  <2>1. CASE b = a
    BY <2>1, <1>1, <1>2, <1>3, ZenonT(30) DEF TypeOK
  <2>2. CASE b # a
    BY <2>2, <1>2, <1>3, ZenonT(30) DEF Tracked, TypeOK
  <2>. QED BY <2>1, <2>2
<1>. QED BY <1>3, Zenon DEF Tracked

\* With try_register_in as the only way to register, every step keeps the
\* registry field of a node in agreement with the registry that knows it.
LEMMA TrackedStep ==
  ASSUME GraphInv, RegistryInv, Tracked, [TrackedNext]_vars
  PROVE  Tracked'
<1>0. TypeOK /\ RegistryTypeOK /\ Accounted /\ regs \subseteq Registries
  BY DEF GraphInv, TypeOK, RegistryTypeOK
<1>1. ASSUME UNCHANGED registry,
             \A r \in Registries, a \in Addr : ptr_to_id'[r][a] \in {ptr_to_id[r][a], Null}
      PROVE  Tracked'
  BY <1>1 DEF Tracked
<1>2. ASSUME UNCHANGED <<registry, ptr_to_id>> PROVE Tracked'
  BY <1>2, Zenon DEF Tracked
<1>3. CASE UseNodes(Handle) \/ UNCHANGED vars
  <2>1. ASSUME NEW h \in Handle, NEW n \in Addr, NEW parents, WithParents(h, n, parents)
        PROVE  Tracked'
    <3>1. n \notin live /\ registry[n] = Null
      BY <2>1, <1>0 DEF WithParents, Free, Accounted
    <3>2. \A r \in Registries : ptr_to_id[r][n] = Null
      BY <3>1, NullAssumption DEF Tracked
    <3>. QED BY <2>1, <3>2, <1>0, Zenon DEF WithParents, registryVars, Tracked, TypeOK
  <2>. QED BY <1>3, <1>2, <2>1, Zenon DEF UseNodes, Clone, TakeParent, Upgrade, AllOutgoing, TakeChild,
       DropHandle, Downgrade, TakeWeakEdge, DropWeak, Acquire, SetWeak, vars, heapVars, registryVars
<1>4. CASE UseRegistries(Handle) \/ GiveUp
  <2>1. CASE \E r \in Registries : NewRegistry(r)
    BY <2>1, <1>2 DEF NewRegistry, CreateRegistry, heapVars
  <2>2. ASSUME NEW r \in Registries, DropRegistry(r) PROVE Tracked'
    BY <2>2, <1>0, <1>1 DEF DropRegistry, DestroyRegistry, NoPtrs, heapVars, RegistryTypeOK
  <2>3. ASSUME NEW r \in Registries, NEW h \in Handle, TryRegisterIn(h, r) PROVE Tracked'
    <3>1. /\ ptr[h] \in Addr /\ TrySetRegister(ptr[h], r) /\ AddNodeTo(r, ptr[h])
          /\ registry' = [registry EXCEPT ![ptr[h]] = r]
      BY <2>3, <1>0, Zenon DEF TryRegisterIn, TypeOK
    <3>. QED BY <3>1, <1>0, RegisterKeepsTracked, Zenon
  <2>4. ASSUME NEW r \in Registries, NEW id \in NodeId, Remove(r, id) PROVE Tracked'
    BY <2>4, <1>0, <1>1 DEF Remove, RemoveFrom, heapVars, RegistryTypeOK
  <2>5. ASSUME NEW r \in Registries, FreeNodeIds(r) PROVE Tracked'
    BY <2>5, <1>0, <1>1 DEF FreeNodeIds, FreeDead, heapVars, RegistryTypeOK
  <2>6. CASE \E h \in Handle, r \in Registries, id \in NodeId : Get(h, r, id)
    BY <2>6, <1>2 DEF Get, Acquire, registryVars
  <2>. QED BY <1>4, <2>1, <2>2, <2>3, <2>4, <2>5, <2>6 DEF UseRegistries, GiveUp
<1>5. CASE Destroy
  <2>1. CASE DropShared \/ \E a \in Addr : DropFields(a)
    BY <2>1, <1>2 DEF DropShared, DropFields, DropNextEdge, DropOutgoing, registryVars
  <2>2. CASE DropLast
    <3>. DEFINE d == dropping
                r == registry[d]
    <3>1. d \in Addr /\ Deregister(d) /\ registry' = [registry EXCEPT ![d] = Null]
      BY <2>2, <1>0 DEF DropLast, TypeOK
    <3>2. \A q \in Registries : ptr_to_id[q][d] # Null => q = r /\ q \in regs
      BY <3>1, NullAssumption DEF Tracked, RegistryInv, NoPtrs
    <3>3. \A q \in Registries, b \in Addr :
            /\ ptr_to_id'[q][b] \in {ptr_to_id[q][b], Null}
            /\ b = d => ptr_to_id'[q][b] = Null
      <4>1. CASE r \in regs /\ ptr_to_id[r][d] # Null
        <5>1. ptr_to_id[r][d] \in NodeId /\ nodes[r][ptr_to_id[r][d]] = d
          BY <4>1, <3>1, <1>0 DEF RegistryTypeOK, RegistryInv, MapsInverse
        <5>2. RemoveFrom(r, ptr_to_id[r][d])
          BY <4>1, <3>1 DEF Deregister, GetId
        <5>. QED BY <5>1, <5>2, <3>1, <3>2, <4>1, <1>0, Zenon DEF RemoveFrom, RegistryTypeOK
      <4>2. CASE ~(r \in regs /\ ptr_to_id[r][d] # Null)
        BY <4>2, <3>1, <3>2 DEF Deregister, GetId
      <4>. QED BY <4>1, <4>2, ZenonT(30)
    <3>. HIDE DEF d, r
    <3>. QED BY <3>1, <3>3, <1>0, Zenon DEF Tracked, TypeOK
  <2>. QED BY <1>5, <2>1, <2>2 DEF Destroy
<1>. QED BY <1>3, <1>4, <1>5, Zenon DEF TrackedNext

TrackedInv == GraphInv /\ RegistryInv /\ Tracked

\* TrackedInv is inductive for such programs.
LEMMA TrackedInvariant == TrackedSpec => []TrackedInv
<1>1. Init => TrackedInv
  <2>1. Init => Tracked
    BY DEF Init, RegistryInit, NoPtrs, Tracked
  <2>. QED BY <2>1, GraphInit, RegistryInvInit DEF TrackedInv
<1>2. TrackedInv /\ [TrackedNext]_vars => TrackedInv'
  <2>. SUFFICES ASSUME TrackedInv, [TrackedNext]_vars PROVE TrackedInv'
    OBVIOUS
  <2>1. [Next]_vars /\ TypeOK
    BY DEF Next, TrackedInv, GraphInv
  <2>. QED BY <2>1, GraphStep, RegistryStep, TrackedStep DEF TrackedInv
<1>. QED BY <1>1, <1>2, PTL DEF TrackedSpec

\* The registry that knows a node is the one its field names, which nodes that
\* are gone do not have.
LEMMA TrackedMeans == TrackedInv => NoStaleIds /\ OneRegistry
<1>. SUFFICES ASSUME TrackedInv PROVE NoStaleIds /\ OneRegistry
  OBVIOUS
<1>1. ASSUME NEW r \in Registries, NEW id \in NodeId, nodes[r][id] # Null
      PROVE  nodes[r][id] \in live
  <2>1. TypeOK /\ RegistryTypeOK /\ Accounted
    BY DEF TrackedInv, GraphInv, TypeOK
  <2>2. nodes[r][id] \in Addr
    BY <1>1, <2>1 DEF RegistryTypeOK
  <2>3. ptr_to_id[r][nodes[r][id]] = id
    BY <2>2 DEF TrackedInv, RegistryInv, MapsInverse
  <2>4. registry[nodes[r][id]] = r
    BY <2>2, <2>3, NullAssumption DEF TrackedInv, Tracked
  <2>. QED BY <2>1, <2>2, <2>4, NullAssumption DEF Accounted
<1>2. OneRegistry
  BY DEF TrackedInv, OneRegistry, Tracked, GetId
<1>. QED BY <1>1, <1>2, Zenon DEF NoStaleIds

\* With try_register_in as the only way in, the id of a node is freed with the
\* node.
THEOREM IdsFreedInTime == TrackedSpec => []NoStaleIds
BY TrackedMeans, TrackedInvariant, PTL

\* With try_register_in as the only way in, no node is in two registries at a
\* time.
THEOREM RegisteredOnce == TrackedSpec => []OneRegistry
BY TrackedMeans, TrackedInvariant, PTL

-----------------------------------------------------------------------------
(* The slots of a registry *)

\* What SlotMap guarantees: the versions of a slot are issued in order, and one
\* of them at most is in use.
SlotInv ==
  /\ \A r \in Registries : \A i \in issued[r], j \in NodeId :
       Slot(j) = Slot(i) /\ Version(j) < Version(i) => j \in issued[r]
  /\ \A r \in Registries, i, j \in NodeId :
       nodes[r][i] # Null /\ nodes[r][j] # Null /\ Slot(i) = Slot(j) => i = j

\* A fresh key is of the newest version of its slot, and no version of the slot
\* is in use.
LEMMA FreshSlot ==
  ASSUME TypeOK, RegistryInv, SlotInv, NEW r \in Registries, NEW k \in FreshKey(r),
         NEW j \in NodeId, Slot(j) = Slot(k)
  PROVE  nodes[r][j] = Null /\ (j \in issued[r] => Version(j) < Version(k))
<1>1. k \in NodeId /\ k \notin issued[r]
  BY DEF FreshKey
<1>2. /\ Version(j) \in Int /\ Version(k) \in Int
      /\ Version(j) = Version(k) => j = k
  BY <1>1, MaxVersionAssumption DEF NodeId, Slot, Version
<1>3. CASE Version(j) < Version(k)
  BY <1>3 DEF FreshKey
<1>4. CASE ~(Version(j) < Version(k))
  <2>1. j \notin issued[r]
    BY <1>1, <1>2, <1>4 DEF SlotInv
  <2>. QED BY <2>1 DEF RegistryInv
<1>. QED BY <1>3, <1>4

\* Registry::add_node takes the next version of a slot that is not in use.
LEMMA AddNodeToKeepsSlots ==
  ASSUME TypeOK, RegistryInv, SlotInv, NEW r \in Registries, NEW a \in Addr, AddNodeTo(r, a)
  PROVE  SlotInv'
<1>1. CASE UNCHANGED <<nodes, ptr_to_id, issued>>
  BY <1>1 DEF SlotInv
<1>2. ASSUME NEW k \in FreshKey(r), nodes' = [nodes EXCEPT ![r][k] = a],
             issued' = [issued EXCEPT ![r] = @ \cup {k}]
      PROVE  SlotInv'
  <2>0. k \in NodeId /\ RegistryTypeOK
    BY DEF FreshKey, TypeOK
  <2>1. \A q \in Registries : issued'[q] = IF q = r THEN issued[r] \cup {k} ELSE issued[q]
    BY <1>2, <2>0 DEF RegistryTypeOK
  <2>2. \A q \in Registries, i \in NodeId :
          nodes'[q][i] = IF q = r /\ i = k THEN a ELSE nodes[q][i]
    BY <1>2, <2>0 DEF RegistryTypeOK
  <2>3. ASSUME NEW q \in Registries, NEW i \in issued'[q], NEW j \in NodeId,
               Slot(j) = Slot(i), Version(j) < Version(i)
        PROVE  j \in issued'[q]
    <3>1. CASE i \in issued[q]
      BY <3>1, <2>1, <2>3, Zenon DEF SlotInv
    <3>2. CASE i \notin issued[q]
      BY <3>2, <2>1, <2>3 DEF FreshKey
    <3>. QED BY <3>1, <3>2, Zenon
  <2>4. ASSUME NEW q \in Registries, NEW i \in NodeId, NEW j \in NodeId,
               nodes'[q][i] # Null, nodes'[q][j] # Null, Slot(i) = Slot(j)
        PROVE  i = j
    <3>1. CASE q = r /\ (i = k \/ j = k)
      <4>1. \A m \in NodeId : Slot(m) = Slot(k) => nodes[r][m] = Null
        BY FreshSlot, Zenon
      <4>. QED BY <3>1, <4>1, <2>0, <2>2, <2>4, Zenon
    <3>2. CASE ~(q = r /\ (i = k \/ j = k))
      BY <3>2, <2>2, <2>4, ZenonT(30) DEF SlotInv
    <3>. QED BY <3>1, <3>2, Zenon
  <2>. QED BY <2>3, <2>4, Zenon DEF SlotInv
<1>. QED BY <1>1, <1>2, Zenon DEF AddNodeTo

\* Every step keeps the slots of all registries in order.
LEMMA SlotStep == TypeOK /\ RegistryInv /\ SlotInv /\ [Next]_vars => SlotInv'
<1>. SUFFICES ASSUME TypeOK, RegistryInv, SlotInv, [Next]_vars PROVE SlotInv'
  OBVIOUS
<1>0. RegistryTypeOK /\ regs \subseteq Registries
  BY DEF TypeOK, RegistryTypeOK
<1>1. ASSUME UNCHANGED issued,
             \A r \in Registries, i \in NodeId : nodes'[r][i] \in {nodes[r][i], Null}
      PROVE  SlotInv'
  BY <1>1 DEF SlotInv
<1>2. CASE UNCHANGED <<nodes, issued>>
  BY <1>2, Zenon DEF SlotInv
<1>3. ASSUME NEW r \in regs, NEW s \in Registries \ regs, CopyRegistry(r, s) PROVE SlotInv'
  <2>1. \A q \in Registries : \E o \in Registries : nodes'[q] = nodes[o] /\ issued'[q] = issued[o]
    BY <1>0, <1>3, Zenon DEF CopyRegistry, RegistryTypeOK
  <2>. QED BY <2>1 DEF SlotInv
<1>4. ASSUME NEW r \in regs, DestroyRegistry(r) PROVE SlotInv'
  BY <1>0, <1>4 DEF DestroyRegistry, NoNodes, RegistryTypeOK, SlotInv
<1>5. ASSUME NEW r \in regs, NEW a \in Addr, AddNodeTo(r, a) PROVE SlotInv'
  BY <1>0, <1>5, AddNodeToKeepsSlots
<1>6. ASSUME NEW r \in regs, NEW id \in NodeId, RemoveFrom(r, id) PROVE SlotInv'
  BY <1>0, <1>1, <1>6, Zenon DEF RemoveFrom, RegistryTypeOK
<1>7. ASSUME NEW r \in regs, FreeDead(r, live) PROVE SlotInv'
  BY <1>0, <1>1, <1>7 DEF FreeDead, RegistryTypeOK
<1>8. RegistryChange
  BY RegistryChanges
<1>. QED BY <1>2, <1>3, <1>4, <1>5, <1>6, <1>7, <1>8, Zenon DEF RegistryChange, registryVars, CreateRegistry

-----------------------------------------------------------------------------
(* Steps of the heap that take no ids away *)

\* The steps of RelRc but for Registry::remove.
BaseNext ==
  \/ UseNodes(Handle) \/ UseRegistries(Handle) \/ AddUntracked \/ Destroy
  \/ \E r \in Registries : DropRegistry(r)

\* No live node loses its id in a registry.
IdsKept ==
  \A r \in regs \cap regs', a \in live \cap live' :
    ptr_to_id[r][a] # Null => ptr_to_id'[r][a] = ptr_to_id[r][a]

\* Registry::add_node gives a node an id, and takes none from others.
LEMMA AddNodeToKeepsIds ==
  ASSUME TypeOK, NEW r \in Registries, NEW a \in Addr, AddNodeTo(r, a)
  PROVE  /\ ptr_to_id'[r][a] \in NodeId /\ ptr_to_id'[r][a] # Null
         /\ ptr_to_id'[r][a] = ptr_to_id[r][a] \/ ptr_to_id'[r][a] \notin issued[r]
         /\ \A q \in Registries, b \in Addr :
              ptr_to_id[q][b] # Null => ptr_to_id'[q][b] = ptr_to_id[q][b]
<1>. DEFINE Kept == \A q \in Registries, b \in Addr :
                      ptr_to_id[q][b] # Null => ptr_to_id'[q][b] = ptr_to_id[q][b]
<1>0. ptr_to_id \in [Registries -> [Addr -> NodeId \cup {Null}]]
  BY Zenon DEF TypeOK, RegistryTypeOK
<1>1. CASE GetId(r, a) # Null /\ UNCHANGED <<nodes, ptr_to_id, issued>>
  BY <1>0, <1>1, Zenon DEF GetId
<1>2. ASSUME NEW k \in FreshKey(r), GetId(r, a) = Null, ptr_to_id' = [ptr_to_id EXCEPT ![r][a] = k]
      PROVE  ptr_to_id'[r][a] \in NodeId \ issued[r] /\ ptr_to_id'[r][a] # Null /\ Kept
  <2>1. k \in NodeId \ issued[r] /\ k # Null
    BY NullAssumption, Zenon DEF FreshKey
  <2>. QED BY <1>0, <1>2, <2>1 DEF GetId
<1>. QED BY <1>1, <1>2, ZenonT(30) DEF AddNodeTo

\* The end of RelRc::drop takes the id of the node that dies, and no other.
LEMMA DeregisterKeepsIds ==
  ASSUME TypeOK, RegistryInv, NEW d \in Addr, Deregister(d)
  PROVE  \A q \in Registries, b \in Addr : b # d => ptr_to_id'[q][b] = ptr_to_id[q][b]
<1>. USE DEF TypeOK, RegistryTypeOK
<1>. DEFINE r == registry[d]
<1>1. CASE r \in regs /\ ptr_to_id[r][d] # Null
  <2>1. r \in Registries /\ ptr_to_id[r][d] \in NodeId /\ nodes[r][ptr_to_id[r][d]] = d
    BY <1>1 DEF RegistryInv, MapsInverse
  <2>2. RemoveFrom(r, ptr_to_id[r][d])
    BY <1>1, Zenon DEF Deregister, GetId
  <2>. QED BY <2>1, <2>2, Zenon DEF RemoveFrom
<1>2. CASE ~(r \in regs /\ ptr_to_id[r][d] # Null)
  BY <1>2 DEF Deregister, GetId
<1>. QED BY <1>1, <1>2, Zenon

\* The ids of live nodes stay.
LEMMA BaseStep ==
  ASSUME TypeOK, RegistryInv, [BaseNext]_vars
  PROVE  IdsKept
<1>0. /\ RegistryTypeOK /\ live \subseteq Addr /\ regs \subseteq Registries
      /\ \A h \in Handle : ptr[h] # Null => ptr[h] \in Addr
  BY DEF TypeOK, RegistryTypeOK
<1>1. CASE UNCHANGED ptr_to_id
  BY <1>1, Zenon DEF IdsKept
<1>2. CASE UseNodes(Handle) \/ UNCHANGED vars
  BY <1>1, <1>2, Zenon DEF UseNodes, WithParents, Clone, TakeParent, Upgrade, AllOutgoing, TakeChild,
     DropHandle, Downgrade, TakeWeakEdge, DropWeak, Acquire, SetWeak, vars, registryVars
<1>3. CASE UseRegistries(Handle) \/ AddUntracked
  <2>1. CASE \E r \in Registries : NewRegistry(r)
    BY <2>1, <1>1, ZenonT(30) DEF NewRegistry, CreateRegistry
  <2>2. ASSUME NEW r \in Registries, NEW h \in Handle, TryRegisterIn(h, r) \/ AddNode(r, h)
        PROVE  IdsKept
    <3>1. ptr[h] # Null /\ AddNodeTo(r, ptr[h])
      BY <2>2, Zenon DEF TryRegisterIn, AddNode
    <3>2. \A q \in Registries, b \in Addr :
            ptr_to_id[q][b] # Null => ptr_to_id'[q][b] = ptr_to_id[q][b]
      BY <1>0, <3>1, AddNodeToKeepsIds, ZenonT(30)
    <3>. QED BY <1>0, <3>2, Zenon DEF IdsKept
  <2>3. ASSUME NEW r \in Registries, FreeNodeIds(r) PROVE IdsKept
    <3>1. FreeDead(r, live)
      BY <2>3 DEF FreeNodeIds
    <3>. QED BY <1>0, <3>1, Zenon DEF FreeDead, IdsKept, RegistryTypeOK
  <2>4. CASE \E h \in Handle, r \in Registries, id \in NodeId : Get(h, r, id)
    BY <2>4, <1>1, ZenonT(30) DEF Get, Acquire, registryVars
  <2>5. ASSUME NEW r \in Registries, NEW s \in Registries, CloneRegistry(r, s) PROVE IdsKept
    <3>1. s \notin regs /\ ptr_to_id' = [ptr_to_id EXCEPT ![s] = ptr_to_id[r]]
      BY <2>5 DEF CloneRegistry, CopyRegistry
    <3>. QED BY <1>0, <3>1 DEF IdsKept, RegistryTypeOK
  <2>. QED BY <1>3, <2>1, <2>2, <2>3, <2>4, <2>5, Zenon DEF UseRegistries, AddUntracked
<1>4. ASSUME NEW r \in Registries, DropRegistry(r) PROVE IdsKept
  <2>1. regs' = regs \ {r} /\ ptr_to_id' = [ptr_to_id EXCEPT ![r] = NoPtrs]
    BY <1>4 DEF DropRegistry, DestroyRegistry
  <2>. QED BY <1>0, <2>1 DEF IdsKept, RegistryTypeOK
<1>5. CASE Destroy
  <2>1. CASE DropShared \/ \E a \in Addr : DropFields(a)
    BY <2>1, <1>1, ZenonT(30) DEF DropShared, DropFields, DropNextEdge, DropOutgoing, registryVars
  <2>2. CASE DropLast
    <3>1. dropping \in Addr /\ Deregister(dropping) /\ live' = live \ {dropping}
      BY <2>2 DEF DropLast, TypeOK
    <3>2. \A q \in Registries, b \in Addr : b # dropping => ptr_to_id'[q][b] = ptr_to_id[q][b]
      BY <3>1, DeregisterKeepsIds, Zenon
    <3>. QED BY <1>0, <3>1, <3>2, Zenon DEF IdsKept
  <2>. QED BY <1>5, <2>1, <2>2, Zenon DEF Destroy
<1>. QED BY <1>2, <1>3, <1>4, <1>5, ZenonT(30) DEF BaseNext

\* The registry field of a node names a registry that knows it, or one that is
\* gone for good.
LEMMA FieldStep ==
  ASSUME TypeOK, RegistryInv, FieldMeansRegistered, [BaseNext]_vars
  PROVE  FieldMeansRegistered'
<1>0. /\ IdsKept /\ RegistryTypeOK /\ live \subseteq Addr /\ Null \notin regs
      /\ \A h \in Handle : ptr[h] # Null => ptr[h] \in Addr
  BY BaseStep, NullAssumption, Zenon DEF TypeOK, RegistryTypeOK
<1>1. ASSUME NEW a \in live \cap live', registry'[a] = registry[a], registry[a] \in regs \cap regs'
      PROVE  GetId(registry[a], a)' # Null
  <2>1. ptr_to_id[registry[a]][a] # Null
    BY <1>1, Zenon DEF FieldMeansRegistered, GetId
  <2>2. ptr_to_id'[registry[a]][a] = ptr_to_id[registry[a]][a]
    BY <1>0, <1>1, <2>1, Zenon DEF IdsKept
  <2>. QED BY <1>1, <2>1, <2>2, Zenon DEF GetId
<1>2. ASSUME live' \subseteq live, regs' \subseteq regs, \A a \in live' : registry'[a] = registry[a]
      PROVE  FieldMeansRegistered'
  BY <1>1, <1>2, Zenon DEF FieldMeansRegistered
<1>3. CASE UseNodes(Handle) \/ UNCHANGED vars
  <2>1. ASSUME NEW h \in Handle, NEW n \in Addr, NEW parents, WithParents(h, n, parents)
        PROVE  FieldMeansRegistered'
    BY <2>1, <1>0, ZenonT(30) DEF WithParents, FieldMeansRegistered, GetId, registryVars, TypeOK
  <2>2. CASE UNCHANGED <<live, registry, regs>>
    BY <1>2, <2>2, Zenon
  <2>. QED BY <1>3, <2>1, <2>2, Zenon DEF UseNodes, Clone, TakeParent, Upgrade, AllOutgoing, TakeChild,
     DropHandle, Downgrade, TakeWeakEdge, DropWeak, Acquire, SetWeak, vars, heapVars, registryVars
<1>4. CASE UseRegistries(Handle) \/ AddUntracked \/ \E r \in Registries : DropRegistry(r)
  <2>1. ASSUME NEW r \in Registries, NEW h \in Handle, TryRegisterIn(h, r)
        PROVE  FieldMeansRegistered'
    <3>. DEFINE a == ptr[h]
    <3>1. /\ a \in Addr /\ registry' = [registry EXCEPT ![a] = r] /\ UNCHANGED <<live, regs>>
          /\ AddNodeTo(r, a)
      BY <2>1, <1>0, Zenon DEF TryRegisterIn
    <3>. HIDE DEF a
    <3>2. ptr_to_id'[r][a] # Null
      BY <3>1, AddNodeToKeepsIds, Zenon
    <3>3. ASSUME NEW b \in live, registry'[b] \in regs PROVE GetId(registry[b], b)' # Null
      <4>1. CASE b = a
        BY <4>1, <3>1, <3>2, <1>0, Zenon DEF TypeOK, GetId
      <4>2. CASE b # a
        <5>1. registry'[b] = registry[b]
          BY <4>2, <3>1, <1>0, Zenon DEF TypeOK
        <5>. QED BY <5>1, <3>1, <3>3, <1>1, Zenon
      <4>. QED BY <4>1, <4>2, Zenon
    <3>. QED BY <3>1, <3>3, Zenon DEF FieldMeansRegistered
  <2>2. ASSUME NEW r \in Registries, regs' = regs \cup {r}, \A a \in Addr : registry[a] # r,
               UNCHANGED heapVars
        PROVE  FieldMeansRegistered'
    <3>1. UNCHANGED <<live, registry>>
      BY <2>2 DEF heapVars
    <3>2. \A a \in live : registry[a] \in regs' => registry[a] \in regs
      BY <2>2, <1>0
    <3>. QED BY <1>1, <3>1, <3>2, ZenonT(30) DEF FieldMeansRegistered
  <2>3. ASSUME UNCHANGED heapVars, regs' \subseteq regs PROVE FieldMeansRegistered'
    BY <1>2, <2>3, Zenon DEF heapVars
  <2>4. CASE \E r \in Registries : NewRegistry(r)
    BY <2>2, <2>4, Zenon DEF NewRegistry, CreateRegistry
  <2>5. CASE \E r, s \in Registries : CloneRegistry(r, s)
    BY <2>2, <2>5, Zenon DEF CloneRegistry, CopyRegistry
  <2>6. CASE \E r \in Registries : DropRegistry(r)
    BY <2>3, <2>6 DEF DropRegistry, DestroyRegistry
  <2>7. CASE (\E r \in Registries : FreeNodeIds(r)) \/ (\E r \in Registries, h \in Handle : AddNode(r, h))
    BY <2>3, <2>7, Zenon DEF FreeNodeIds, AddNode
  <2>8. CASE \E h \in Handle, r \in Registries, id \in NodeId : Get(h, r, id)
    BY <1>2, <2>8, Zenon DEF Get, Acquire, registryVars
  <2>. QED BY <1>4, <2>1, <2>4, <2>5, <2>6, <2>7, <2>8, Zenon DEF UseRegistries, AddUntracked
<1>5. CASE Destroy
  <2>1. CASE DropShared \/ \E a \in Addr : DropFields(a)
    BY <1>2, <2>1, ZenonT(30) DEF DropShared, DropFields, DropNextEdge, DropOutgoing, registryVars
  <2>2. CASE DropLast
    <3>1. /\ live' = live \ {dropping} /\ registry' = [registry EXCEPT ![dropping] = Null]
          /\ UNCHANGED regs
      BY <2>2, Zenon DEF DropLast
    <3>2. \A a \in live' : registry'[a] = registry[a]
      BY <1>0, <3>1 DEF TypeOK
    <3>. QED BY <1>2, <3>1, <3>2, Zenon
  <2>. QED BY <1>5, <2>1, <2>2, Zenon DEF Destroy
<1>. QED BY <1>3, <1>4, <1>5, ZenonT(30) DEF BaseNext

-----------------------------------------------------------------------------
(* All that a step may do to the heap *)

HeapInv == GraphInv /\ RegistryInv /\ SlotInv

\* The heap and the registries stay in order, live nodes that someone owns keep
\* their lives and their parents, and ids denote what they denoted or nothing.
HeapKept ==
  /\ HeapInv'
  /\ IdsStable
  /\ \A a \in live : Owned(a) => a \in live'
  /\ \A a \in live \cap live' : incoming'[a] = incoming[a]

\* The steps of RelRc itself.
LEMMA NextKeepsHeap ==
  ASSUME HeapInv, [Next]_vars
  PROVE  HeapKept
<1>0. GraphInv /\ TypeOK /\ RegistryInv /\ SlotInv
  BY DEF HeapInv, GraphInv
<1>1. HeapInv'
  BY <1>0, GraphStep, RegistryStep, SlotStep, Zenon DEF HeapInv
<1>2. ASSUME NEW a \in live, Owned(a) PROVE a \in live'
  <2>1. CASE live' = live
    BY <2>1, ZenonT(30)
  <2>2. CASE UseNodes(Handle) \/ UNCHANGED vars
    BY <2>1, <2>2, Zenon DEF UseNodes, WithParents, Clone, TakeParent, Upgrade, AllOutgoing, TakeChild,
       DropHandle, Downgrade, TakeWeakEdge, DropWeak, Acquire, SetWeak, vars, heapVars
  <2>3. CASE UseRegistries(Handle) \/ GiveUp \/ AddUntracked
    BY <2>1, <2>3, Zenon DEF UseRegistries, GiveUp, AddUntracked, NewRegistry, TryRegisterIn, FreeNodeIds,
       Get, Acquire, DropRegistry, Remove, AddNode, CloneRegistry, heapVars
  <2>4. CASE Destroy
    BY <1>2, <2>4, Zenon DEF Destroy, DropShared, DropLast, DropFields, DropNextEdge, DropOutgoing
  <2>. QED BY <2>2, <2>3, <2>4, Zenon DEF Next, TrackedNext
<1>3. IdsStable /\ \A a \in live \cap live' : incoming'[a] = incoming[a]
  BY <1>0, IdsStep, ParentsStep, Zenon
<1>. QED BY <1>1, <1>2, <1>3, Zenon DEF HeapKept

\* A handle that names a node is in Held, and the node is live.
LEMMA HeldLive ==
  ASSUME GraphInv, NEW h \in Handle, ptr[h] # Null
  PROVE  ptr[h] \in live /\ ptr[h] \in Addr
BY DEF GraphInv, TypeOK, AncestorsAlive, Held, Range

-----------------------------------------------------------------------------
(* Activations come and go *)

\* In the activations F of insert_ancestors for the argument a, the i-th is for
\* a live node: a itself, or a parent of the node of the activation that called
\* it.  The parents it has yet to look at are parents of its node.
FrameOK(F, a, i) ==
  /\ F[i].node \in live
  /\ Range(F[i].todo) \subseteq Parents(F[i].node)
  /\ i = Len(F) => F[i].node = a
  /\ i # Len(F) => F[i].node \in Parents(F[i + 1].node)

\* The elements of a sequence with one more in front.
LEMMA Pushed ==
  ASSUME NEW S, NEW F \in Seq(S), NEW x \in S
  PROVE  /\ <<x>> \o F \in Seq(S) /\ Len(<<x>> \o F) = Len(F) + 1
         /\ DOMAIN (<<x>> \o F) = 1 .. Len(F) + 1 /\ (<<x>> \o F)[1] = x
         /\ \A i \in 1 .. Len(F) : (<<x>> \o F)[i + 1] = F[i]
         /\ <<x>> \o F # <<>>
OBVIOUS

\* ... and of one without its first.
LEMMA Popped ==
  ASSUME NEW S, NEW F \in Seq(S), F # <<>>
  PROVE  /\ Tail(F) \in Seq(S) /\ Len(F) = Len(Tail(F)) + 1 /\ Len(Tail(F)) \in Nat
         /\ DOMAIN Tail(F) = 1 .. Len(Tail(F)) /\ Head(F) = F[1] /\ Head(F) \in S
         /\ \A i \in 1 .. Len(Tail(F)) : Tail(F)[i] = F[i + 1]
OBVIOUS

\* insert_ancestors is called for the argument or for a parent of the node of
\* the activation in front.
LEMMA PushFrame ==
  ASSUME NEW F \in Seq(Frame), NEW a, NEW x \in Frame,
         \A i \in DOMAIN F : FrameOK(F, a, i),
         x.node \in live, Range(x.todo) \subseteq Parents(x.node),
         F = <<>> => x.node = a,
         F # <<>> => x.node \in Parents(F[1].node)
  PROVE  \A i \in DOMAIN (<<x>> \o F) : FrameOK(<<x>> \o F, a, i)
<1>. DEFINE T == <<x>> \o F
<1>1. /\ T \in Seq(Frame) /\ Len(T) = Len(F) + 1 /\ Len(F) \in Nat
      /\ DOMAIN T = 1 .. Len(F) + 1 /\ T[1] = x /\ DOMAIN F = 1 .. Len(F)
      /\ \A i \in 1 .. Len(F) : T[i + 1] = F[i]
  BY Pushed
<1>2. F = <<>> <=> Len(F) = 0
  OBVIOUS
<1>. HIDE DEF T
<1>3. FrameOK(T, a, 1)
  <2>1. F # <<>> => T[1 + 1] = F[1]
    BY <1>1, <1>2
  <2>2. 1 = Len(T) <=> F = <<>>
    BY <1>1, <1>2
  <2>. QED BY <1>1, <2>1, <2>2, Zenon DEF FrameOK
<1>4. ASSUME NEW j \in 1 .. Len(F) PROVE FrameOK(T, a, j + 1)
  <2>1. FrameOK(F, a, j) /\ T[j + 1] = F[j]
    BY <1>1, Zenon
  <2>0. Len(F) \in Nat /\ Len(T) = Len(F) + 1
    BY <1>1
  <2>2. j # Len(F) => j + 1 \in 1 .. Len(F)
    BY <2>0
  <2>3. j # Len(F) => T[(j + 1) + 1] = F[j + 1]
    BY <1>1, <2>2, ZenonT(30)
  <2>4. j \in Nat /\ (j + 1 = Len(T) => j = Len(F)) /\ (j = Len(F) => j + 1 = Len(T))
    BY <2>0
  <2>. QED BY <2>1, <2>2, <2>3, <2>4, Zenon DEF FrameOK
<1>5. \A i \in DOMAIN T : i = 1 \/ (i - 1 \in 1 .. Len(F) /\ i = (i - 1) + 1)
  BY <1>1
<1>6. \A i \in DOMAIN T : FrameOK(T, a, i)
  BY <1>3, <1>4, <1>5, Zenon
<1>. QED BY <1>6, Zenon DEF T

\* An activation returns to the one that called it.
LEMMA PopFrame ==
  ASSUME NEW F \in Seq(Frame), NEW a, F # <<>>, \A i \in DOMAIN F : FrameOK(F, a, i)
  PROVE  /\ \A i \in DOMAIN Tail(F) : FrameOK(Tail(F), a, i)
         /\ Tail(F) = <<>> => F[1].node = a
         /\ Tail(F) # <<>> => F[1].node \in Parents(Tail(F)[1].node)
<1>. DEFINE T == Tail(F)
<1>1. /\ T \in Seq(Frame) /\ Len(F) = Len(T) + 1 /\ Len(T) \in Nat
      /\ DOMAIN T = 1 .. Len(T) /\ DOMAIN F = 1 .. Len(F)
      /\ \A i \in 1 .. Len(T) : T[i] = F[i + 1]
  BY Popped
<1>2. T = <<>> <=> Len(T) = 0
  BY <1>1
<1>. HIDE DEF T
<1>3. ASSUME NEW j \in DOMAIN T PROVE FrameOK(T, a, j)
  <2>1. j + 1 \in DOMAIN F /\ T[j] = F[j + 1] /\ FrameOK(F, a, j + 1)
    BY <1>1
  <2>2. /\ j = Len(T) <=> j + 1 = Len(F)
        /\ j # Len(T) => T[j + 1] = F[(j + 1) + 1]
    BY <1>1
  <2>. QED BY <2>1, <2>2, Zenon DEF FrameOK
<1>4. FrameOK(F, a, 1)
  BY <1>1
<1>5. T # <<>> => T[1] = F[1 + 1] /\ Len(F) # 1
  BY <1>1, <1>2
<1>6. /\ T = <<>> => F[1].node = a
      /\ T # <<>> => F[1].node \in Parents(T[1].node)
  BY <1>1, <1>2, <1>4, <1>5 DEF FrameOK
<1>. QED BY <1>3, <1>6 DEF T

=============================================================================
